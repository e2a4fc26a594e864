------------------------ MODULE TCPConnectionProofs ------------------------
(***************************************************************************)
(* The safety invariants of TCPConnection for any messages of any length,  *)
(* any socket buffer and any number of threads; and, when the connection is*)
(* used from its loop only and the peer neither resets it nor closes it for*)
(* good, that nothing fails.                                               *)
(*                                                                         *)
(* What is still to run (ToRun: the rest of the batch, then the queue) is  *)
(* treated as one sequence.  Kept, Added and Taken say what a step does to *)
(* a functor in it, and the lemma of an action uses nothing else of it.    *)
(***************************************************************************)
EXTENDS TCPConnection, SequenceTheorems, TLAPS

-----------------------------------------------------------------------------
(* The inductive invariant. *)

\* Output is watched, and reading too, until the connection closes; before it
\* is established there is no output.

Watched ==
    /\ registered /\ ~Closing => polled /\ "in" \in events /\ (IsWriting <=> outbuf # <<>>)
    /\ ~registered /\ ~Closing => outbuf = <<>>

\* connectionEstablished is to run once, before the connection is anything else.
EstablishedOnce ==
    "established" \in ToSet(ToRun) =>
        state = "CONNECTING" /\ inMap /\ ExactlyOnce("established", ToRun)

\* What _state says of the rest.
StateMatches ==
    /\ state = "CONNECTING" => /\ removals = 0 /\ ~registered
                               /\ \A t \in Threads : tpc[t] = "idle"
    /\ registered => state \in {"CONNECTED", "DISCONNECTING"}
    /\ inMap /\ state # "CONNECTING" => registered

\* Outside doPendingFunctors no batch is being run.
BatchMatches == pc # "functors" => batch = <<>> /\ at = 1

ConnectionInv ==
    /\ TypeOK /\ Watched /\ FinLast /\ ClosedOnce
    /\ EstablishedOnce /\ StateMatches /\ BatchMatches

-----------------------------------------------------------------------------
(* Sequences: what one element more at the end, or one less at the front,  *)
(* does to membership and to ExactlyOnce.                                  *)

LEMMA OneMore ==
    ASSUME NEW S, NEW s \in Seq(S), NEW g \in S
    PROVE  /\ Append(s, g) \in Seq(S)
           /\ \A f : f \in ToSet(Append(s, g)) <=> f \in ToSet(s) \/ f = g
           /\ \A f : f # g => (ExactlyOnce(f, Append(s, g)) <=> ExactlyOnce(f, s))
           /\ g \notin ToSet(s) => ExactlyOnce(g, Append(s, g))
<1>1. Append(s, g) \in Seq(S) /\ DOMAIN Append(s, g) = 1 .. Len(s) + 1
  OBVIOUS
<1>2. \A i \in DOMAIN s : i \in 1 .. Len(s) /\ Append(s, g)[i] = s[i]
  OBVIOUS
<1>3. Append(s, g)[Len(s) + 1] = g /\ DOMAIN s = 1 .. Len(s) /\ Len(s) \in Nat
  OBVIOUS
<1>4. \A f : f \in ToSet(Append(s, g)) <=> f \in ToSet(s) \/ f = g
  BY <1>1, <1>2, <1>3 DEF ToSet
<1>5. \A f : f # g => (ExactlyOnce(f, Append(s, g)) <=> ExactlyOnce(f, s))
  BY <1>1, <1>2, <1>3 DEF ExactlyOnce
<1>6. g \notin ToSet(s) => ExactlyOnce(g, Append(s, g))
  BY <1>1, <1>2, <1>3 DEF ExactlyOnce, ToSet
<1> QED  BY <1>1, <1>4, <1>5, <1>6

LEMMA OneLess ==
    ASSUME NEW S, NEW s \in Seq(S), s # <<>>
    PROVE  /\ Tail(s) \in Seq(S)
           /\ Head(s) \in S /\ Head(s) \in ToSet(s)
           /\ \A f : f \in ToSet(Tail(s)) => f \in ToSet(s)
           /\ \A f : f # Head(s) /\ f \in ToSet(s) => f \in ToSet(Tail(s))
           /\ \A f : f # Head(s) => (ExactlyOnce(f, Tail(s)) <=> ExactlyOnce(f, s))
           /\ ExactlyOnce(Head(s), s) => Head(s) \notin ToSet(Tail(s))
<1>1. /\ Tail(s) \in Seq(S) /\ DOMAIN Tail(s) = 1 .. Len(s) - 1 /\ Len(s) \in Nat \ {0}
      /\ DOMAIN s = 1 .. Len(s)
      /\ Head(s) = s[1]
  OBVIOUS
<1>2. \A i \in DOMAIN Tail(s) : i + 1 \in DOMAIN s /\ Tail(s)[i] = s[i + 1]
  OBVIOUS
<1>3. \A i \in DOMAIN s : i # 1 => i - 1 \in DOMAIN Tail(s) /\ s[i] = Tail(s)[i - 1]
  OBVIOUS
<1>4. Head(s) \in S /\ Head(s) \in ToSet(s)
  BY <1>1 DEF ToSet
<1>5. \A f : f \in ToSet(Tail(s)) => f \in ToSet(s)
  BY <1>1, <1>2 DEF ToSet
<1>6. \A f : f # Head(s) /\ f \in ToSet(s) => f \in ToSet(Tail(s))
  BY <1>1, <1>3 DEF ToSet
<1>7. ASSUME NEW f, f # Head(s), ExactlyOnce(f, Tail(s)) PROVE ExactlyOnce(f, s)
  <2>1. PICK i \in DOMAIN Tail(s) : \A j \in DOMAIN Tail(s) : Tail(s)[j] = f <=> i = j
    BY <1>7 DEF ExactlyOnce
  <2>2. ASSUME NEW j \in DOMAIN s PROVE s[j] = f <=> i + 1 = j
    <3>1. CASE j = 1
      BY <3>1, <2>1, <1>1, <1>7
    <3>2. CASE j # 1
      <4>1. j - 1 \in DOMAIN Tail(s) /\ s[j] = Tail(s)[j - 1]
        BY <3>2, <1>3
      <4>2. i \in Int /\ j \in Int
        BY <1>1
      <4> QED  BY <4>1, <4>2, <2>1
    <3> QED  BY <3>1, <3>2
  <2> QED  BY <2>1, <2>2, <1>2 DEF ExactlyOnce
<1>8. ASSUME NEW f, f # Head(s), ExactlyOnce(f, s) PROVE ExactlyOnce(f, Tail(s))
  <2>1. PICK i \in DOMAIN s : \A j \in DOMAIN s : s[j] = f <=> i = j
    BY <1>8 DEF ExactlyOnce
  <2>2. i # 1
    BY <2>1, <1>1, <1>8
  <2>3. i - 1 \in DOMAIN Tail(s)
    BY <2>1, <2>2, <1>3
  <2>4. \A j \in DOMAIN Tail(s) : Tail(s)[j] = f <=> i - 1 = j
    BY <2>1, <1>1, <1>2
  <2> QED  BY <2>3, <2>4 DEF ExactlyOnce
<1>9. ExactlyOnce(Head(s), s) => Head(s) \notin ToSet(Tail(s))
  BY <1>1, <1>2 DEF ExactlyOnce, ToSet
<1> QED  BY <1>1, <1>4, <1>5, <1>6, <1>7, <1>8, <1>9

LEMMA MoreAtTheEnd ==
    ASSUME NEW S, NEW s \in Seq(S), NEW t \in Seq(S), NEW g \in S
    PROVE  s \o Append(t, g) = Append(s \o t, g)
<1>1. s \o t \in Seq(S) /\ <<g>> \in Seq(S)
  OBVIOUS
<1>2. s \o (t \o <<g>>) = (s \o t) \o <<g>>
  BY <1>1, ConcatAssociative
<1>3. Append(t, g) = t \o <<g>> /\ Append(s \o t, g) = (s \o t) \o <<g>>
  BY <1>1, AppendIsConcat
<1> QED  BY <1>2, <1>3

-----------------------------------------------------------------------------
(* What is still to run. *)

LEMMA ToRunType ==
    ASSUME TypeOK
    PROVE  ToRun \in Seq(Queued)
BY DEF TypeOK, ToRun

LEMMA Push ==
    ASSUME TypeOK, NEW g \in Queued, queue' = Append(queue, g), UNCHANGED <<batch, at>>
    PROVE  ToRun' = Append(ToRun, g)
<1> DEFINE s == SubSeq(batch, at, Len(batch))
<1>1. s \in Seq(Queued) /\ queue \in Seq(Queued)
  BY DEF TypeOK
<1>2. ToRun = s \o queue /\ ToRun' = s \o Append(queue, g)
  BY DEF ToRun
<1> HIDE DEF s
<1> QED  BY <1>1, <1>2, MoreAtTheEnd

LEMMA Pop ==
    ASSUME TypeOK, NEW f, Running(f)
    PROVE  /\ ToRun # <<>> /\ Head(ToRun) = f
           /\ queue' = queue => ToRun' = Tail(ToRun)
           /\ \A g \in Queued : queue' = Append(queue, g) => ToRun' = Append(Tail(ToRun), g)
<1> DEFINE s == SubSeq(batch, at, Len(batch))
           r == SubSeq(batch, at + 1, Len(batch))
<1>1. s \in Seq(Queued) /\ r \in Seq(Queued) /\ queue \in Seq(Queued)
  BY DEF TypeOK
<1>2. s # <<>> /\ Head(s) = f /\ Tail(s) = r
  <2>1. batch \in Seq(Queued) /\ at \in 1 .. Len(batch) /\ batch[at] = f
    BY DEF TypeOK, Running
  <2>2. Len(batch) \in at .. Len(batch)
    BY <2>1
  <2>3. Head(s) = f /\ Tail(s) = r
    BY <2>1, <2>2, HeadTailOfSubSeq
  <2>4. Len(s) = Len(batch) - at + 1
    BY <2>1
  <2> QED  BY <2>1, <2>3, <2>4
<1>3. ToRun = s \o queue
  BY DEF ToRun
<1>4. batch' = batch /\ at' = at + 1
  BY DEF Running
<1>5. ToRun' = r \o queue'
  BY <1>4 DEF ToRun
<1> HIDE DEF s, r
<1>6. ToRun # <<>> /\ Head(ToRun) = f
  BY <1>1, <1>2, <1>3
<1>7. Tail(ToRun) = r \o queue
  <2>1. ASSUME NEW S, NEW u \in Seq(S), NEW v \in Seq(S), u # <<>>
        PROVE  Tail(u \o v) = Tail(u) \o v
    BY <2>1
  <2> QED  BY <1>1, <1>2, <1>3, <2>1
<1>8. ASSUME NEW g \in Queued, queue' = Append(queue, g) PROVE ToRun' = Append(Tail(ToRun), g)
  <2>1. r \o Append(queue, g) = Append(r \o queue, g)
    BY <1>1, MoreAtTheEnd
  <2> QED  BY <1>5, <1>7, <1>8, <2>1
<1> QED  BY <1>5, <1>6, <1>7, <1>8

-----------------------------------------------------------------------------
(* Bytes and what ::write takes of them. *)

LEMMA WrittenBounds ==
    ASSUME TypeOK, NEW s \in Seq(Messages)
    PROVE  /\ Written(s) \in Nat /\ Written(s) =< Len(s) /\ Written(s) =< room
           /\ SubSeq(s, 1, Written(s)) \in Seq(Messages)
           /\ Unwritten(s) \in Seq(Messages)
           /\ Unwritten(s) = <<>> <=> Written(s) = Len(s)
<1>1. Len(s) \in Nat /\ room \in Nat
  BY CapAssumption DEF TypeOK
<1>2. Written(s) \in {Len(s), room} /\ Written(s) =< Len(s) /\ Written(s) =< room
  BY <1>1 DEF Written, Min
<1>3. Written(s) \in Nat
  BY <1>1, <1>2
<1> HIDE DEF Written
<1>4. SubSeq(s, 1, Written(s)) \in Seq(Messages)
  BY <1>1, <1>2, <1>3
<1>5. Unwritten(s) \in Seq(Messages) /\ Len(Unwritten(s)) = Len(s) - Written(s)
  BY <1>1, <1>2, <1>3 DEF Unwritten
<1>6. Unwritten(s) = <<>> <=> Written(s) = Len(s)
  BY <1>1, <1>3, <1>5
<1> QED  BY <1>2, <1>3, <1>4, <1>5, <1>6

LEMMA BytesType ==
    ASSUME NEW m \in Messages
    PROVE  Bytes(m) \in Seq(Messages) /\ Bytes(m) # <<>>
<1>1. Size[m] \in Nat \ {0}
  BY SizeAssumption
<1>2. Bytes(m) \in Seq(Messages)
  BY <1>1 DEF Bytes
<1>3. 1 \in DOMAIN Bytes(m)
  BY <1>1 DEF Bytes
<1> QED  BY <1>2, <1>3

-----------------------------------------------------------------------------
\* What a step does to the functors f that are still to run.
Kept(f) == /\ f \in ToSet(ToRun') <=> f \in ToSet(ToRun)
           /\ ExactlyOnce(f, ToRun') <=> ExactlyOnce(f, ToRun)
Added(f) == f \notin ToSet(ToRun) => ExactlyOnce(f, ToRun')
Taken(f) == /\ f \in ToSet(ToRun)
            /\ ExactlyOnce(f, ToRun) => f \notin ToSet(ToRun')

LEMMA Pushed ==
    ASSUME TypeOK, NEW g \in Queued, queue' = Append(queue, g), UNCHANGED <<batch, at>>
    PROVE  Added(g) /\ \A f : f # g => Kept(f)
<1>1. ToRun \in Seq(Queued) /\ ToRun' = Append(ToRun, g)
  BY Push, ToRunType
<1> QED  BY <1>1, OneMore DEF Added, Kept

LEMMA Popped ==
    ASSUME TypeOK, NEW f, Running(f), queue' = queue
    PROVE  Taken(f) /\ \A g : g # f => Kept(g)
<1>1. ToRun \in Seq(Queued) /\ ToRun # <<>> /\ Head(ToRun) = f /\ ToRun' = Tail(ToRun)
  BY Pop, ToRunType
<1> QED  BY <1>1, OneLess DEF Taken, Kept

LEMMA PoppedPushed ==
    ASSUME TypeOK, NEW f, Running(f), NEW g \in Queued, f # g, queue' = Append(queue, g)
    PROVE  Added(g) /\ \A h : h # f /\ h # g => Kept(h)
<1>1. /\ ToRun # <<>> /\ Head(ToRun) = f /\ ToRun \in Seq(Queued)
      /\ ToRun' = Append(Tail(ToRun), g)
  BY Pop, ToRunType
<1>2. Tail(ToRun) \in Seq(Queued)
  BY <1>1, OneLess
<1>3. /\ \A h : h # f => (h \in ToSet(Tail(ToRun)) <=> h \in ToSet(ToRun))
      /\ \A h : h # f => (ExactlyOnce(h, Tail(ToRun)) <=> ExactlyOnce(h, ToRun))
  BY <1>1, OneLess
<1>4. /\ \A h : h \in ToSet(ToRun') <=> h \in ToSet(Tail(ToRun)) \/ h = g
      /\ \A h : h # g => (ExactlyOnce(h, ToRun') <=> ExactlyOnce(h, Tail(ToRun)))
      /\ g \notin ToSet(Tail(ToRun)) => ExactlyOnce(g, ToRun')
  BY <1>1, <1>2, OneMore
<1> QED  BY <1>3, <1>4 DEF Added, Kept

LEMMA MessageIsNoFunctor ==
    ASSUME NEW m \in Messages
    PROVE  /\ m \in Queued
           /\ m \notin {"established", "closed", "writeComplete", "shutdown", "shutting",
                        "idle", "gone"}
BY MessagesAssumption DEF Queued, Owning

LEMMA QueuedMore ==
    ASSUME TypeOK, NEW g \in Owning
    PROVE  g \in Queued /\ Append(queue, g) \in Seq(Queued)
<1>1. g \in Queued
  BY DEF Queued
<1>2. queue \in Seq(Queued)
  BY DEF TypeOK
<1> QED  BY <1>1, <1>2

LEMMA CloseType ==
    ASSUME TypeOK, NEW ev \in SUBSET {"in", "out"}, HandleClose(ev)
    PROVE  /\ events' \in SUBSET {"in", "out"} /\ polled' \in BOOLEAN
           /\ inMap' \in BOOLEAN /\ removals' \in Nat /\ queue' \in Seq(Queued)
<1>1. Append(queue, "closed") \in Seq(Queued)
  BY QueuedMore DEF Owning
<1>2. queue \in Seq(Queued) /\ removals \in Nat /\ inMap \in BOOLEAN
  BY DEF TypeOK
<1>3. queue' \in Seq(Queued)
  BY <1>1, <1>2 DEF HandleClose
<1>4. removals' = removals \/ removals' = removals + 1
  BY DEF HandleClose
<1>5. inMap' = inMap \/ inMap' = FALSE
  BY DEF HandleClose
<1>6. events' = ev /\ polled' = FALSE
  BY DEF HandleClose
<1>7. removals' \in Nat
  BY <1>2, <1>4
<1>8. inMap' \in BOOLEAN
  BY <1>2, <1>5
<1> QED  BY <1>3, <1>6, <1>7, <1>8

LEMMA RunningOne ==
    ASSUME ConnectionInv, NEW f, Running(f)
    PROVE  at' \in 1 .. Len(batch') + 1 /\ BatchMatches'
BY DEF ConnectionInv, TypeOK, BatchMatches, Running

-----------------------------------------------------------------------------
(* Each action keeps ConnectionInv.  QuietInv and Calm serve those that    *)
(* leave the connection as it is.                                          *)

LEMMA QuietInv ==
    ASSUME ConnectionInv, TypeOK', BatchMatches',
           UNCHANGED <<conn, inMap, removals, fin, tpc>>, Kept("closed"), Kept("established")
    PROVE  ConnectionInv'
<1>1. Watched'
  BY DEF ConnectionInv, Watched, Closing, IsWriting, conn
<1>2. FinLast'
  BY DEF ConnectionInv, FinLast, Closing, conn
<1>3. ClosedOnce' /\ EstablishedOnce'
  BY DEF ConnectionInv, ClosedOnce, EstablishedOnce, Kept, conn
<1>4. StateMatches'
  BY DEF ConnectionInv, StateMatches, conn
<1> QED  BY <1>1, <1>2, <1>3, <1>4 DEF ConnectionInv

LEMMA Calm ==
    ASSUME ConnectionInv, TypeOK', BatchMatches',
           UNCHANGED <<conn, inMap, removals, fin, tpc>>, ToRun' = ToRun
    PROVE  ConnectionInv'
BY QuietInv DEF Kept

LEMMA PollInv ==
    ASSUME ConnectionInv, Poll
    PROVE  ConnectionInv'
<1>1. Ready \in SUBSET {"err", "in", "out"}
  BY DEF Ready
<1>2. TypeOK'
  BY <1>1 DEF ConnectionInv, TypeOK, Poll, conn, server, socket, calls
<1>3. BatchMatches' /\ ToRun' = ToRun
  BY DEF ConnectionInv, BatchMatches, Poll, ToRun
<1> QED  BY <1>2, <1>3, Calm DEF Poll, conn, server, socket, calls

LEMMA HandleErrorInv ==
    ASSUME ConnectionInv, HandleError
    PROVE  ConnectionInv'
<1>1. TypeOK'
  BY DEF ConnectionInv, TypeOK, HandleError, conn, server, calls
<1>2. BatchMatches' /\ ToRun' = ToRun
  BY DEF ConnectionInv, BatchMatches, HandleError, ToRun
<1> QED  BY <1>1, <1>2, Calm DEF HandleError, conn, server, calls

LEMMA ReadMessageInv ==
    ASSUME ConnectionInv, ReadMessage
    PROVE  ConnectionInv'
<1> USE DEF ReadMessage, Reading
<1>1. TypeOK'
  <2>1. revents' \in SUBSET {"err", "in", "out"} /\ mid' \in BOOLEAN /\ incoming' \in BOOLEAN
    BY DEF ConnectionInv, TypeOK
  <2> QED  BY <2>1 DEF ConnectionInv, TypeOK, conn, server, calls
<1>2. BatchMatches' /\ ToRun' = ToRun
  BY DEF ConnectionInv, BatchMatches, ReadMessage, Reading, ToRun
<1> QED  BY <1>1, <1>2, Calm DEF ReadMessage, Reading, conn, server, calls

LEMMA ReadErrorInv ==
    ASSUME ConnectionInv, ReadError
    PROVE  ConnectionInv'
<1>1. TypeOK'
  BY DEF ConnectionInv, TypeOK, ReadError, Reading, conn, server, calls
<1>2. BatchMatches' /\ ToRun' = ToRun
  BY DEF ConnectionInv, BatchMatches, ReadError, Reading, ToRun
<1> QED  BY <1>1, <1>2, Calm DEF ReadError, Reading, conn, server, calls

\* Swapping the queue out, and ending the batch, leave what is to run as it is.
LEMMA SwapKeepsToRun ==
    ASSUME ConnectionInv, BeginFunctors \/ EndFunctors
    PROVE  ToRun' = ToRun
<1>1. CASE BeginFunctors
  <2>1. batch = <<>> /\ at = 1 /\ at' = 1 /\ batch' = queue /\ queue' = <<>>
    BY <1>1 DEF ConnectionInv, BatchMatches, BeginFunctors
  <2>2. queue \in Seq(Queued)
    BY DEF ConnectionInv, TypeOK
  <2>3. ToRun = <<>> \o queue /\ ToRun' = queue \o <<>>
    BY <2>1, <2>2, SubSeqFull DEF ToRun
  <2> QED  BY <2>2, <2>3
<1>2. CASE EndFunctors
  <2>1. batch \in Seq(Queued) /\ at \in Nat /\ at > Len(batch) /\ batch' = <<>> /\ at' = 1
        /\ queue' = queue
    BY <1>2 DEF ConnectionInv, TypeOK, EndFunctors
  <2>2. SubSeq(batch, at, Len(batch)) = <<>> /\ SubSeq(batch', at', Len(batch')) = <<>>
    BY <2>1, SubSeqEmpty
  <2> QED  BY <2>1, <2>2 DEF ToRun
<1> QED  BY <1>1, <1>2

LEMMA BeginFunctorsInv ==
    ASSUME ConnectionInv, BeginFunctors
    PROVE  ConnectionInv'
<1>1. TypeOK'
  BY DEF ConnectionInv, TypeOK, BatchMatches, BeginFunctors, conn, server, socket, calls
<1>2. BatchMatches'
  BY DEF BatchMatches, BeginFunctors
<1> QED  BY <1>1, <1>2, SwapKeepsToRun, Calm DEF BeginFunctors, conn, server, socket, calls

LEMMA EndFunctorsInv ==
    ASSUME ConnectionInv, EndFunctors
    PROVE  ConnectionInv'
<1>1. TypeOK'
  BY DEF ConnectionInv, TypeOK, EndFunctors, conn, server, socket, calls
<1>2. BatchMatches'
  BY DEF BatchMatches, EndFunctors
<1> QED  BY <1>1, <1>2, SwapKeepsToRun, Calm DEF EndFunctors, conn, server, socket, calls

LEMMA PeerInv ==
    ASSUME ConnectionInv,
           PeerSends \/ PeerReads \/ PeerResets
           \/ \E how \in {"half", "closed"} : PeerCloses(how)
    PROVE  ConnectionInv'
<1> USE DEF PeerSends, PeerReads, PeerResets, PeerCloses
<1>1. /\ room' \in 0 .. Cap /\ incoming' \in BOOLEAN /\ peer' \in {"open", "half", "closed"}
      /\ reset' \in BOOLEAN /\ sockErr' \in {"none", "EPIPE", "ECONNRESET"}
  <2>1. /\ room \in 0 .. Cap /\ incoming \in BOOLEAN /\ peer \in {"open", "half", "closed"}
        /\ reset \in BOOLEAN /\ sockErr \in {"none", "EPIPE", "ECONNRESET"}
    BY DEF ConnectionInv, TypeOK
  <2>2. CASE PeerSends
    BY <2>1, <2>2
  <2>3. CASE PeerReads
    BY <2>1, <2>3, CapAssumption
  <2>4. CASE PeerResets
    BY <2>1, <2>4
  <2>5. CASE \E how \in {"half", "closed"} : PeerCloses(how)
    BY <2>1, <2>5
  <2> QED  BY <2>2, <2>3, <2>4, <2>5
<1>2. UNCHANGED <<conn, server, loop, queue, wire, fin, calls, accepted, crash>>
  OBVIOUS
<1> USE DEF conn, server, loop, calls
<1>3. TypeOK'
  BY <1>1, <1>2 DEF ConnectionInv, TypeOK
<1>4. BatchMatches' /\ ToRun' = ToRun
  BY <1>2 DEF ConnectionInv, BatchMatches, ToRun
<1> QED  BY <1>2, <1>3, <1>4, Calm

\* handleClose, called by handleRead and by sendInLoop.
LEMMA CloseInv ==
    ASSUME ConnectionInv, TypeOK', BatchMatches', CanClose, NEW ev, HandleClose(ev),
           UNCHANGED <<state, registered, tpc>>, Kept("established"),
           IF sameLoop THEN Added("closed") ELSE Kept("closed")
    PROVE  ConnectionInv'
<1> USE DEF CanClose, HandleClose
<1>1. Closing' /\ state # "CONNECTING"
  BY DEF ConnectionInv, TypeOK, Closing
<1>2. Watched' /\ FinLast'
  BY <1>1 DEF Watched, FinLast
<1>3. ClosedOnce'
  BY DEF ConnectionInv, ClosedOnce, Added, Kept
<1>4. EstablishedOnce'
  BY <1>1 DEF ConnectionInv, EstablishedOnce, Kept
<1>5. StateMatches'
  BY <1>1 DEF ConnectionInv, StateMatches
<1> QED  BY <1>2, <1>3, <1>4, <1>5 DEF ConnectionInv

LEMMA ReadCloseInv ==
    ASSUME ConnectionInv, ReadClose
    PROVE  ConnectionInv'
<1> USE DEF ReadClose, Reading, Crash
<1>1. /\ mid' \in BOOLEAN /\ revents' \in SUBSET {"err", "in", "out"}
      /\ UNCHANGED <<pc, batch, at, calls, accepted, state, registered, outbuf, socket, sameLoop>>
      /\ crash' \in {crash, "assert"}
  BY DEF ConnectionInv, TypeOK, HandleClose, conn, server
<1>2. CASE CanClose
  <2>1. HandleClose({})
    BY <1>2
  <2>2. /\ events' \in SUBSET {"in", "out"} /\ polled' \in BOOLEAN
        /\ inMap' \in BOOLEAN /\ removals' \in Nat /\ queue' \in Seq(Queued)
    BY <2>1, CloseType DEF ConnectionInv
  <2>3. TypeOK'
    BY <1>1, <2>2 DEF ConnectionInv, TypeOK, calls, socket
  <2>4. BatchMatches'
    BY <1>1 DEF ConnectionInv, BatchMatches
  <2>5. CASE sameLoop
    <3>1. Added("closed") /\ Kept("established")
      BY <1>1, <2>1, <2>5, Pushed DEF HandleClose, ConnectionInv, Queued, Owning
    <3> QED  BY <1>1, <1>2, <2>1, <2>3, <2>4, <2>5, <3>1, CloseInv DEF calls
  <2>6. CASE ~sameLoop
    <3>1. ToRun' = ToRun
      BY <1>1, <2>1, <2>6 DEF HandleClose, ToRun
    <3> QED  BY <1>1, <1>2, <2>1, <2>3, <2>4, <2>6, <3>1, CloseInv DEF calls, Kept
  <2> QED  BY <2>5, <2>6
<1>3. CASE ~CanClose
  <2>1. UNCHANGED <<conn, server, queue, socket, accepted>>
    BY <1>3
  <2>2. TypeOK'
    BY <1>1, <2>1 DEF ConnectionInv, TypeOK, calls, socket, conn, server
  <2>3. BatchMatches' /\ ToRun' = ToRun
    BY <1>1, <2>1 DEF ConnectionInv, BatchMatches, ToRun
  <2> QED  BY <1>1, <2>1, <2>2, <2>3, Calm DEF server, socket, calls
<1> QED  BY <1>2, <1>3

LEMMA RemovalInv ==
    ASSUME ConnectionInv, RemoveConnectionInLoop
    PROVE  ConnectionInv'
<1> USE DEF RemoveConnectionInLoop, Crash
<1>1. CASE inMap
  <2>1. /\ removals' \in Nat /\ queue' = Append(queue, "closed") /\ inMap' = FALSE
        /\ UNCHANGED <<sameLoop, conn, socket, accepted, crash, loop, calls>>
    BY <1>1 DEF ConnectionInv, TypeOK
  <2>2. TypeOK'
    <3>1. Append(queue, "closed") \in Seq(Queued)
      BY QueuedMore DEF ConnectionInv, Owning
    <3>2. queue' \in Seq(Queued)
      BY <2>1, <3>1
    <3>3. /\ removals' \in Nat /\ inMap' \in BOOLEAN
          /\ UNCHANGED <<conn, socket, accepted, crash, loop, calls>>
      BY <2>1
    <3> QED  BY <3>2, <3>3 DEF ConnectionInv, TypeOK, conn, socket, loop, calls
  <2>3. state # "CONNECTING" /\ registered
    BY <1>1 DEF ConnectionInv, TypeOK, StateMatches
  <2>4. Added("closed") /\ Kept("established")
    BY <2>1, Pushed DEF ConnectionInv, Queued, Owning, loop
  <2>5. Closing'
    BY <2>1, <2>3 DEF Closing, conn
  <2>6. Watched' /\ FinLast'
    BY <2>5 DEF Watched, FinLast
  <2>7. ClosedOnce'
    BY <1>1, <2>1, <2>3, <2>4 DEF ConnectionInv, ClosedOnce, Added, conn
  <2>8. EstablishedOnce' /\ StateMatches' /\ BatchMatches'
    BY <2>1, <2>3, <2>4 DEF ConnectionInv, EstablishedOnce, StateMatches, BatchMatches, Kept,
       conn, loop, calls
  <2> QED  BY <2>2, <2>6, <2>7, <2>8 DEF ConnectionInv
<1>2. CASE ~inMap
  <2>1. /\ UNCHANGED <<conn, server, queue, socket, accepted, loop, calls>>
        /\ crash' = "removal"
    BY <1>2
  <2>2. TypeOK'
    BY <2>1 DEF ConnectionInv, TypeOK, conn, server, socket, loop, calls
  <2>3. BatchMatches' /\ ToRun' = ToRun
    BY <2>1 DEF ConnectionInv, BatchMatches, ToRun, loop
  <2> QED  BY <2>1, <2>2, <2>3, Calm DEF server, socket, calls
<1> QED  BY <1>1, <1>2

LEMMA SendType ==
    ASSUME ConnectionInv, NEW m \in Messages, SendInLoop(m),
           UNCHANGED <<pc, mid, revents, batch, tpc>>, at' \in 1 .. Len(batch) + 1,
           asked' \in SUBSET Messages
    PROVE  TypeOK'
<1>1. TypeOK
  BY DEF ConnectionInv
<1>2. Bytes(m) \in Seq(Messages)
  BY BytesType
<1>3. /\ Written(Bytes(m)) \in Nat /\ Written(Bytes(m)) =< room
      /\ SubSeq(Bytes(m), 1, Written(Bytes(m))) \in Seq(Messages)
      /\ Unwritten(Bytes(m)) \in Seq(Messages)
  BY <1>1, <1>2, WrittenBounds
<1>4. CASE SendNothing
  BY <1>1, <1>4 DEF SendNothing, TypeOK, conn, server, socket
<1>5. CASE SendWrites(m)
  <2>1. /\ wire' \in Seq(Messages) /\ outbuf' \in Seq(Messages) /\ accepted' \in Seq(Messages)
        /\ room' \in 0 .. Cap
    <3>1. /\ wire \in Seq(Messages) /\ outbuf \in Seq(Messages) /\ accepted \in Seq(Messages)
          /\ room \in 0 .. Cap /\ Cap \in Nat
      BY <1>1, CapAssumption DEF TypeOK
    <3>2. /\ wire' = wire \o SubSeq(Bytes(m), 1, Written(Bytes(m)))
          /\ outbuf' = outbuf \o Unwritten(Bytes(m))
          /\ accepted' = accepted \o Bytes(m)
          /\ room' = room - Written(Bytes(m))
      BY <1>5 DEF SendWrites
    <3>3. room' \in 0 .. Cap
      BY <1>3, <3>1, <3>2
    <3>4. wire' \in Seq(Messages) /\ outbuf' \in Seq(Messages)
      BY <1>3, <3>1, <3>2
    <3>5. accepted' \in Seq(Messages)
      BY <1>2, <3>1, <3>2
    <3> QED  BY <3>3, <3>4, <3>5
  <2>2. events' \in SUBSET {"in", "out"} /\ polled' \in BOOLEAN
    BY <1>1, <1>5 DEF SendWrites, Update, TypeOK
  <2>3. UNCHANGED <<state, registered, server, queue, incoming, peer, reset, sockErr, fin, crash>>
    BY <1>5 DEF SendWrites
  <2> QED  BY <1>1, <2>1, <2>2, <2>3 DEF TypeOK, server
<1>6. CASE SendClosed(m)
  <2>1. /\ events' \in SUBSET {"in", "out"} /\ polled' \in BOOLEAN /\ outbuf' \in Seq(Messages)
        /\ inMap' \in BOOLEAN /\ removals' \in Nat /\ queue' \in Seq(Queued)
        /\ accepted' \in Seq(Messages)
    <3>1. HandleClose({"out"}) /\ outbuf' = Bytes(m) /\ accepted' = accepted \o Bytes(m)
      BY <1>6 DEF SendClosed
    <3>2. accepted \in Seq(Messages)
      BY <1>1 DEF TypeOK
    <3> QED  BY <1>1, <1>2, <3>1, <3>2, CloseType
  <2> QED  BY <1>1, <1>6, <2>1 DEF SendClosed, HandleClose, TypeOK
<1>7. CASE SendCrashes(m)
  <2>1. /\ crash' \in {"abort", "assert"}
        /\ UNCHANGED <<conn, server, queue, socket, accepted>>
    BY <1>7 DEF SendCrashes, Crash
  <2> QED  BY <1>1, <2>1 DEF TypeOK, conn, server, socket
<1> QED  BY <1>4, <1>5, <1>6, <1>7 DEF SendInLoop

\* sendInLoop, called by send in the loop and by the functor of another thread.
LEMMA SendInv ==
    ASSUME ConnectionInv, TypeOK', BatchMatches', NEW m \in Messages, SendInLoop(m),
           tpc' = tpc, Kept("established"),
           queue' = queue => Kept("closed"),
           queue' = Append(queue, "closed") => Added("closed")
    PROVE  ConnectionInv'
<1>1. CASE SendClosed(m)
  <2>1. IF sameLoop THEN Added("closed") ELSE Kept("closed")
    BY <1>1 DEF SendClosed, HandleClose
  <2> QED  BY <1>1, <2>1, CloseInv DEF SendClosed
<1>2. CASE SendNothing \/ SendWrites(m) \/ SendCrashes(m)
  <2>1. /\ UNCHANGED <<state, registered, inMap, removals, queue, fin>>
    BY <1>2 DEF SendNothing, SendWrites, SendCrashes, Crash, conn, server, socket
  <2>2. Watched' /\ FinLast'
    <3>1. CASE UNCHANGED <<events, polled, outbuf>>
      BY <2>1, <3>1 DEF ConnectionInv, Watched, FinLast, Closing, IsWriting
    <3>2. CASE SendWrites(m)
      <4>1. outbuf = <<>> /\ ~IsWriting /\ ~fin
        BY <3>2 DEF SendWrites, CanWrite, WriteFails
      <4>2. outbuf' = Unwritten(Bytes(m))
        <5>1. Unwritten(Bytes(m)) \in Seq(Messages)
          BY WrittenBounds, BytesType DEF ConnectionInv
        <5> QED  BY <3>2, <4>1, <5>1 DEF SendWrites
      <4>3. CASE Unwritten(Bytes(m)) = <<>>
        BY <2>1, <3>2, <4>1, <4>2, <4>3
           DEF SendWrites, ConnectionInv, Watched, FinLast, Closing, IsWriting
      <4>4. CASE Unwritten(Bytes(m)) # <<>>
        BY <2>1, <3>2, <4>1, <4>2, <4>4
           DEF SendWrites, Update, ConnectionInv, TypeOK, Watched, FinLast, Closing, IsWriting
      <4> QED  BY <4>3, <4>4
    <3> QED  BY <1>2, <3>1, <3>2 DEF SendNothing, SendCrashes, Crash, conn
  <2>3. ClosedOnce' /\ EstablishedOnce' /\ StateMatches'
    BY <2>1 DEF ConnectionInv, ClosedOnce, EstablishedOnce, StateMatches, Kept
  <2> QED  BY <2>2, <2>3 DEF ConnectionInv
<1> QED  BY <1>1, <1>2 DEF SendInLoop

LEMMA LoopSendInv ==
    ASSUME ConnectionInv, NEW m \in Messages, LoopSend(m)
    PROVE  ConnectionInv'
<1>1. SendInLoop(m) /\ UNCHANGED <<pc, mid, revents, batch, at, tpc>>
  BY DEF LoopSend, loop
<1>2. at' \in 1 .. Len(batch) + 1 /\ asked' \in SUBSET Messages /\ BatchMatches'
  BY <1>1 DEF ConnectionInv, TypeOK, BatchMatches, LoopSend
<1>3. TypeOK'
  BY <1>1, <1>2, SendType
<1>4. CASE queue' = queue
  <2>1. ToRun' = ToRun
    BY <1>1, <1>4 DEF ToRun
  <2>2. queue' # Append(queue, "closed")
    BY <1>4 DEF ConnectionInv, TypeOK
  <2>3. Kept("closed") /\ Kept("established")
    BY <2>1 DEF Kept
  <2> QED  BY <1>1, <1>2, <1>3, <2>2, <2>3, SendInv
<1>5. CASE queue' = Append(queue, "closed")
  <2>1. Added("closed") /\ Kept("established")
    BY <1>1, <1>5, Pushed DEF ConnectionInv, Queued, Owning
  <2>2. queue' # queue
    BY <1>5 DEF ConnectionInv, TypeOK
  <2> QED  BY <1>1, <1>2, <1>3, <2>1, <2>2, SendInv
<1>6. queue' \in {queue, Append(queue, "closed")}
  BY <1>1 DEF SendInLoop, SendNothing, SendWrites, SendClosed, HandleClose, SendCrashes, Crash
<1> QED  BY <1>4, <1>5, <1>6

LEMMA RunSendInv ==
    ASSUME ConnectionInv, RunSend
    PROVE  ConnectionInv'
<1>1. PICK m \in Messages : Running(m) /\ IF Alive THEN SendInLoop(m) ELSE Crash("freed")
  BY DEF RunSend
<1>2. at' \in 1 .. Len(batch') + 1 /\ BatchMatches'
  BY <1>1, RunningOne
<1>3. UNCHANGED <<pc, mid, revents, batch, tpc, asked>>
  BY <1>1 DEF Running, calls
<1>4. m # "closed" /\ m # "established" /\ TypeOK
  BY MessageIsNoFunctor DEF ConnectionInv
<1>5. queue' = queue => Kept("closed") /\ Kept("established")
  BY <1>1, <1>4, Popped
<1>6. queue' = Append(queue, "closed") => Added("closed") /\ Kept("established")
  BY <1>1, <1>4, PoppedPushed DEF Queued, Owning
<1>7. CASE Alive
  <2>1. SendInLoop(m)
    BY <1>1, <1>7
  <2>2. queue' \in {queue, Append(queue, "closed")}
    BY <2>1 DEF SendInLoop, SendNothing, SendWrites, SendClosed, HandleClose, SendCrashes, Crash
  <2>3. asked' \in SUBSET Messages
    BY <1>3, <1>4 DEF TypeOK
  <2>4. TypeOK'
    BY <1>2, <1>3, <2>1, <2>3, SendType
  <2> QED  BY <1>2, <1>3, <1>5, <1>6, <2>1, <2>2, <2>4, SendInv
<1>8. CASE ~Alive
  <2>1. crash' = "freed" /\ UNCHANGED <<conn, server, queue, socket, accepted>>
    BY <1>1, <1>8 DEF Crash
  <2>2. TypeOK'
    BY <1>2, <1>3, <1>4, <2>1 DEF TypeOK, conn, server, socket
  <2>3. Kept("closed") /\ Kept("established")
    BY <1>5, <2>1
  <2> QED  BY <1>2, <1>3, <2>1, <2>2, <2>3, QuietInv DEF conn, server, socket
<1> QED  BY <1>7, <1>8

LEMMA ShutdownType ==
    ASSUME ConnectionInv, ShutdownInLoop
    PROVE  /\ fin' \in BOOLEAN /\ crash' \in {"none", "assert", "removal", "abort", "freed"}
           /\ fin' => outbuf = <<>> \/ Closing
<1>1. fin' \in BOOLEAN /\ crash' \in {"none", "assert", "removal", "abort", "freed"}
  BY DEF ConnectionInv, TypeOK, ShutdownInLoop
<1>2. fin' => fin \/ ~IsWriting
  BY DEF ShutdownInLoop
<1>3. ~IsWriting => outbuf = <<>> \/ Closing
  BY DEF ConnectionInv, Watched
<1> QED  BY <1>1, <1>2, <1>3 DEF ConnectionInv, FinLast

LEMMA LoopShutdownInv ==
    ASSUME ConnectionInv, LoopShutdown
    PROVE  ConnectionInv'
<1>1. /\ state = "CONNECTED" /\ state' = "DISCONNECTING"
      /\ UNCHANGED <<events, registered, polled, outbuf, server, loop, queue, wire, room,
                     incoming, peer, reset, sockErr, calls, accepted>>
      /\ ShutdownInLoop
  BY DEF LoopShutdown, CanSend
<1>2. /\ fin' \in BOOLEAN /\ crash' \in {"none", "assert", "removal", "abort", "freed"}
      /\ fin' => outbuf = <<>> \/ Closing
  BY <1>1, ShutdownType
<1>3. TypeOK'
  BY <1>1, <1>2 DEF ConnectionInv, TypeOK, server, loop, calls
<1>4. ToRun' = ToRun /\ BatchMatches'
  BY <1>1 DEF ConnectionInv, BatchMatches, ToRun, loop
<1>5. Closing' = Closing
  BY <1>1 DEF Closing, server
<1>6. Watched' /\ FinLast'
  BY <1>1, <1>2, <1>5 DEF ConnectionInv, Watched, FinLast, IsWriting
<1>7. ClosedOnce' /\ EstablishedOnce' /\ StateMatches'
  BY <1>1, <1>4 DEF ConnectionInv, ClosedOnce, EstablishedOnce, StateMatches, server, calls
<1> QED  BY <1>3, <1>4, <1>6, <1>7 DEF ConnectionInv

LEMMA RunShutdownInv ==
    ASSUME ConnectionInv, RunShutdown
    PROVE  ConnectionInv'
<1>1. /\ Running("shutdown")
      /\ UNCHANGED <<pc, mid, revents, batch, calls, conn, server, queue, wire, room, incoming,
                     peer, reset, sockErr, accepted>>
  BY DEF RunShutdown, Running, Crash, socket
<1>2. at' \in 1 .. Len(batch') + 1 /\ BatchMatches'
  BY <1>1, RunningOne
<1>3. Kept("closed") /\ Kept("established")
  BY <1>1, Popped DEF ConnectionInv
<1>4. /\ fin' \in BOOLEAN /\ crash' \in {"none", "assert", "removal", "abort", "freed"}
      /\ fin' => outbuf = <<>> \/ Closing
  <2>1. CASE Alive
    BY <2>1, ShutdownType DEF RunShutdown
  <2>2. CASE ~Alive
    <3>1. fin' = fin /\ crash' = "freed"
      BY <2>2 DEF RunShutdown, Crash, socket
    <3> QED  BY <3>1 DEF ConnectionInv, TypeOK, FinLast
  <2> QED  BY <2>1, <2>2
<1>5. TypeOK'
  BY <1>1, <1>2, <1>4 DEF ConnectionInv, TypeOK, conn, server, calls
<1>6. Watched' /\ FinLast'
  BY <1>1, <1>4 DEF ConnectionInv, Watched, FinLast, Closing, IsWriting, conn, server
<1>7. ClosedOnce' /\ EstablishedOnce' /\ StateMatches'
  BY <1>1, <1>3 DEF ConnectionInv, ClosedOnce, EstablishedOnce, StateMatches, Kept, conn,
     server, calls
<1> QED  BY <1>2, <1>5, <1>6, <1>7 DEF ConnectionInv

LEMMA ThreadChecksInv ==
    ASSUME ConnectionInv, NEW t \in Threads, NEW call \in Messages \cup {"shutdown"},
           ThreadChecks(t, call)
    PROVE  ConnectionInv'
<1>1. /\ state = "CONNECTED" /\ asked' \in SUBSET Messages
      /\ tpc' = [tpc EXCEPT ![t] = call]
      /\ UNCHANGED <<conn, server, loop, queue, socket, accepted, crash>>
  BY DEF ThreadChecks, CanSend, ConnectionInv, TypeOK
<1>2. tpc' \in [Threads -> {"idle", "shutdown", "shutting", "gone"} \cup Messages]
  BY <1>1 DEF ConnectionInv, TypeOK
<1>3. TypeOK'
  BY <1>1, <1>2 DEF ConnectionInv, TypeOK, conn, server, loop, socket
<1>4. ToRun' = ToRun
  BY <1>1 DEF ToRun, loop
<1> QED  BY <1>1, <1>3, <1>4 DEF ConnectionInv, Watched, FinLast, ClosedOnce, EstablishedOnce,
     StateMatches, BatchMatches, Closing, IsWriting, conn, server, loop, socket

LEMMA ThreadSetsStateInv ==
    ASSUME ConnectionInv, NEW t \in Threads, ThreadSetsState(t)
    PROVE  ConnectionInv'
<1>1. /\ tpc[t] = "shutdown" /\ state' = "DISCONNECTING"
      /\ tpc' = [tpc EXCEPT ![t] = "shutting"]
      /\ UNCHANGED <<events, registered, polled, outbuf, server, loop, queue, socket,
                     asked, accepted, crash>>
  BY DEF ThreadSetsState
<1>2. tpc' \in [Threads -> {"idle", "shutdown", "shutting", "gone"} \cup Messages]
  BY <1>1 DEF ConnectionInv, TypeOK
<1>3. TypeOK'
  BY <1>1, <1>2 DEF ConnectionInv, TypeOK, server, loop, socket
<1>4. ToRun' = ToRun
  BY <1>1 DEF ToRun, loop
<1>5. state # "CONNECTING"
  BY <1>1 DEF ConnectionInv, StateMatches
<1>6. Closing' = Closing
  BY <1>1, <1>5 DEF Closing, server
<1>7. StateMatches'
  BY <1>1, <1>5 DEF ConnectionInv, StateMatches, server
<1> QED  BY <1>1, <1>3, <1>4, <1>5, <1>6, <1>7 DEF ConnectionInv, Watched, FinLast, ClosedOnce,
     EstablishedOnce, BatchMatches, IsWriting, server, loop, socket

LEMMA ThreadEnqueuesInv ==
    ASSUME ConnectionInv, NEW t \in Threads, ThreadEnqueues(t)
    PROVE  ConnectionInv'
<1> DEFINE g == IF tpc[t] = "shutting" THEN "shutdown" ELSE tpc[t]
<1>1. /\ tpc[t] \in Messages \cup {"shutting"}
      /\ queue' = Append(queue, g)
      /\ tpc' = [tpc EXCEPT ![t] = "idle"]
      /\ UNCHANGED <<conn, server, loop, socket, asked, accepted, crash>>
  BY DEF ThreadEnqueues
<1>2. g \in Queued /\ g # "closed" /\ g # "established"
  BY <1>1, MessageIsNoFunctor DEF Queued
<1>3. tpc' \in [Threads -> {"idle", "shutdown", "shutting", "gone"} \cup Messages]
  BY <1>1 DEF ConnectionInv, TypeOK
<1> HIDE DEF g
<1>4. queue' \in Seq(Queued)
  BY <1>1, <1>2 DEF ConnectionInv, TypeOK
<1>5. TypeOK'
  <2>1. UNCHANGED <<conn, server, loop, socket, asked, accepted, crash>>
    BY <1>1
  <2> QED  BY <1>3, <1>4, <2>1 DEF ConnectionInv, TypeOK, conn, server, loop, socket
<1>6. Kept("closed") /\ Kept("established")
  BY <1>1, <1>2, Pushed DEF ConnectionInv, loop
<1>7. StateMatches' /\ BatchMatches'
  BY <1>1 DEF ConnectionInv, TypeOK, StateMatches, BatchMatches, conn, server, loop
<1> QED  BY <1>1, <1>5, <1>6, <1>7 DEF ConnectionInv, Watched, FinLast, ClosedOnce,
     EstablishedOnce, Closing, IsWriting, Kept, conn, server, socket

LEMMA ThreadReleasesInv ==
    ASSUME ConnectionInv, NEW t \in Threads, ThreadReleases(t)
    PROVE  ConnectionInv'
<1>1. /\ state # "CONNECTING"
      /\ tpc' = [tpc EXCEPT ![t] = "gone"]
      /\ UNCHANGED <<conn, server, loop, queue, socket, asked, accepted, crash>>
  BY DEF ThreadReleases
<1>2. tpc' \in [Threads -> {"idle", "shutdown", "shutting", "gone"} \cup Messages]
  BY <1>1 DEF ConnectionInv, TypeOK
<1>3. TypeOK'
  BY <1>1, <1>2 DEF ConnectionInv, TypeOK, conn, server, loop, socket
<1>4. ToRun' = ToRun
  BY <1>1 DEF ToRun, loop
<1> QED  BY <1>1, <1>3, <1>4 DEF ConnectionInv, Watched, FinLast, ClosedOnce, EstablishedOnce,
     StateMatches, BatchMatches, Closing, IsWriting, conn, server, loop, socket

LEMMA HandleWriteInv ==
    ASSUME ConnectionInv, HandleWrite
    PROVE  ConnectionInv'
<1>1. /\ revents' \in SUBSET {"err", "in", "out"} /\ mid' \in BOOLEAN
      /\ UNCHANGED <<state, registered, server, pc, batch, at, incoming, peer, reset, calls,
                     accepted, crash>>
  BY DEF HandleWrite
<1>2. BatchMatches'
  BY <1>1 DEF ConnectionInv, BatchMatches
<1>3. CASE ~(IsWriting /\ ~WriteFails /\ Written(outbuf) > 0)
  <2>1. /\ sockErr' \in {"none", sockErr}
        /\ UNCHANGED <<wire, room, outbuf, events, polled, queue, fin>>
    BY <1>3 DEF HandleWrite
  <2>2. TypeOK'
    BY <1>1, <2>1 DEF ConnectionInv, TypeOK, server, calls
  <2>3. ToRun' = ToRun
    BY <1>1, <2>1 DEF ToRun
  <2> QED  BY <1>1, <1>2, <2>1, <2>2, <2>3, Calm DEF conn, server, calls
<1>4. CASE IsWriting /\ ~WriteFails /\ Written(outbuf) > 0
  <2>1. /\ Written(outbuf) \in Nat /\ Written(outbuf) =< room /\ Written(outbuf) =< Len(outbuf)
        /\ SubSeq(outbuf, 1, Written(outbuf)) \in Seq(Messages)
        /\ Unwritten(outbuf) \in Seq(Messages)
    BY WrittenBounds DEF ConnectionInv, TypeOK
  <2>2. /\ wire' = wire \o SubSeq(outbuf, 1, Written(outbuf))
        /\ room' = room - Written(outbuf)
        /\ outbuf' = Unwritten(outbuf)
        /\ sockErr' = sockErr
    BY <1>4 DEF HandleWrite
  <2>3. wire' \in Seq(Messages) /\ room' \in 0 .. Cap /\ outbuf' \in Seq(Messages)
    <3>1. wire \in Seq(Messages) /\ room \in 0 .. Cap /\ Cap \in Nat
      BY CapAssumption DEF ConnectionInv, TypeOK
    <3> QED  BY <2>1, <2>2, <3>1
  <2>4. ~fin /\ (registered \/ Closing)
    <3>1. outbuf # <<>>
      BY <1>4, <2>1
    <3> QED  BY <1>4, <3>1 DEF WriteFails, ConnectionInv, Watched
  <2>5. Closing' = Closing
    BY <1>1 DEF Closing, server
  <2>6. CASE outbuf' = <<>>
    <3>1. /\ events' = events \ {"out"} /\ polled' = (polled /\ events' # {})
          /\ queue' = Append(queue, "writeComplete")
          /\ fin' = (fin \/ EndsShutdown)
      BY <1>4, <2>6 DEF HandleWrite, Update, DisableWriting
    <3>2. /\ events' \in SUBSET {"in", "out"} /\ polled' \in BOOLEAN /\ fin' \in BOOLEAN
      BY <3>1 DEF ConnectionInv, TypeOK, EndsShutdown
    <3>3. queue' \in Seq(Queued)
      BY <3>1, QueuedMore DEF ConnectionInv, Owning
    <3>4. TypeOK'
      BY <1>1, <2>2, <2>3, <3>2, <3>3 DEF ConnectionInv, TypeOK, server, calls
    <3>5. Kept("closed") /\ Kept("established")
      BY <1>1, <3>1, QueuedMore, Pushed DEF ConnectionInv, Owning
    <3>6. Watched' /\ FinLast'
      <4>1. IsWriting' = FALSE /\ ("in" \in events => "in" \in events' /\ polled' = polled)
        BY <3>1 DEF IsWriting, ConnectionInv, TypeOK
      <4>2. FinLast'
        BY <2>6 DEF FinLast
      <4>3. Watched'
        BY <1>1, <2>5, <2>6, <4>1 DEF ConnectionInv, Watched
      <4> QED  BY <4>2, <4>3
    <3>7. ClosedOnce' /\ EstablishedOnce' /\ StateMatches'
      BY <1>1, <3>5 DEF ConnectionInv, ClosedOnce, EstablishedOnce, StateMatches, Kept, server,
         calls
    <3> QED  BY <1>2, <3>4, <3>6, <3>7 DEF ConnectionInv
  <2>7. CASE outbuf' # <<>>
    <3>1. UNCHANGED <<events, polled, queue, fin>>
      BY <1>4, <2>7 DEF HandleWrite
    <3>2. TypeOK'
      BY <1>1, <2>2, <2>3, <3>1 DEF ConnectionInv, TypeOK, server, calls
    <3>3. ToRun' = ToRun
      BY <1>1, <3>1 DEF ToRun
    <3>4. Watched' /\ FinLast'
      BY <1>1, <1>4, <2>4, <2>5, <2>7, <3>1 DEF ConnectionInv, Watched, FinLast, IsWriting
    <3>5. ClosedOnce' /\ EstablishedOnce' /\ StateMatches'
      BY <1>1, <3>3 DEF ConnectionInv, ClosedOnce, EstablishedOnce, StateMatches, server, calls
    <3> QED  BY <1>2, <3>2, <3>4, <3>5 DEF ConnectionInv
  <2> QED  BY <2>6, <2>7
<1> QED  BY <1>3, <1>4

LEMMA RunEstablishedInv ==
    ASSUME ConnectionInv, RunEstablished
    PROVE  ConnectionInv'
<1>1. /\ Running("established")
      /\ state' = "CONNECTED" /\ registered' = TRUE /\ events' = {"in"} /\ polled' = TRUE
      /\ UNCHANGED <<outbuf, server, queue, socket, accepted, crash, pc, mid, revents, batch,
                     calls>>
  BY DEF RunEstablished, Established, Running
<1>2. at' \in 1 .. Len(batch') + 1 /\ BatchMatches'
  BY <1>1, RunningOne
<1>3. Taken("established") /\ Kept("closed")
  BY <1>1, Popped DEF ConnectionInv
<1>4. state = "CONNECTING" /\ inMap /\ removals = 0 /\ ~registered /\ outbuf = <<>>
  BY <1>3 DEF ConnectionInv, EstablishedOnce, StateMatches, Watched, Closing, Taken
<1>5. TypeOK'
  BY <1>1, <1>2 DEF ConnectionInv, TypeOK, server, socket, calls
<1>6. Watched' /\ FinLast'
  BY <1>1, <1>4 DEF Watched, FinLast, IsWriting
<1>7. ClosedOnce' /\ EstablishedOnce' /\ StateMatches'
  BY <1>1, <1>3, <1>4 DEF ConnectionInv, ClosedOnce, EstablishedOnce, StateMatches, Kept,
     Taken, server, calls
<1> QED  BY <1>2, <1>5, <1>6, <1>7 DEF ConnectionInv

LEMMA RunClosedInv ==
    ASSUME ConnectionInv, RunClosed
    PROVE  ConnectionInv'
<1>1. Running("closed") /\ UNCHANGED <<pc, mid, revents, batch, calls, outbuf, server, queue,
                                       socket, accepted>>
  BY DEF RunClosed, Running, Crash, conn
<1>2. at' \in 1 .. Len(batch') + 1 /\ BatchMatches'
  BY <1>1, RunningOne
<1>3. Taken("closed") /\ Kept("established")
  BY <1>1, Popped DEF ConnectionInv
<1>4. registered /\ ~inMap /\ state \in {"CONNECTED", "DISCONNECTING"}
  BY <1>3 DEF ConnectionInv, ClosedOnce, StateMatches, Taken
<1>5. /\ state' = "DISCONNECTED" /\ events' = {} /\ polled' = FALSE /\ registered' = FALSE
      /\ crash' = crash
  BY <1>4 DEF RunClosed
<1>6. TypeOK'
  <2>1. /\ state' \in {"CONNECTING", "CONNECTED", "DISCONNECTING", "DISCONNECTED"}
        /\ events' \in SUBSET {"in", "out"}
        /\ registered' \in BOOLEAN /\ polled' \in BOOLEAN
        /\ crash' = crash
    BY <1>5
  <2> QED  BY <1>1, <1>2, <2>1 DEF ConnectionInv, TypeOK, server, socket, calls
<1>7. Closing'
  BY <1>1, <1>4, <1>5 DEF Closing, server
<1>8. Watched' /\ FinLast'
  BY <1>7 DEF Watched, FinLast
<1>9. ClosedOnce' /\ EstablishedOnce' /\ StateMatches'
  BY <1>1, <1>3, <1>4, <1>5 DEF ConnectionInv, ClosedOnce, EstablishedOnce, StateMatches, Kept,
     Taken, server, calls
<1> QED  BY <1>2, <1>6, <1>8, <1>9 DEF ConnectionInv

LEMMA RunWriteCompleteInv ==
    ASSUME ConnectionInv, RunWriteComplete
    PROVE  ConnectionInv'
<1>1. Running("writeComplete") /\ UNCHANGED <<pc, mid, revents, batch, calls, conn, server,
                                              queue, socket, accepted, crash>>
  BY DEF RunWriteComplete, Running
<1>2. at' \in 1 .. Len(batch') + 1 /\ BatchMatches'
  BY <1>1, RunningOne
<1>3. Kept("closed") /\ Kept("established")
  BY <1>1, Popped DEF ConnectionInv
<1>4. TypeOK'
  BY <1>1, <1>2 DEF ConnectionInv, TypeOK, conn, server, socket, calls
<1> QED  BY <1>1, <1>2, <1>3, <1>4, QuietInv DEF server, socket, calls

LEMMA NewConnectionInv ==
    ASSUME ConnectionInv, NewConnection
    PROVE  ConnectionInv'
<1>1. /\ state = "CONNECTING" /\ ~inMap /\ inMap' = TRUE
      /\ UNCHANGED <<sameLoop, removals, loop, socket, calls, accepted, crash>>
  BY DEF NewConnection
<1>2. removals = 0 /\ ~registered /\ ~Closing /\ outbuf = <<>>
  BY <1>1 DEF ConnectionInv, StateMatches, Closing, Watched, TypeOK
<1>3. "established" \notin ToSet(ToRun) /\ "closed" \notin ToSet(ToRun)
  BY <1>1, <1>2 DEF ConnectionInv, EstablishedOnce, ClosedOnce
<1>4. BatchMatches'
  BY <1>1 DEF ConnectionInv, BatchMatches, loop
<1>5. CASE sameLoop
  <2>1. /\ state' = "CONNECTED" /\ registered' = TRUE /\ events' = {"in"} /\ polled' = TRUE
        /\ UNCHANGED <<outbuf, queue>>
    BY <1>5 DEF NewConnection, Established
  <2>2. TypeOK'
    BY <1>1, <2>1 DEF ConnectionInv, TypeOK, loop, socket, calls
  <2>3. ToRun' = ToRun
    BY <1>1, <2>1 DEF ToRun, loop
  <2>4. Watched' /\ FinLast'
    BY <1>1, <1>2, <2>1 DEF Watched, FinLast, IsWriting
  <2>5. ClosedOnce' /\ EstablishedOnce' /\ StateMatches'
    BY <1>1, <1>3, <2>1, <2>3 DEF ClosedOnce, EstablishedOnce, StateMatches
  <2> QED  BY <1>4, <2>2, <2>4, <2>5 DEF ConnectionInv
<1>6. CASE ~sameLoop
  <2>1. queue' = Append(queue, "established") /\ UNCHANGED conn
    BY <1>6 DEF NewConnection
  <2>2. queue' \in Seq(Queued)
    BY <2>1, QueuedMore DEF ConnectionInv, Owning
  <2>3. TypeOK'
    <3>1. UNCHANGED conn
      BY <2>1
    <3> QED  BY <1>1, <2>2, <3>1 DEF ConnectionInv, TypeOK, conn, loop, socket, calls
  <2>4. Added("established") /\ Kept("closed")
    BY <1>1, <2>1, QueuedMore, Pushed DEF ConnectionInv, Owning, loop
  <2>5. Watched' /\ FinLast'
    BY <1>1, <1>2, <2>1 DEF Watched, FinLast, conn
  <2>6. ClosedOnce' /\ EstablishedOnce' /\ StateMatches'
    BY <1>1, <1>2, <1>3, <2>1, <2>4 DEF ConnectionInv, ClosedOnce, EstablishedOnce,
       StateMatches, Added, Kept, conn, calls
  <2> QED  BY <1>4, <2>3, <2>5, <2>6 DEF ConnectionInv
<1> QED  BY <1>5, <1>6

-----------------------------------------------------------------------------
LEMMA InitInv ==
    ASSUME Init
    PROVE  ConnectionInv
<1>1. TypeOK
  <2>1. /\ registered \in BOOLEAN /\ polled \in BOOLEAN /\ inMap \in BOOLEAN /\ mid \in BOOLEAN
        /\ incoming \in BOOLEAN /\ reset \in BOOLEAN /\ fin \in BOOLEAN
    BY Zenon DEF Init
  <2>2. /\ state \in {"CONNECTING", "CONNECTED", "DISCONNECTING", "DISCONNECTED"}
        /\ events \in SUBSET {"in", "out"} /\ revents \in SUBSET {"err", "in", "out"}
        /\ removals \in Nat /\ room \in 0 .. Cap
        /\ pc \in {"poll", "dispatch", "functors"}
        /\ peer \in {"open", "half", "closed"} /\ sockErr \in {"none", "EPIPE", "ECONNRESET"}
    BY CapAssumption DEF Init
  <2>3. /\ queue \in Seq(Queued) /\ batch \in Seq(Queued) /\ at \in 1 .. Len(batch) + 1
        /\ outbuf \in Seq(Messages) /\ wire \in Seq(Messages) /\ accepted \in Seq(Messages)
    <3>1. /\ queue = <<>> /\ batch = <<>> /\ at = 1
          /\ outbuf = <<>> /\ wire = <<>> /\ accepted = <<>>
      BY DEF Init
    <3>2. \A S : <<>> \in Seq(S) /\ Len(<<>>) = 0
      BY EmptySeq
    <3> QED  BY <3>1, <3>2
  <2>4. /\ tpc \in [Threads -> {"idle", "shutdown", "shutting", "gone"} \cup Messages]
        /\ asked \in SUBSET Messages
        /\ crash \in {"none", "assert", "removal", "abort", "freed"}
    BY DEF Init
  <2> QED  BY <2>1, <2>2, <2>3, <2>4 DEF TypeOK
<1>2. ToRun = <<>>
  BY DEF Init, ToRun
<1>3. ToSet(ToRun) = {}
  BY <1>2 DEF ToSet
<1>4. ClosedOnce /\ EstablishedOnce
  BY <1>3 DEF Init, ClosedOnce, EstablishedOnce
<1>5. Watched /\ FinLast /\ StateMatches /\ BatchMatches
  BY DEF Init, Watched, FinLast, StateMatches, BatchMatches
<1> QED  BY <1>1, <1>4, <1>5 DEF ConnectionInv

LEMMA NextInv ==
    ASSUME ConnectionInv, [Next]_vars
    PROVE  ConnectionInv'
<1>1. ASSUME LoopStep PROVE ConnectionInv'
  BY <1>1, PollInv, HandleErrorInv, ReadMessageInv, ReadCloseInv, ReadErrorInv, HandleWriteInv,
     BeginFunctorsInv, RunEstablishedInv, RunClosedInv, RunWriteCompleteInv, RunSendInv,
     RunShutdownInv, EndFunctorsInv DEF LoopStep
<1>2. ASSUME NEW t \in Threads, ThreadStep(t) PROVE ConnectionInv'
  BY <1>2, ThreadChecksInv, ThreadSetsStateInv, ThreadEnqueuesInv, ThreadReleasesInv
     DEF ThreadStep
<1>3. ASSUME UNCHANGED vars PROVE ConnectionInv'
  <2>1. TypeOK' /\ BatchMatches' /\ ToRun' = ToRun
    BY <1>3 DEF ConnectionInv, TypeOK, BatchMatches, ToRun, vars, conn, server, loop, socket,
       calls
  <2> QED  BY <1>3, <2>1, Calm DEF vars, server, socket, calls
<1> QED  BY <1>1, <1>2, <1>3, RemovalInv, LoopShutdownInv, LoopSendInv, NewConnectionInv,
         PeerInv DEF Next

LEMMA ConnectionHolds == Spec => []ConnectionInv
BY InitInv, NextInv, PTL DEF Spec

\* Every variable keeps its type: _events, the buffer's bytes, the place in the
\* batch of functors.
THEOREM ConnectionTyped == Spec => []TypeOK
<1>1. ConnectionInv => TypeOK
  BY DEF ConnectionInv
<1> QED  BY <1>1, ConnectionHolds, PTL

\* sendInLoop and handleWrite watch for writing exactly while output waits, for
\* any interleaving of sends, partial writes and shutdowns.
THEOREM OutputIsWatched == Spec => []OutputWatched
<1>1. ConnectionInv => OutputWatched
  BY DEF ConnectionInv, Watched, OutputWatched
<1> QED  BY <1>1, ConnectionHolds, PTL

\* shutdownInLoop and handleWrite shut writing down after the last byte only.
THEOREM FinIsLast == Spec => []FinLast
<1>1. ConnectionInv => FinLast
  BY DEF ConnectionInv
<1> QED  BY <1>1, ConnectionHolds, PTL

\* connectionClosed is queued once by the two hops of removeConnection, whatever
\* closes the connection and however often.
THEOREM ClosesOnce == Spec => []ClosedOnce
<1>1. ConnectionInv => ClosedOnce
  BY DEF ConnectionInv
<1> QED  BY <1>1, ConnectionHolds, PTL

-----------------------------------------------------------------------------
(* The stream. *)

LEMMA JoinedAgain ==
    ASSUME NEW S, NEW w \in Seq(S), NEW s \in Seq(S), NEW t \in Seq(S)
    PROVE  (w \o s) \o t = w \o (s \o t)
BY ConcatAssociative

LEMMA SplitAnywhere ==
    ASSUME TypeOK, NEW s \in Seq(Messages)
    PROVE  SubSeq(s, 1, Written(s)) \o Unwritten(s) = s
<1>1. Written(s) \in 0 .. Len(s) /\ Len(s) \in Nat
  BY WrittenBounds
<1>2. SubSeq(s, 1, Written(s)) \o SubSeq(s, Written(s) + 1, Len(s)) = SubSeq(s, 1, Len(s))
  <2> DEFINE k == Written(s)
  <2>1. 1 \in 1 .. Len(s) + 1 /\ k \in 1 - 1 .. Len(s) /\ Len(s) \in k .. Len(s)
    BY <1>1
  <2> HIDE DEF k
  <2>2. SubSeq(s, 1, k) \o SubSeq(s, k + 1, Len(s)) = SubSeq(s, 1, Len(s))
    BY <2>1, ConcatAdjacentSubSeq
  <2> QED  BY <2>2 DEF k
<1> QED  BY <1>2, SubSeqFull DEF Unwritten

LEMMA SendStream ==
    ASSUME TypeOK, StreamInOrder, NEW m \in Messages, SendInLoop(m)
    PROVE  StreamInOrder'
<1>1. /\ wire \in Seq(Messages) /\ outbuf \in Seq(Messages) /\ accepted \in Seq(Messages)
      /\ wire \o outbuf = accepted
  BY DEF TypeOK, StreamInOrder
<1>2. Bytes(m) \in Seq(Messages)
  BY BytesType
<1>3. /\ SubSeq(Bytes(m), 1, Written(Bytes(m))) \in Seq(Messages)
      /\ Unwritten(Bytes(m)) \in Seq(Messages)
      /\ SubSeq(Bytes(m), 1, Written(Bytes(m))) \o Unwritten(Bytes(m)) = Bytes(m)
  BY <1>2, WrittenBounds, SplitAnywhere
<1>4. CASE SendWrites(m)
  <2>1. /\ outbuf = <<>> /\ accepted' = accepted \o Bytes(m)
        /\ wire' = wire \o SubSeq(Bytes(m), 1, Written(Bytes(m)))
        /\ outbuf' = outbuf \o Unwritten(Bytes(m))
    BY <1>4 DEF SendWrites, CanWrite
  <2>2. outbuf' = Unwritten(Bytes(m)) /\ accepted = wire
    BY <1>1, <1>3, <2>1
  <2>3. (wire \o SubSeq(Bytes(m), 1, Written(Bytes(m)))) \o Unwritten(Bytes(m))
            = wire \o Bytes(m)
    <3> DEFINE s == SubSeq(Bytes(m), 1, Written(Bytes(m)))
               t == Unwritten(Bytes(m))
    <3>1. wire \in Seq(Messages) /\ s \in Seq(Messages) /\ t \in Seq(Messages)
      BY <1>1, <1>3
    <3>2. s \o t = Bytes(m)
      BY <1>3
    <3> HIDE DEF s, t
    <3>3. (wire \o s) \o t = wire \o (s \o t)
      BY <3>1, JoinedAgain
    <3>4. (wire \o s) \o t = wire \o Bytes(m)
      BY <3>2, <3>3
    <3> QED  BY <3>4 DEF s, t
  <2> QED  BY <2>1, <2>2, <2>3 DEF StreamInOrder
<1>5. CASE SendClosed(m)
  <2>1. /\ outbuf = <<>> /\ accepted' = accepted \o Bytes(m)
        /\ wire' = wire /\ outbuf' = Bytes(m)
    BY <1>5 DEF SendClosed, CanWrite
  <2>2. accepted = wire
    BY <1>1, <2>1
  <2> QED  BY <2>1, <2>2 DEF StreamInOrder
<1>6. CASE SendNothing \/ SendCrashes(m)
  BY <1>6 DEF SendNothing, SendCrashes, Crash, StreamInOrder, conn, socket
<1> QED  BY <1>4, <1>5, <1>6 DEF SendInLoop

LEMMA HandleWriteStream ==
    ASSUME TypeOK, StreamInOrder, HandleWrite
    PROVE  StreamInOrder'
<1>1. /\ wire \in Seq(Messages) /\ outbuf \in Seq(Messages)
      /\ wire \o outbuf = accepted
  BY DEF TypeOK, StreamInOrder
<1>2. /\ SubSeq(outbuf, 1, Written(outbuf)) \in Seq(Messages)
      /\ Unwritten(outbuf) \in Seq(Messages)
      /\ SubSeq(outbuf, 1, Written(outbuf)) \o Unwritten(outbuf) = outbuf
  BY <1>1, WrittenBounds, SplitAnywhere
<1>3. CASE /\ wire' = wire \o SubSeq(outbuf, 1, Written(outbuf))
           /\ outbuf' = Unwritten(outbuf)
  <2>1. (wire \o SubSeq(outbuf, 1, Written(outbuf))) \o Unwritten(outbuf) = wire \o outbuf
    <3> DEFINE s == SubSeq(outbuf, 1, Written(outbuf))
               t == Unwritten(outbuf)
    <3>1. wire \in Seq(Messages) /\ s \in Seq(Messages) /\ t \in Seq(Messages)
      BY <1>1, <1>2
    <3>2. s \o t = outbuf
      BY <1>2
    <3> HIDE DEF s, t
    <3>3. (wire \o s) \o t = wire \o (s \o t)
      BY <3>1, JoinedAgain
    <3>4. (wire \o s) \o t = wire \o outbuf
      BY <3>2, <3>3
    <3> QED  BY <3>4 DEF s, t
  <2> QED  BY <1>1, <1>3, <2>1 DEF HandleWrite, StreamInOrder
<1>4. CASE UNCHANGED <<wire, outbuf>>
  BY <1>4 DEF HandleWrite, StreamInOrder
<1> QED  BY <1>3, <1>4 DEF HandleWrite

LEMMA NextStream ==
    ASSUME TypeOK, StreamInOrder, [Next]_vars
    PROVE  StreamInOrder'
<1>1. CASE UNCHANGED <<wire, outbuf, accepted>>
  BY <1>1 DEF StreamInOrder
<1>2. ASSUME LoopStep PROVE StreamInOrder'
  <2>1. CASE RunSend
    <3>1. PICK m \in Messages : SendInLoop(m) \/ Crash("freed")
      BY <2>1 DEF RunSend
    <3> QED  BY <1>1, <3>1, SendStream DEF Crash, conn, socket
  <2>2. CASE \/ Poll \/ HandleError \/ ReadMessage \/ ReadError \/ BeginFunctors
             \/ RunWriteComplete \/ EndFunctors
    BY <1>1, <2>2 DEF Poll, HandleError, ReadMessage, ReadError, Reading, BeginFunctors,
       RunWriteComplete, EndFunctors, conn, socket
  <2>3. CASE ReadClose \/ RunEstablished \/ RunClosed \/ RunShutdown
    BY <1>1, <2>3 DEF ReadClose, Reading, RunEstablished, Established, RunClosed, RunShutdown,
       Crash, conn, socket
  <2> QED  BY <1>2, <2>1, <2>2, <2>3, HandleWriteStream DEF LoopStep
<1>3. ASSUME NEW m \in Messages, LoopSend(m) PROVE StreamInOrder'
  BY <1>3, SendStream DEF LoopSend
<1>4. ASSUME NEW t \in Threads, ThreadStep(t) PROVE StreamInOrder'
  BY <1>1, <1>4 DEF ThreadStep, ThreadChecks, ThreadSetsState, ThreadEnqueues, ThreadReleases,
     conn, socket
<1>5. ASSUME RemoveConnectionInLoop \/ LoopShutdown \/ NewConnection PROVE StreamInOrder'
  BY <1>1, <1>5 DEF RemoveConnectionInLoop, Crash, LoopShutdown, NewConnection, Established,
     conn, socket
<1>6. ASSUME \/ PeerSends \/ PeerReads \/ PeerResets
             \/ \E how \in {"half", "closed"} : PeerCloses(how)
      PROVE  StreamInOrder'
  BY <1>1, <1>6 DEF PeerSends, PeerReads, PeerResets, PeerCloses, conn
<1>7. ASSUME UNCHANGED vars PROVE StreamInOrder'
  BY <1>1, <1>7 DEF vars, conn, socket
<1> QED  BY <1>2, <1>3, <1>4, <1>5, <1>6, <1>7 DEF Next

\* What sendInLoop and handleWrite wrote and what waits in _outputBuffer are what
\* was accepted, whole and in order, for messages of any length.
THEOREM StreamIsInOrder == Spec => []StreamInOrder
<1>1. Init => StreamInOrder
  BY DEF Init, StreamInOrder
<1>2. ConnectionInv => TypeOK
  BY DEF ConnectionInv
<1> QED  BY <1>1, <1>2, InitInv, NextInv, NextStream, PTL DEF Spec

-----------------------------------------------------------------------------
(* Alone: no other thread has a pointer, and the peer does not abort.  The *)
(* invariant adds that there is no trouble, and that whatever leads to     *)
(* handleClose finds the connection registered and not yet closing.        *)

NoTrouble ==
    /\ NoFailure
    /\ ~reset /\ sockErr = "none" /\ "err" \notin revents
    /\ state \in {"CONNECTING", "CONNECTED"} => ~fin
    /\ \A f \in ToSet(ToRun) : f \in Owning

CloseFits ==
    /\ polled => registered /\ ~Closing
    /\ "in" \in revents => registered /\ ~Closing /\ (incoming \/ peer # "open")
    /\ revents # {} => pc = "dispatch"
    /\ removals > 0 => removals = 1 /\ inMap /\ ~sameLoop
    /\ state \in {"CONNECTED", "DISCONNECTING"} => registered
    /\ ClosedByPeer

AloneInv == ConnectionInv /\ NoTrouble /\ CloseFits

LEMMA NoSendToRun ==
    ASSUME AloneInv
    PROVE  ~RunSend /\ ~RunShutdown
<1>1. \A f : Running(f) => f \in ToSet(ToRun)
  BY Pop, ToRunType, OneLess DEF AloneInv, ConnectionInv
<1>2. \A f : Running(f) => f \in Owning
  BY <1>1 DEF AloneInv, NoTrouble
<1>3. \A m \in Messages : m \notin Owning
  BY MessageIsNoFunctor DEF Owning
<1> QED  BY <1>2, <1>3 DEF RunSend, RunShutdown, Owning

LEMMA SendAlone ==
    ASSUME AloneInv, NEW m \in Messages, LoopSend(m)
    PROVE  /\ UNCHANGED <<state, registered, server, queue, incoming, peer, reset, sockErr, fin,
                          crash, loop>>
           /\ registered
           /\ polled' => polled
<1>1. state = "CONNECTED" /\ registered /\ ~WriteFails
  BY DEF LoopSend, CanSend, AloneInv, NoTrouble, CloseFits, WriteFails
<1>2. SendNothing \/ SendWrites(m)
  BY <1>1 DEF LoopSend, SendInLoop, SendClosed, SendCrashes
<1>3. polled' => polled
  BY <1>2 DEF SendNothing, SendWrites, Update, conn
<1> QED  BY <1>1, <1>2, <1>3 DEF LoopSend, SendNothing, SendWrites, conn, socket

LEMMA LoopSendAlone ==
    ASSUME AloneInv, NEW m \in Messages, LoopSend(m)
    PROVE  NoTrouble' /\ CloseFits'
<1>1. ToRun' = ToRun
  BY SendAlone DEF ToRun, loop
<1> QED  BY <1>1, SendAlone DEF AloneInv, NoTrouble, CloseFits, NoFailure, ClosedByPeer, Closing,
     server, loop

LEMMA LoopShutdownAlone ==
    ASSUME AloneInv, LoopShutdown
    PROVE  NoTrouble' /\ CloseFits'
<1>1. /\ state = "CONNECTED" /\ state' = "DISCONNECTING" /\ ShutdownInLoop
      /\ UNCHANGED <<events, registered, polled, outbuf, server, loop, queue, wire, room,
                     incoming, peer, reset, sockErr, calls, accepted>>
  BY DEF LoopShutdown, CanSend
<1>2. crash' = crash
  BY <1>1 DEF ShutdownInLoop, NotConnected, AloneInv, NoTrouble
<1>3. ToRun' = ToRun
  BY <1>1 DEF ToRun, loop
<1> QED  BY <1>1, <1>2, <1>3 DEF AloneInv, NoTrouble, CloseFits, NoFailure, ClosedByPeer,
         Closing, server, loop

LEMMA PollAlone ==
    ASSUME AloneInv, Poll
    PROVE  NoTrouble' /\ CloseFits'
<1>1. "err" \notin Ready /\ ("in" \in Ready => polled /\ (incoming \/ peer # "open"))
  BY DEF Ready, AloneInv, NoTrouble
<1>2. ToRun' = ToRun
  BY DEF Poll, ToRun
<1> QED  BY <1>1, <1>2 DEF Poll, AloneInv, NoTrouble, CloseFits, NoFailure, ClosedByPeer,
         Closing, conn, server, socket

LEMMA ReadMessageAlone ==
    ASSUME AloneInv, ReadMessage
    PROVE  NoTrouble' /\ CloseFits'
<1>1. ToRun' = ToRun
  BY DEF ReadMessage, Reading, ToRun
<1> QED  BY <1>1 DEF ReadMessage, Reading, AloneInv, NoTrouble, CloseFits, NoFailure,
         ClosedByPeer, Closing, conn, server

LEMMA ReadCloseAlone ==
    ASSUME AloneInv, ReadClose
    PROVE  NoTrouble' /\ CloseFits'
<1>1. /\ "in" \in revents /\ ~incoming /\ revents' = revents \ {"in"}
      /\ UNCHANGED <<pc, batch, at, calls, accepted>>
  BY DEF ReadClose, Reading
<1>2. registered /\ ~Closing /\ peer # "open"
  BY <1>1 DEF AloneInv, CloseFits
<1>3. inMap /\ removals = 0 /\ state \in {"CONNECTED", "DISCONNECTING"}
  BY <1>2 DEF Closing, AloneInv, ConnectionInv, StateMatches, TypeOK
<1>4. HandleClose({}) /\ UNCHANGED <<state, registered, outbuf, socket, crash>>
  BY <1>2, <1>3 DEF ReadClose, CanClose
<1>5. CASE sameLoop
  <2>1. /\ inMap' = FALSE /\ removals' = 0 /\ polled' = FALSE /\ sameLoop' = sameLoop
        /\ queue' = Append(queue, "closed")
    BY <1>3, <1>4, <1>5 DEF HandleClose
  <2>2. \A f : f # "closed" => Kept(f)
    BY <1>1, <2>1, QueuedMore, Pushed DEF AloneInv, ConnectionInv, Owning
  <2>3. NoTrouble'
    BY <1>1, <1>4, <2>2 DEF AloneInv, NoTrouble, NoFailure, Kept, Owning, socket
  <2>4. CloseFits'
    BY <1>1, <1>2, <1>3, <1>4, <2>1 DEF AloneInv, CloseFits, ClosedByPeer, socket
  <2> QED  BY <2>3, <2>4
<1>6. CASE ~sameLoop
  <2>1. /\ inMap' = inMap /\ removals' = 1 /\ polled' = FALSE /\ sameLoop' = sameLoop
        /\ queue' = queue
    BY <1>3, <1>4, <1>6 DEF HandleClose
  <2>2. ToRun' = ToRun
    BY <1>1, <2>1 DEF ToRun
  <2>3. NoTrouble'
    BY <1>1, <1>4, <2>2 DEF AloneInv, NoTrouble, NoFailure, socket
  <2>4. CloseFits'
    BY <1>1, <1>2, <1>3, <1>4, <1>6, <2>1 DEF AloneInv, CloseFits, ClosedByPeer, socket
  <2> QED  BY <2>3, <2>4
<1> QED  BY <1>5, <1>6

LEMMA RemovalAlone ==
    ASSUME AloneInv, RemoveConnectionInLoop
    PROVE  NoTrouble' /\ CloseFits'
<1>1. /\ removals = 1 /\ inMap /\ ~sameLoop /\ Closing
  BY DEF RemoveConnectionInLoop, AloneInv, CloseFits, Closing
<1>2. /\ removals' = 0 /\ inMap' = FALSE /\ queue' = Append(queue, "closed")
      /\ UNCHANGED <<sameLoop, conn, socket, accepted, crash, loop, calls>>
  BY <1>1 DEF RemoveConnectionInLoop
<1>3. \A f : f # "closed" => Kept(f)
  BY <1>2, QueuedMore, Pushed DEF AloneInv, ConnectionInv, Owning, loop
<1>4. NoTrouble'
  BY <1>2, <1>3 DEF AloneInv, NoTrouble, NoFailure, Kept, Owning, conn, loop, socket
<1>5. CloseFits'
  BY <1>1, <1>2 DEF AloneInv, CloseFits, ClosedByPeer, conn, loop, socket
<1> QED  BY <1>4, <1>5

LEMMA HandleWriteAlone ==
    ASSUME AloneInv, HandleWrite
    PROVE  NoTrouble' /\ CloseFits'
<1>1. /\ revents' = {}
      /\ UNCHANGED <<state, registered, server, pc, batch, at, incoming, peer, reset, calls,
                     accepted, crash>>
      /\ polled' => polled
  BY DEF HandleWrite, Update
<1>2. sockErr' = "none"
  BY DEF HandleWrite, AloneInv, NoTrouble
<1>3. fin' => fin \/ state = "DISCONNECTING"
  BY DEF HandleWrite, EndsShutdown
<1>4. \A f : f # "writeComplete" => Kept(f)
  <2>1. CASE queue' = Append(queue, "writeComplete")
    BY <1>1, <2>1, QueuedMore, Pushed DEF AloneInv, ConnectionInv, Owning
  <2>2. CASE queue' = queue
    BY <1>1, <2>2 DEF ToRun, Kept
  <2> QED  BY <2>1, <2>2 DEF HandleWrite
<1>5. NoTrouble'
  BY <1>1, <1>2, <1>3, <1>4 DEF AloneInv, NoTrouble, NoFailure, Kept, Owning
<1>6. CloseFits'
  BY <1>1 DEF AloneInv, CloseFits, ClosedByPeer, Closing, server
<1> QED  BY <1>5, <1>6

LEMMA SwapAlone ==
    ASSUME AloneInv, BeginFunctors \/ EndFunctors
    PROVE  NoTrouble' /\ CloseFits'
<1>1. /\ UNCHANGED <<conn, server, mid, revents, socket, calls, accepted, crash>>
      /\ revents # {} => pc' = "dispatch"
  BY DEF BeginFunctors, EndFunctors, AloneInv, CloseFits
<1>2. ToRun' = ToRun
  BY SwapKeepsToRun DEF AloneInv
<1> QED  BY <1>1, <1>2 DEF AloneInv, NoTrouble, CloseFits, NoFailure, ClosedByPeer, Closing,
         conn, server, socket

LEMMA RunEstablishedAlone ==
    ASSUME AloneInv, RunEstablished
    PROVE  NoTrouble' /\ CloseFits'
<1>1. /\ Running("established")
      /\ state' = "CONNECTED" /\ registered' = TRUE
      /\ UNCHANGED <<outbuf, server, queue, socket, accepted, crash, pc, mid, revents, batch,
                     calls>>
  BY DEF RunEstablished, Established, Running
<1>2. Taken("established") /\ \A f : f # "established" => Kept(f)
  BY <1>1, Popped DEF AloneInv, ConnectionInv
<1>3. state = "CONNECTING" /\ inMap /\ removals = 0
  BY <1>2 DEF AloneInv, ConnectionInv, EstablishedOnce, StateMatches, Taken
<1>4. NoTrouble'
  BY <1>1, <1>2, <1>3 DEF AloneInv, NoTrouble, NoFailure, Taken, Kept, socket
<1>5. CloseFits'
  BY <1>1, <1>3 DEF AloneInv, CloseFits, ClosedByPeer, Closing, server, socket
<1> QED  BY <1>4, <1>5

LEMMA RunClosedAlone ==
    ASSUME AloneInv, RunClosed
    PROVE  NoTrouble' /\ CloseFits'
<1>1. Running("closed") /\ UNCHANGED <<pc, mid, revents, batch, calls, outbuf, server, queue,
                                       socket, accepted>>
  BY DEF RunClosed, Running, Crash, conn
<1>2. Taken("closed") /\ \A f : f # "closed" => Kept(f)
  BY <1>1, Popped DEF AloneInv, ConnectionInv
<1>3. registered /\ ~inMap /\ state \in {"CONNECTED", "DISCONNECTING"}
  BY <1>2 DEF AloneInv, ConnectionInv, ClosedOnce, StateMatches, Taken
<1>4. state' = "DISCONNECTED" /\ polled' = FALSE /\ crash' = crash
  BY <1>3 DEF RunClosed
<1>5. Closing
  BY <1>3 DEF Closing
<1>6. NoTrouble'
  BY <1>1, <1>2, <1>4 DEF AloneInv, NoTrouble, NoFailure, Taken, Kept, socket
<1>7. CloseFits'
  BY <1>1, <1>3, <1>4, <1>5 DEF AloneInv, CloseFits, ClosedByPeer, server, socket
<1> QED  BY <1>6, <1>7

LEMMA RunWriteCompleteAlone ==
    ASSUME AloneInv, RunWriteComplete
    PROVE  NoTrouble' /\ CloseFits'
<1>1. Running("writeComplete") /\ UNCHANGED <<pc, mid, revents, batch, calls, conn, server,
                                              queue, socket, accepted, crash>>
  BY DEF RunWriteComplete, Running
<1>2. Taken("writeComplete") /\ \A f : f # "writeComplete" => Kept(f)
  BY <1>1, Popped DEF AloneInv, ConnectionInv
<1>3. NoTrouble'
  BY <1>1, <1>2 DEF AloneInv, NoTrouble, NoFailure, Taken, Kept, conn, socket
<1>4. CloseFits'
  BY <1>1 DEF AloneInv, CloseFits, ClosedByPeer, Closing, conn, server, socket
<1> QED  BY <1>3, <1>4

LEMMA NewConnectionAlone ==
    ASSUME AloneInv, NewConnection
    PROVE  NoTrouble' /\ CloseFits'
<1>1. /\ state = "CONNECTING" /\ ~inMap /\ inMap' = TRUE
      /\ UNCHANGED <<sameLoop, removals, loop, socket, calls, accepted, crash>>
  BY DEF NewConnection
<1>2. removals = 0 /\ ~registered /\ ~Closing
  BY <1>1 DEF AloneInv, ConnectionInv, TypeOK, StateMatches, Closing
<1>3. CASE sameLoop
  <2>1. state' = "CONNECTED" /\ registered' = TRUE /\ UNCHANGED queue
    BY <1>3 DEF NewConnection, Established
  <2>2. ToRun' = ToRun
    BY <1>1, <2>1 DEF ToRun, loop
  <2>3. NoTrouble'
    BY <1>1, <2>1, <2>2 DEF AloneInv, NoTrouble, NoFailure, loop, socket
  <2>4. CloseFits'
    BY <1>1, <1>2, <2>1 DEF AloneInv, CloseFits, ClosedByPeer, Closing, loop, socket
  <2> QED  BY <2>3, <2>4
<1>4. CASE ~sameLoop
  <2>1. queue' = Append(queue, "established") /\ UNCHANGED conn
    BY <1>4 DEF NewConnection
  <2>2. \A f : f # "established" => Kept(f)
    BY <1>1, <2>1, QueuedMore, Pushed DEF AloneInv, ConnectionInv, Owning, loop
  <2>3. NoTrouble'
    BY <1>1, <2>1, <2>2 DEF AloneInv, NoTrouble, NoFailure, Kept, Owning, conn, loop, socket
  <2>4. CloseFits'
    BY <1>1, <1>2, <2>1 DEF AloneInv, CloseFits, ClosedByPeer, Closing, conn, loop, socket
  <2> QED  BY <2>3, <2>4
<1> QED  BY <1>3, <1>4

LEMMA PeerAlone ==
    ASSUME AloneInv,
           PeerSends \/ PeerReads \/ \E how \in {"half", "closed"} : PeerCloses(how)
    PROVE  NoTrouble' /\ CloseFits'
<1>1. /\ UNCHANGED <<conn, server, loop, queue, reset, sockErr, fin, crash>>
      /\ incoming => incoming'
      /\ peer # "open" => peer' # "open"
  BY DEF PeerSends, PeerReads, PeerCloses, AloneInv, ConnectionInv, TypeOK
<1>2. ToRun' = ToRun
  BY <1>1 DEF ToRun, loop
<1> QED  BY <1>1, <1>2 DEF AloneInv, NoTrouble, CloseFits, NoFailure, ClosedByPeer, Closing,
         conn, server, loop

LEMMA InitAlone ==
    ASSUME Init
    PROVE  AloneInv
<1>1. ToSet(ToRun) = {}
  BY DEF Init, ToRun, ToSet
<1>2. NoTrouble
  BY <1>1 DEF Init, NoTrouble, NoFailure
<1>3. ~polled /\ revents = {} /\ removals = 0 /\ state = "CONNECTING"
  BY DEF Init
<1>4. CloseFits
  BY <1>3 DEF CloseFits, ClosedByPeer, Closing
<1> QED  BY <1>2, <1>4, InitInv DEF AloneInv

LEMMA NextAlone ==
    ASSUME Threads = {}, ~PeerAborts, AloneInv, [Next]_vars
    PROVE  AloneInv'
<1>1. ASSUME LoopStep PROVE NoTrouble' /\ CloseFits'
  <2>1. ~HandleError /\ ~ReadError /\ ~RunSend /\ ~RunShutdown
    BY NoSendToRun DEF HandleError, ReadError, AloneInv, NoTrouble
  <2> QED  BY <1>1, <2>1, PollAlone, ReadMessageAlone, ReadCloseAlone, HandleWriteAlone,
              SwapAlone, RunEstablishedAlone, RunClosedAlone, RunWriteCompleteAlone
           DEF LoopStep
<1>2. ASSUME UNCHANGED vars PROVE NoTrouble' /\ CloseFits'
  <2>1. ToRun' = ToRun
    BY <1>2 DEF ToRun, vars, loop
  <2> QED  BY <1>2, <2>1 DEF AloneInv, NoTrouble, CloseFits, NoFailure, ClosedByPeer, Closing,
           vars, conn, server, loop, socket
<1>3. ~PeerResets
  BY DEF PeerResets
<1>4. NoTrouble' /\ CloseFits'
  BY <1>1, <1>2, <1>3, RemovalAlone, LoopShutdownAlone, LoopSendAlone, NewConnectionAlone,
     PeerAlone DEF Next
<1> QED  BY <1>4, NextInv DEF AloneInv

\* handleClose runs only because the peer shut down its writing.
THEOREM ClosesForPeer ==
    ASSUME Threads = {}, ~PeerAborts
    PROVE  Spec => []ClosedByPeer
<1>1. AloneInv => ClosedByPeer
  BY DEF AloneInv, CloseFits
<1>2. AloneInv /\ [Next]_vars => AloneInv'
  BY NextAlone
<1> QED  BY <1>1, <1>2, InitAlone, PTL DEF Spec

\* No assertion of the class fails, nothing aborts, and no functor runs on a
\* destroyed connection, when it is used from its loop.
THEOREM NeverFails ==
    ASSUME Threads = {}, ~PeerAborts
    PROVE  Spec => []NoFailure
<1>1. AloneInv => NoFailure
  BY DEF AloneInv, NoTrouble
<1>2. AloneInv /\ [Next]_vars => AloneInv'
  BY NextAlone
<1> QED  BY <1>1, <1>2, InitAlone, PTL DEF Spec
=============================================================================

------------------------------- MODULE Vector -------------------------------
(***************************************************************************)
(* The growing array.  A vector is its elements, its capacity and whether  *)
(* the memory was respected (ok): writing past the capacity or copying a   *)
(* range that ends before it starts makes it not ok.  Exceptions of an     *)
(* element's copy are left out.                                            *)
(***************************************************************************)
EXTENDS Integers, Sequences, SequencesExt, FiniteSets

CONSTANTS Elements,
          MostElements,   \* bound: elements
          MostReserved,   \* bound: what reserve asks for
          VectorAvoids    \* calls the callers do not make, see Emplace and Insert

VARIABLES vector,         \* [e: the elements, cap: the capacity, ok]
          sequence        \* what the vector should hold

vectorVars == <<vector, sequence>>

Junk == 0   \* memory in which no element was constructed

Size(v) == Len(v.e)
HasRoom(v) == Size(v) # v.cap
Hold(v, e, cap) == [e |-> e, cap |-> cap, ok |-> v.ok /\ Len(e) =< cap]
Empty == [e |-> <<>>, cap |-> 0, ok |-> TRUE]
Exactly(e) == Hold(Empty, e, Len(e))

Before(v, i) == SubSeq(v.e, 1, i - 1)
From(v, i) == SubSeq(v.e, i, Size(v))
Times(n, x) == [j \in 1 .. n |-> x]

\* emplaceAux.  Growth by half takes a capacity of one to one.  With room it
\* moves the last element first, which is wrong at the end.
EmplaceAux(v, i, x) ==
    LET grown == IF Size(v) = 0 THEN 2 ELSE (3 * Size(v)) \div 2
        e == Before(v, i) \o <<x>> \o From(v, i)
    IN IF HasRoom(v) THEN [Hold(v, e, v.cap) EXCEPT !.ok = @ /\ i =< Size(v)]
       ELSE Hold(v, e, grown)

PushBack(v, x) ==
    IF HasRoom(v) THEN Hold(v, Append(v.e, x), v.cap) ELSE EmplaceAux(v, Size(v) + 1, x)

\* With room, and no more elements after the position than are inserted,
\* those elements are copied onto themselves and lost.
Insert(v, i, n, x) ==
    LET after == Size(v) - i + 1
        shifted == Before(v, i) \o Times(n, x) \o From(v, i)
    IN CASE n = 0 -> v
         [] n > 0 /\ v.cap - Size(v) >= n /\ after > n -> Hold(v, shifted, v.cap)
         [] n > 0 /\ v.cap - Size(v) >= n /\ after =< n ->
              Hold(v, Before(v, i) \o Times(n, x) \o Times(after, Junk), v.cap)
         [] OTHER -> Hold(v, shifted, Size(v) + IF Size(v) > n THEN Size(v) ELSE n)

EraseRange(v, first, last) == Hold(v, Before(v, first) \o From(v, last), v.cap)
Erase(v, i) == Hold(v, Before(v, i) \o From(v, i + 1), v.cap)
PopBack(v) == Hold(v, Front(v.e), v.cap)

Resize(v, n, x) ==
    IF n < Size(v) THEN EraseRange(v, n + 1, Size(v) + 1)
    ELSE Insert(v, Size(v) + 1, n - Size(v), x)

Reserve(v, n) == IF n < v.cap THEN v ELSE Hold(v, v.e, n)
Copy(v) == Exactly(v.e)
ShrinkToFit(v) == IF Size(v) < v.cap THEN Copy(v) ELSE v

\* Made of n equal elements, of a list (read once), of an array.
Fill(n, x) == Exactly(Times(n, x))
FromRange(e) == Exactly(e)
FromRandomAccess(e) ==
    LET pushed[n \in 0 .. Len(e)] == IF n = 0 THEN Empty ELSE PushBack(pushed[n - 1], e[n])
    IN pushed[Len(e)]

-----------------------------------------------------------------------------
(* The operations *)

Fits(n) == Len(sequence) + n =< MostElements
Positions == 1 .. Len(sequence) + 1

VectorInit ==
    /\ vector = Empty
    /\ sequence = <<>>

VectorPushBack(x) ==
    /\ Fits(1)
    /\ "single" \in VectorAvoids => ~(Size(vector) = 1 /\ vector.cap = 1)
    /\ vector' = PushBack(vector, x)
    /\ sequence' = Append(sequence, x)

VectorEmplace(i, x) ==
    /\ Fits(1)
    /\ "single" \in VectorAvoids => ~(Size(vector) = 1 /\ vector.cap = 1)
    /\ "end" \in VectorAvoids /\ HasRoom(vector) => i =< Size(vector)
    /\ vector' = EmplaceAux(vector, i, x)
    /\ sequence' = InsertAt(sequence, i, x)

VectorInsert(i, n, x) ==
    /\ Fits(n)
    /\ "short tail" \in VectorAvoids /\ vector.cap - Size(vector) >= n =>
         Len(sequence) - i + 1 \notin 1 .. n
    /\ vector' = Insert(vector, i, n, x)
    /\ sequence' = SubSeq(sequence, 1, i - 1) \o Times(n, x) \o SubSeq(sequence, i, Len(sequence))

VectorErase(i) ==
    /\ vector' = Erase(vector, i)
    /\ sequence' = RemoveAt(sequence, i)

\* clear is the erasure of everything.
VectorEraseRange(first, last) ==
    /\ vector' = EraseRange(vector, first, last)
    /\ sequence' = SubSeq(sequence, 1, first - 1) \o SubSeq(sequence, last, Len(sequence))

VectorPopBack ==
    /\ sequence # <<>>
    /\ vector' = PopBack(vector)
    /\ sequence' = Front(sequence)

VectorResize(n, x) ==
    /\ vector' = Resize(vector, n, x)
    /\ sequence' = IF n < Len(sequence) THEN SubSeq(sequence, 1, n)
                   ELSE sequence \o Times(n - Len(sequence), x)

VectorReserve(n) ==
    /\ vector' = Reserve(vector, n)
    /\ UNCHANGED sequence

\* shrink_to_fit, or assignment of a copy.
VectorCompact ==
    /\ vector' \in {ShrinkToFit(vector), Copy(vector)}
    /\ UNCHANGED sequence

\* assign, move assignment and swap with a vector made of n elements x.
VectorAssign(n, x) ==
    /\ vector' \in {Fill(n, x), FromRange(Times(n, x)), FromRandomAccess(Times(n, x))}
    /\ sequence' = Times(n, x)

\* The vector is moved from.
VectorMoveFrom ==
    /\ vector' = Empty
    /\ sequence' = <<>>

VectorNext ==
    /\ vector.ok
    /\ \/ \E x \in Elements :
            \/ VectorPushBack(x)
            \/ \E i \in Positions : VectorEmplace(i, x)
            \/ \E i \in Positions, n \in 0 .. 2 : VectorInsert(i, n, x)
            \/ \E n \in 0 .. MostElements : VectorResize(n, x) \/ VectorAssign(n, x)
       \/ \E i \in DOMAIN sequence : VectorErase(i)
       \/ \E first, last \in Positions : first =< last /\ VectorEraseRange(first, last)
       \/ VectorPopBack
       \/ \E n \in 0 .. MostReserved : VectorReserve(n)
       \/ VectorCompact
       \/ VectorMoveFrom

-----------------------------------------------------------------------------
(* Properties *)

\* Whatever grew, shrank, was inserted and erased, the vector holds what was
\* put in it, in order, and never more than its capacity.
VectorAgrees ==
    /\ vector.ok
    /\ vector.e = sequence
    /\ Size(vector) =< vector.cap

=============================================================================

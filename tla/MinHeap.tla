------------------------------ MODULE MinHeap ------------------------------
(***************************************************************************)
(* The indexed binary heap: elements of a key and a score, and the map     *)
(* from keys to their place in the vector.  Places are 1-based here.  A    *)
(* heap whose assertion failed is not ok, and nothing is called on it.     *)
(***************************************************************************)
EXTENDS Integers, Sequences, SequencesExt, FiniteSets

CONSTANTS HeapKeys, Scores,
          HeapLists,    \* sequences of <<key, score>> a heap is made from
          HeapAvoids    \* calls the callers do not make, see HeapInit, HeapErase

VARIABLES heap,         \* [e: _elements, idx: _keyIndex, past: the score left
                        \*  in memory past the last element, ok]
          scores        \* the keys in the heap and their scores

heapVars == <<heap, scores>>

Size(h) == Len(h.e)
KeyAt(h, i) == h.e[i][1]
\* operator[] is not checked: past the end it reads what removeLast left.
ScoreAt(h, i) == IF i \in DOMAIN h.e THEN h.e[i][2] ELSE h.past
Parent(i) == i \div 2
Left(i) == 2 * i
Right(i) == 2 * i + 1

Set(f, k, v) == [x \in DOMAIN f \cup {k} |-> IF x = k THEN v ELSE f[x]]
Without(f, k) == [x \in DOMAIN f \ {k} |-> f[x]]

\* The assertions: both places exist and are the indexed ones.
SwapKey(h, i, j) ==
    IF /\ {i, j} \subseteq DOMAIN h.e
       /\ \A x \in {i, j} : KeyAt(h, x) \in DOMAIN h.idx /\ h.idx[KeyAt(h, x)] = x
    THEN [h EXCEPT !.e = [@ EXCEPT ![i] = h.e[j], ![j] = h.e[i]],
                   !.idx = [@ EXCEPT ![KeyAt(h, i)] = j, ![KeyAt(h, j)] = i]]
    ELSE [h EXCEPT !.ok = FALSE]

RemoveLast(h) ==
    [h EXCEPT !.idx = Without(@, KeyAt(h, Size(h))), !.e = Front(@), !.past = ScoreAt(h, Size(h))]

\* The right child is taken only if it is smaller than the left one.
Smallest(h, i) ==
    LET smaller(a, b) == IF b =< Size(h) /\ ScoreAt(h, b) < ScoreAt(h, a) THEN b ELSE a
    IN smaller(smaller(i, Left(i)), Right(i))

\* One turn of siftDown and of siftUp at place i: the heap and the place
\* they go on with.
DownStep(at) ==
    LET h == at[1]
        i == at[2]
    IN IF i > Size(h) \/ Smallest(h, i) = i \/ ~h.ok THEN at
       ELSE <<SwapKey(h, i, Smallest(h, i)), Smallest(h, i)>>
UpStep(at) ==
    LET h == at[1]
        i == at[2]
    IN IF i = 1 \/ ~h.ok \/ ScoreAt(h, Parent(i)) < ScoreAt(h, i) THEN at
       ELSE <<SwapKey(h, i, Parent(i)), Parent(i)>>

\* A place never turns up twice, so that this many turns are enough.
SiftDown(h, i) ==
    LET down[n \in 0 .. Size(h)] == IF n = 0 THEN <<h, i>> ELSE DownStep(down[n - 1])
    IN down[Size(h)][1]
SiftUp(h, i) ==
    LET up[n \in 0 .. i] == IF n = 0 THEN <<h, i>> ELSE UpStep(up[n - 1])
    IN up[i][1]

Top(h) == h.e[1]

Pop(h) == IF Size(h) = 0 THEN h ELSE SiftDown(RemoveLast(SwapKey(h, 1, Size(h))), 1)

Insert(h, k, s) ==
    IF k \in DOMAIN h.idx THEN h
    ELSE SiftUp([h EXCEPT !.e = Append(@, <<k, s>>), !.idx = Set(@, k, Size(h) + 1)], Size(h) + 1)

\* Mutant of Erase: the last element, put in the middle, only goes down.
EraseSiftsDown(h, k) ==
    LET i == h.idx[k]
    IN IF k \notin DOMAIN h.idx THEN h ELSE SiftDown(RemoveLast(SwapKey(h, i, Size(h))), i)

Erase(h, k) ==
    LET i == h.idx[k]
    IN IF k \notin DOMAIN h.idx THEN h
       ELSE SiftDown(SiftUp(RemoveLast(SwapKey(h, i, Size(h))), i), i)

ChangeScore(h, k, s) ==
    LET i == h.idx[k]
    IN IF k \notin DOMAIN h.idx THEN Insert(h, k, s)
       ELSE SiftDown(SiftUp([h EXCEPT !.e[i][2] = s], i), i)

\* The orders std::sort may leave the list in, and std::unique after it.
Sorted(list) ==
    {[i \in DOMAIN list |-> list[p[i]]] :
        p \in {q \in [DOMAIN list -> DOMAIN list] :
                  /\ IsInjective(q)
                  /\ \A i, j \in DOMAIN list : i < j => list[q[i]][2] =< list[q[j]][2]}}
\* std::unique keeps the first of neighbours with the same key.
Unique(list) ==
    LET kept[n \in 0 .. Len(list)] ==
            IF n = 0 THEN <<>>
            ELSE IF kept[n - 1] # <<>> /\ Last(kept[n - 1])[1] = list[n][1] THEN kept[n - 1]
            ELSE Append(kept[n - 1], list[n])
    IN kept[Len(list)]

BuildIndex(e) == [k \in {e[i][1] : i \in DOMAIN e} |->
                    CHOOSE i \in DOMAIN e : e[i][1] = k /\ \A j \in DOMAIN e : e[j][1] = k => j =< i]
BuildHeap(sorted) ==
    [e |-> Unique(sorted), idx |-> BuildIndex(Unique(sorted)), past |-> 0, ok |-> TRUE]

\* Every parent from the root down; strict: equal scores are no heap to it.
MinHeapPropertyKept(h) ==
    \A i \in DOMAIN h.e : \A c \in {Left(i), Right(i)} \cap DOMAIN h.e : ScoreAt(h, i) < ScoreAt(h, c)

-----------------------------------------------------------------------------
(* The operations *)

\* A key given twice stays twice unless sorting by score brings the two
\* together.
HeapInit ==
    \E list \in HeapLists : \E sorted \in Sorted(list) :
        /\ heap = BuildHeap(sorted)
        /\ scores = [k \in DOMAIN heap.idx |-> heap.e[heap.idx[k]][2]]
        /\ "duplicates" \in HeapAvoids => Cardinality(DOMAIN scores) = Size(heap)

HeapInsert(k, s) ==
    /\ heap' = Insert(heap, k, s)
    /\ scores' = IF k \in DOMAIN scores THEN scores ELSE Set(scores, k, s)

HeapPop ==
    /\ heap' = Pop(heap)
    /\ scores' = IF Size(heap) = 0 THEN scores ELSE Without(scores, Top(heap)[1])

\* erase sifts the last place up even when it was just removed: the stale
\* score is compared with its parent's, and an equal one swaps with nothing.
EqualsParent(h, k) == LET i == h.idx[k]
                      IN i = Size(h) /\ i > 1 /\ ScoreAt(h, Parent(i)) = ScoreAt(h, i)

HeapErase(k) ==
    /\ "tie" \in HeapAvoids /\ k \in DOMAIN scores => ~EqualsParent(heap, k)
    /\ heap' = Erase(heap, k)
    /\ scores' = Without(scores, k)

HeapChangeScore(k, s) ==
    /\ heap' = ChangeScore(heap, k, s)
    /\ scores' = Set(scores, k, s)

HeapNext ==
    /\ heap.ok
    /\ \/ \E k \in HeapKeys, s \in Scores : HeapInsert(k, s)
       \/ HeapPop
       \/ \E k \in HeapKeys : HeapErase(k)
       \/ \E k \in HeapKeys, s \in Scores : HeapChangeScore(k, s)

-----------------------------------------------------------------------------
(* Properties *)

\* After every insertion, erasure, change of score and pop the elements are
\* the keys put in with their last scores, the index finds each where it is,
\* no parent's score exceeds its child's, so that top is a minimum, and
\* heapified() says so where scores are distinct.  MinHeap.h:13 allows equal
\* scores, and so does this; only erasing the last element where its parent has
\* its score, and keys given twice, are left out (HeapAvoids).
HeapAgrees ==
    /\ heap.ok
    /\ ToSet(heap.e) = {<<k, scores[k]>> : k \in DOMAIN scores}
    /\ Size(heap) = Cardinality(DOMAIN scores)
    /\ heap.idx = BuildIndex(heap.e)
    /\ \A i \in 2 .. Size(heap) : ScoreAt(heap, Parent(i)) =< ScoreAt(heap, i)
    /\ \A k \in DOMAIN scores : Top(heap)[2] =< scores[k]
    /\ Size(heap) > 0 /\ IsInjective(scores) => MinHeapPropertyKept(heap)

=============================================================================

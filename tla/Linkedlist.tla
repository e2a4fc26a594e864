----------------------------- MODULE Linkedlist -----------------------------
(***************************************************************************)
(* The doubly linked list: two lists that exchange nodes.  A list is the   *)
(* ring through its sentinel; list memory maps each live node to its       *)
(* links.  A node is named by its value (10 * value + i for the i-th of    *)
(* equal ones), a sentinel by a number below 10.  Access through a freed   *)
(* pointer makes the memory not ok.                                        *)
(***************************************************************************)
EXTENDS Integers, Sequences, SequencesExt, FiniteSets

CONSTANTS ListValues,   \* positive numbers
          MostNodes     \* bound: nodes in the two lists together

VARIABLES lists,        \* [m: the memory, ok]
          sequences     \* what each list should hold, by its sentinel

listVars == <<lists, sequences>>

A == 1
B == 2
Wild == -1

ValueOf(x) == x \div 10
At(s, x, f) == IF x \in DOMAIN s.m THEN s.m[x][f] ELSE Wild
Store(s, x, f, y) == IF x \in DOMAIN s.m THEN [s EXCEPT !.m[x][f] = y] ELSE [s EXCEPT !.ok = FALSE]

GetNode(s, x) == [s EXCEPT !.m = [y \in DOMAIN @ \cup {x} |->
                                     IF y = x THEN [prev |-> x, next |-> x] ELSE @[y]]]
PutNode(s, x) == [s EXCEPT !.m = [y \in DOMAIN @ \ {x} |-> @[y]]]

Begin(s, l) == At(s, l, "next")

\* As many turns as there are nodes end any loop over a list.
Turns(s) == Cardinality(DOMAIN s.m)

\* The node that an iterator reaches from begin in so many steps, and how
\* many steps it is to the end.
Advanced(s, l) == LET at[n \in 0 .. Turns(s)] == IF n = 0 THEN Begin(s, l) ELSE At(s, at[n - 1], "next") IN at
Size(s, l) == CHOOSE n \in 0 .. Turns(s) :
                /\ Advanced(s, l)[n] = l
                /\ \A k \in 0 .. n - 1 : Advanced(s, l)[k] # l
Short(s, l) == l \in {Begin(s, l), At(s, Begin(s, l), "next")}

Insert(s, position, node) ==
    LET made == GetNode(s, node)
        w1 == Store(Store(made, node, "next", position), node, "prev", At(s, position, "prev"))
        w2 == Store(w1, At(w1, node, "prev"), "next", node)
    IN Store(w2, position, "prev", node)

Erase(s, x) ==
    LET w1 == Store(s, At(s, x, "prev"), "next", At(s, x, "next"))
    IN PutNode(Store(w1, At(w1, x, "next"), "prev", At(w1, x, "prev")), x)

\* clear, remove, remove_if: the iterator moves on before its node goes.
RemoveTurn(c, l, unwanted) ==
    IF c.iter = l THEN c
    ELSE [s |-> IF ValueOf(c.iter) \in unwanted THEN Erase(c.s, c.iter) ELSE c.s,
          iter |-> At(c.s, c.iter, "next")]
RemoveIf(s, l, unwanted) ==
    LET turn[n \in 0 .. Turns(s)] == IF n = 0 THEN [s |-> s, iter |-> Begin(s, l)]
                                     ELSE RemoveTurn(turn[n - 1], l, unwanted)
    IN turn[Turns(s)].s

\* The first element of an empty list is read too, and never looked at.
UniqueTurn(c, l) ==
    IF c.iter = l THEN c
    ELSE [s |-> IF ValueOf(c.iter) = c.value THEN Erase(c.s, c.iter) ELSE c.s,
          iter |-> At(c.s, c.iter, "next"),
          value |-> ValueOf(c.iter)]
Unique(s, l) ==
    LET first == Begin(s, l)
        turn[n \in 0 .. Turns(s)] == IF n = 0 THEN [s |-> s, iter |-> At(s, first, "next"), value |-> ValueOf(first)]
                                     ELSE UniqueTurn(turn[n - 1], l)
    IN turn[Turns(s)].s

\* The six stores, each reading what the ones before it left.
Transfer(s, position, first, last) ==
    LET w1 == Store(s, At(s, last, "prev"), "next", position)
        w2 == Store(w1, At(w1, first, "prev"), "next", last)
        w3 == Store(w2, At(w2, position, "prev"), "next", first)
        w4 == Store(w3, position, "prev", At(w3, last, "prev"))
        w5 == Store(w4, last, "prev", At(w4, first, "prev"))
    IN IF position = last \/ first = last THEN s
       ELSE Store(w5, first, "prev", At(w3, position, "prev"))

Splice(s, position, x) == Transfer(s, position, Begin(s, x), x)
SpliceOne(s, position, i) ==
    IF position \in {i, At(s, i, "next")} THEN s ELSE Transfer(s, position, i, At(s, i, "next"))
SpliceRange(s, position, first, last) ==
    IF first # last THEN Transfer(s, position, first, last) ELSE s

ReverseTurn(s, first, last) ==
    IF At(s, first, "next") = last THEN s ELSE Transfer(s, first, At(s, last, "prev"), last)
ReverseRange(s, first, last) ==
    LET turn[n \in 0 .. Turns(s)] == IF n = 0 THEN s ELSE ReverseTurn(turn[n - 1], first, last)
    IN turn[Turns(s)]

ReverseList(s, l) == IF Short(s, l) THEN s ELSE ReverseRange(s, Begin(s, l), l)

Rotate(s, l, k) ==
    LET turn == k % Size(s, l)
    IN IF turn = 0 THEN s
       ELSE Transfer(s, Begin(s, l), Advanced(s, l)[Size(s, l) - turn], l)

MergeTurn(c, l, x) ==
    IF c.first1 = l \/ c.first2 = x THEN c
    ELSE IF ValueOf(c.first1) =< ValueOf(c.first2) THEN [c EXCEPT !.first1 = At(c.s, c.first1, "next")]
    ELSE [c EXCEPT !.s = Transfer(c.s, c.first1, c.first2, At(c.s, c.first2, "next")),
                   !.first2 = At(c.s, c.first2, "next")]
Merge(s, l, x) ==
    LET turn[n \in 0 .. Turns(s)] == IF n = 0 THEN [s |-> s, first1 |-> Begin(s, l), first2 |-> Begin(s, x)]
                                     ELSE MergeTurn(turn[n - 1], l, x)
        end == turn[Turns(s)]
    IN IF end.first2 = x THEN end.s ELSE Transfer(end.s, l, end.first2, x)

\* All but the first element to the end of one of two other lists.
SplitTurn(c, l, left, right) ==
    IF c.iter = l THEN c
    ELSE LET side == IF ValueOf(c.iter) < ValueOf(Begin(c.s, l)) THEN left ELSE right
         IN [s |-> SpliceRange(c.s, side, c.iter, At(c.s, c.iter, "next")),
             iter |-> At(c.s, c.iter, "next")]
Split(s, l, left, right) ==
    LET turn[n \in 0 .. Turns(s)] == IF n = 0 THEN [s |-> s, iter |-> At(s, Begin(s, l), "next")]
                                     ELSE SplitTurn(turn[n - 1], l, left, right)
    IN turn[Turns(s)].s

\* Quicksort, through two lists of its own in every call; calls has what is
\* left of the calls of sort, the innermost first: a list to be sorted, or,
\* when it was split and its parts are sorted, to be put together again.
Left(depth) == -2 * depth
Right(depth) == -2 * depth - 1
Call(l, depth, split) == [list |-> l, depth |-> depth, split |-> split]
Halves(l, depth) == <<Call(Left(depth), depth + 1, FALSE), Call(Right(depth), depth + 1, FALSE),
                      Call(l, depth, TRUE)>>
Joined(s, l, left, right) ==
    PutNode(PutNode(Splice(Merge(s, l, left), l, right), right), left)
SortTurn(c) ==
    IF c.calls = <<>> THEN c
    ELSE LET l == Head(c.calls).list
             depth == Head(c.calls).depth
             left == Left(depth)
             right == Right(depth)
         IN IF Head(c.calls).split
            THEN [s |-> Joined(c.s, l, left, right), calls |-> Tail(c.calls)]
            ELSE IF Short(c.s, l) THEN [s |-> c.s, calls |-> Tail(c.calls)]
            ELSE [s |-> Split(GetNode(GetNode(c.s, left), right), l, left, right),
                  calls |-> Halves(l, depth) \o Tail(c.calls)]
\* Three turns for every element are enough, and one for the empty list.
Sort(s, l) ==
    LET turn[n \in 0 .. 3 * Turns(s)] == IF n = 0 THEN [s |-> s, calls |-> <<Call(l, 1, FALSE)>>]
                                         ELSE SortTurn(turn[n - 1])
    IN turn[3 * Turns(s)].s

-----------------------------------------------------------------------------
(* The operations, with what each should do to the sequences; a place in a  *)
(* list is a number, its end one more than its length                       *)

Nodes == ToSet(sequences[A]) \cup ToSet(sequences[B])
NodeIn(q, l, i) == IF i \in DOMAIN q THEN q[i] ELSE l
NodeAt(l, i) == NodeIn(sequences[l], l, i)
Places(l) == 1 .. Len(sequences[l]) + 1

\* q with the sequence run put before place i, and without the places from
\* i up to j.
PutBefore(q, i, run) == SubSeq(q, 1, i - 1) \o run \o SubSeq(q, i, Len(q))
Without(q, i, j) == SubSeq(q, 1, i - 1) \o SubSeq(q, j, Len(q))

Dropping(q, gone) ==
    LET kept[i \in 0 .. Len(q)] == IF i = 0 THEN <<>>
                                   ELSE IF q[i] \in gone THEN kept[i - 1] ELSE Append(kept[i - 1], q[i])
    IN kept[Len(q)]

Ordered(q) == \A i, j \in DOMAIN q : i < j => ValueOf(q[i]) =< ValueOf(q[j])

\* Equal values keep their order.
Precedes(q, x, y) == \E i, j \in DOMAIN q : i < j /\ q[i] = x /\ q[j] = y
Sooner(q, x, y) == \/ ValueOf(x) < ValueOf(y)
                   \/ ValueOf(x) = ValueOf(y) /\ Precedes(q, x, y)
IsSorting(q, r) ==
    /\ ToSet(r) = ToSet(q)
    /\ IsInjective(r)
    /\ \A i, j \in DOMAIN r : i < j => Sooner(q, r[i], r[j])
StablySorted(q) == CHOOSE r \in [DOMAIN q -> ToSet(q)] : IsSorting(q, r)

ListInit ==
    /\ lists = [m |-> [l \in {A, B} |-> [prev |-> l, next |-> l]], ok |-> TRUE]
    /\ sequences = [l \in {A, B} |-> <<>>]

\* Of the free nodes for a value the first is taken.
ListNodes == {10 * v + i : v \in ListValues, i \in 0 .. MostNodes - 1}
ListInsert(l, i, x) ==
    /\ x \notin Nodes
    /\ \A y \in ListNodes : y < x /\ ValueOf(y) = ValueOf(x) => y \in Nodes
    /\ Cardinality(Nodes) < MostNodes
    /\ lists' = Insert(lists, NodeAt(l, i), x)
    /\ sequences' = [sequences EXCEPT ![l] = PutBefore(@, i, <<x>>)]

ListErase(l, i) ==
    /\ lists' = Erase(lists, NodeAt(l, i))
    /\ sequences' = [sequences EXCEPT ![l] = Without(@, i, i + 1)]

\* clear is the removal of every value, remove that of one.
ListRemoveIf(l, unwanted) ==
    /\ lists' = RemoveIf(lists, l, unwanted)
    /\ sequences' = [sequences EXCEPT ![l] = Dropping(@, {x \in ToSet(@) : ValueOf(x) \in unwanted})]

ListUnique(l) ==
    /\ lists' = Unique(lists, l)
    /\ sequences' = [sequences EXCEPT ![l] =
                        Dropping(@, {@[i] : i \in {j \in 2 .. Len(@) : ValueOf(@[j]) = ValueOf(@[j - 1])}})]

\* What lies from i up to j in one list goes before place k, of the same
\* list or of another.
Moved(from, i, j, l, k) ==
    LET run == SubSeq(sequences[from], i, j - 1)
        without == [sequences EXCEPT ![from] = Without(@, i, j)]
    IN [without EXCEPT ![l] = PutBefore(@, IF from = l /\ k >= j THEN k - (j - i) ELSE k, run)]

ListSplice(k) ==
    /\ lists' = Splice(lists, NodeAt(A, k), B)
    /\ sequences' = Moved(B, 1, Len(sequences[B]) + 1, A, k)

ListSpliceOne(from, i, k) ==
    /\ lists' = SpliceOne(lists, NodeAt(A, k), NodeAt(from, i))
    /\ sequences' = IF from = A /\ k = i THEN sequences ELSE Moved(from, i, i + 1, A, k)

ListSpliceRange(from, i, j, k) ==
    /\ i =< j
    /\ from = A => k < i \/ k >= j
    /\ lists' = SpliceRange(lists, NodeAt(A, k), NodeAt(from, i), NodeAt(from, j))
    /\ sequences' = Moved(from, i, j, A, k)

ListReverse(l) ==
    /\ lists' = ReverseList(lists, l)
    /\ sequences' = [sequences EXCEPT ![l] = Reverse(@)]

\* An empty range is not reversed: the loop would run out of it.
ListReverseRange(l, i, j) ==
    /\ i < j
    /\ lists' = ReverseRange(lists, NodeAt(l, i), NodeAt(l, j))
    /\ sequences' = [sequences EXCEPT ![l] =
                        SubSeq(@, 1, i - 1) \o Reverse(SubSeq(@, i, j - 1)) \o SubSeq(@, j, Len(@))]

\* rotate of an empty list divides by zero.
ListRotate(l, k) ==
    /\ sequences[l] # <<>>
    /\ lists' = Rotate(lists, l, k)
    /\ sequences' = [sequences EXCEPT ![l] =
                        [i \in DOMAIN @ |-> @[((i - 1 - k) % Len(@)) + 1]]]

ListMerge ==
    /\ Ordered(sequences[A]) /\ Ordered(sequences[B])
    /\ lists' = Merge(lists, A, B)
    /\ sequences' = [sequences EXCEPT ![A] = StablySorted(@ \o sequences[B]), ![B] = <<>>]

ListSort(l) ==
    /\ lists' = Sort(lists, l)
    /\ sequences' = [sequences EXCEPT ![l] = StablySorted(@)]

ListNext ==
    /\ lists.ok
    /\ \/ \E l \in {A, B} :
            \/ \E i \in Places(l), x \in ListNodes : ListInsert(l, i, x)
            \/ \E i \in DOMAIN sequences[l] : ListErase(l, i)
            \/ \E unwanted \in SUBSET ListValues : ListRemoveIf(l, unwanted)
            \/ ListUnique(l)
            \/ ListReverse(l)
            \/ \E i, j \in Places(l) : ListReverseRange(l, i, j)
            \/ \E k \in 1 .. MostNodes + 1 : ListRotate(l, k)
            \/ ListSort(l)
       \/ \E k \in Places(A) : ListSplice(k)
       \/ \E from \in {A, B}, k \in Places(A) :
            \/ \E i \in DOMAIN sequences[from] : ListSpliceOne(from, i, k)
            \/ \E i, j \in Places(from) : ListSpliceRange(from, i, j, k)
       \/ ListMerge

-----------------------------------------------------------------------------
(* Properties *)

\* Whatever was inserted, moved, reversed, rotated, merged and sorted, both
\* lists hold the right nodes in the right order, read forwards and
\* backwards, and no node belongs to no list.
ListsAgree ==
    /\ lists.ok
    /\ DOMAIN lists.m = Nodes \cup {A, B}
    /\ \A l \in {A, B} : \A i \in 0 .. Len(sequences[l]) :
         /\ lists.m[NodeAt(l, i)].next = NodeAt(l, i + 1)
         /\ lists.m[NodeAt(l, i + 1)].prev = NodeAt(l, i)

=============================================================================

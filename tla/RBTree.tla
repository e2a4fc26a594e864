------------------------------- MODULE RBTree -------------------------------
(***************************************************************************)
(* The red-black tree behind Map and Set.  A tree is the memory it lives   *)
(* in: for every live node its links and its colour.  The header is a node *)
(* too: its parent is the root, its left and right are the first and the   *)
(* last node.  A node is named by the key it holds (10 * key + i for the   *)
(* i-th of equal keys); Map's mapped value travels with its node.          *)
(*                                                                         *)
(* A read through a null or freed pointer gives Wild; a store through one, *)
(* or a failed assertion, makes the tree not ok, and nothing is called on  *)
(* it again.  The nodes that emplaceUnique leaks when it inserts nothing   *)
(* are left out.  The constructors, insert and emplace of a range are      *)
(* insertUnique repeated.                                                  *)
(***************************************************************************)
EXTENDS Integers, Sequences, SequencesExt, FiniteSets

CONSTANTS LastKey,      \* keys are 1 .. LastKey
          EqualKeys,    \* keys that insertEqual inserts
          Copies,       \* bound: equal keys in a tree
          TreeAvoids    \* erasures the callers do not ask for, see Erasable

TreeKeys == 1 .. LastKey

VARIABLES tree,         \* the tree
          contents      \* how often each key was put in and not taken out

treeVars == <<tree, contents>>

-----------------------------------------------------------------------------
(* Memory *)

Header == 0
Null == -1
Wild == -2
Red == 1
Black == 2

KeyOf(x) == x \div 10
Fail(t) == [t EXCEPT !.ok = FALSE]
Require(t, condition) == IF condition THEN t ELSE Fail(t)

\* The field f (l, r, p or c) of the node x.
At(t, x, f) == IF x \in DOMAIN t.m THEN t.m[x][f] ELSE Wild
Color(t, x) == At(t, x, "c")

\* Stores performed in order: <<node, field, value>> each.
Store(t, writes) ==
    FoldLeft(LAMBDA s, w : IF w[1] \in DOMAIN s.m
                           THEN [s EXCEPT !.m[w[1]][w[2]] = w[3]]
                           ELSE Fail(s),
             t, writes)

\* createNode does not initialise links and colour.
NewNode(t, k) == CHOOSE x \in {10 * k + i : i \in 1 .. Copies} :
                    /\ x \notin DOMAIN t.m
                    /\ \A i \in 1 .. Copies : 10 * k + i < x => 10 * k + i \in DOMAIN t.m
CreateNode(t, k) ==
    [t EXCEPT !.m = [x \in DOMAIN @ \cup {NewNode(t, k)} |->
                        IF x \in DOMAIN @ THEN @[x]
                        ELSE [l |-> Wild, r |-> Wild, p |-> Wild, c |-> Wild]]]

\* Freed: whatever still points to x is wild from now on.
DestroyNode(t, x) ==
    [t EXCEPT !.m = [y \in DOMAIN @ \ {x} |->
                        [f \in DOMAIN @[y] |-> IF @[y][f] = x THEN Wild ELSE @[y][f]]]]

Root(t) == At(t, Header, "p")
Leftmost(t) == At(t, Header, "l")
Rightmost(t) == At(t, Header, "r")

\* init, and what the destructor or a move leaves behind.
EmptyTree == [m |-> (Header :> [l |-> Header, r |-> Header, p |-> Null, c |-> Red]),
              n |-> 0, ok |-> TRUE]
MovedFrom == [m |-> <<>>, n |-> 0, ok |-> TRUE]

-----------------------------------------------------------------------------
(* Walking *)

\* minnode (f = "l") and maxnode (f = "r").
RECURSIVE EndNode(_, _, _)
EndNode(t, x, f) ==
    CASE At(t, x, f) = Null -> x
      [] At(t, x, f) = Wild -> Wild
      [] OTHER -> EndNode(t, At(t, x, f), f)

RECURSIVE Climb(_, _, _, _)
Climb(t, x, p, f) ==
    IF x # Wild /\ p # Wild /\ x = At(t, p, f) THEN Climb(t, p, At(t, p, "p"), f)
                                               ELSE <<x, p>>

Increment(t, x) ==
    IF At(t, x, "r") # Null THEN EndNode(t, At(t, x, "r"), "l")
    ELSE LET climbed == Climb(t, x, At(t, x, "p"), "r")
         IN IF At(t, climbed[1], "r") # climbed[2] THEN climbed[2] ELSE climbed[1]

Decrement(t, x) ==
    CASE Color(t, x) = Red /\ At(t, At(t, x, "p"), "p") = x -> At(t, x, "r")
      [] At(t, x, "l") # Null -> EndNode(t, At(t, x, "l"), "r")
      [] OTHER -> Climb(t, x, At(t, x, "p"), "l")[2]

\* The search of find and of the bounds: <<last node before cur, cur>>.
RECURSIVE Search(_, _, _, _)
Search(t, k, par, cur) ==
    IF cur \in {Null, Wild} \/ KeyOf(cur) = k THEN <<par, cur>>
    ELSE Search(t, k, cur, At(t, cur, IF k < KeyOf(cur) THEN "l" ELSE "r"))
Found(t, k) == Search(t, k, Header, Root(t))

Find(t, k) == IF Found(t, k)[2] # Null THEN Found(t, k)[2] ELSE Header

LowerBound(t, k) ==
    LET par == Found(t, k)[1]
        cur == Found(t, k)[2]
    IN CASE cur # Null -> cur
         [] cur = Null /\ par = Header -> Header
         [] OTHER -> IF KeyOf(par) < k THEN Increment(t, par) ELSE par

\* while (!_comparator(key_, key(iter))) ++iter: nothing stops it at the
\* header, whose key was never constructed.
RECURSIVE Beyond(_, _, _)
Beyond(t, k, x) ==
    CASE x \in {Header, Wild} -> Wild
      [] k < KeyOf(x) -> x
      [] OTHER -> Beyond(t, k, Increment(t, x))

UpperBound(t, k) ==
    LET par == Found(t, k)[1]
        cur == Found(t, k)[2]
    IN CASE cur # Null -> Beyond(t, k, cur)
         [] cur = Null /\ par = Header -> Header
         [] OTHER -> Beyond(t, k, par)

EqualRange(t, k) ==
    LET par == Found(t, k)[1]
        cur == Found(t, k)[2]
    IN CASE cur # Null -> <<cur, Beyond(t, k, cur)>>
         [] cur = Null /\ par = Header -> <<Header, Header>>
         [] OTHER -> <<Beyond(t, k, par), Beyond(t, k, par)>>

-----------------------------------------------------------------------------
(* Insertion *)

Mirror(side) == IF side = "l" THEN "r" ELSE "l"

\* Mutant of Rotate: the inner subtree keeps its old parent.
RotateOrphans(t, x, side) ==
    LET par == At(t, x, "p")
        top == At(t, x, Mirror(side))
        link == IF x = Root(t) THEN <<Header, "p", top>>
                ELSE <<par, IF x = At(t, par, "l") THEN "l" ELSE "r", top>>
    IN Store(t, <<<<x, Mirror(side), At(t, top, side)>>, <<x, "p", top>>,
                  <<top, side, x>>, <<top, "p", par>>, link>>)

\* leftRotate (side = "l") and rightRotate (side = "r"): x goes down on side.
Rotate(t, x, side) ==
    LET par == At(t, x, "p")
        top == At(t, x, Mirror(side))
        inner == At(t, top, side)
        link == IF x = Root(t) THEN <<Header, "p", top>>
                ELSE <<par, IF x = At(t, par, "l") THEN "l" ELSE "r", top>>
    IN Store(t, <<<<x, Mirror(side), inner>>>>
                \o (IF inner # Null THEN <<<<inner, "p", x>>>> ELSE <<>>)
                \o <<<<x, "p", top>>, <<top, side, x>>, <<top, "p", par>>, link>>)

\* The mirrored case asks whether x is grandpa's left child, which it never
\* is: the loop then comes round again with the red grandpa below.
RECURSIVE FixReds(_, _)
FixReds(t, x) ==
    LET par == At(t, x, "p")
        grandpa == At(t, par, "p")
        side == IF par = At(t, grandpa, "l") THEN "l" ELSE "r"
        uncle == At(t, grandpa, Mirror(side))
        inner == IF side = "l" THEN x = At(t, par, "r") ELSE x = At(t, grandpa, "l")
        turned == IF inner THEN Rotate(t, par, side) ELSE t
        below == IF inner THEN par ELSE x
    IN CASE x = Root(t) \/ Color(t, par) # Red -> Store(t, <<<<Root(t), "c", Black>>>>)
         [] uncle = Null \/ Color(t, uncle) = Black ->
                FixReds(Rotate(Store(turned, <<<<At(turned, below, "p"), "c", Black>>,
                                               <<grandpa, "c", Red>>>>),
                               grandpa, Mirror(side)),
                        below)
         [] OTHER -> FixReds(Store(t, <<<<par, "c", Black>>, <<uncle, "c", Black>>,
                                        <<grandpa, "c", Red>>>>),
                             grandpa)

Rebalance(t, x) == FixReds(Store(t, <<<<x, "c", Red>>>>), x)

InsertNode(t, par, x) ==
    LET side == IF KeyOf(x) < KeyOf(par) THEN "l" ELSE "r"
        links == IF par = Header
                 THEN <<<<Header, "l", x>>, <<Header, "r", x>>, <<Header, "p", x>>>>
                 ELSE <<<<par, side, x>>>>
                      \o (IF par = At(t, Header, side) THEN <<<<Header, side, x>>>> ELSE <<>>)
        linked == Store(t, links \o <<<<x, "l", Null>>, <<x, "r", Null>>, <<x, "p", par>>>>)
    IN [Rebalance(linked, x) EXCEPT !.n = @ + 1]

Insert(t, par, k) == InsertNode(CreateNode(t, k), par, NewNode(t, k))

\* Where a key equal to k or a new k goes: right of what is not greater.
RECURSIVE Descend(_, _, _, _)
Descend(t, k, par, cur) ==
    IF cur \in {Null, Wild} THEN par
    ELSE Descend(t, k, cur, At(t, cur, IF k < KeyOf(cur) THEN "l" ELSE "r"))

InsertEqual(t, k) == Insert(t, Descend(t, k, Header, Root(t)), k)

\* <<tree, iterator, inserted>>
EmplaceUnique(t, k) ==
    LET par == Descend(t, k, Header, Root(t))
        comp == par = Header \/ k < KeyOf(par)
        it == IF comp /\ par # Leftmost(t) THEN Decrement(t, par) ELSE par
        inserted == <<Insert(t, par, k), NewNode(t, k), TRUE>>
    IN CASE comp /\ par = Leftmost(t) -> inserted
         [] it \notin DOMAIN t.m -> <<Fail(t), Wild, FALSE>>
         [] OTHER -> IF KeyOf(it) < k THEN inserted ELSE <<t, it, FALSE>>

\* emplaceUnique with a hint: <<tree, iterator>>.
EmplaceHint(t, hint, k) ==
    LET before == Decrement(t, hint)
        at == CASE hint = Leftmost(t) -> IF t.n > 0 /\ k < KeyOf(hint) THEN hint ELSE Null
                [] hint # Leftmost(t) /\ hint = Header ->
                        IF t.n > 0 /\ KeyOf(Rightmost(t)) < k THEN Rightmost(t) ELSE Null
                [] OTHER -> IF KeyOf(before) < k /\ k < KeyOf(hint)
                            THEN (IF At(t, before, "r") = Null THEN before ELSE hint)
                            ELSE Null
    IN IF at # Null THEN <<Insert(t, at, k), NewNode(t, k)>>
       ELSE <<EmplaceUnique(t, k)[1], EmplaceUnique(t, k)[2]>>

-----------------------------------------------------------------------------
(* Erasure *)

Sibling(t, x, par) == IF x = At(t, par, "l") THEN At(t, par, "r") ELSE At(t, par, "l")
BlackOrNull(t, x) == x = Null \/ Color(t, x) = Black
BlackNephews(t, s) == BlackOrNull(t, At(t, s, "l")) /\ BlackOrNull(t, At(t, s, "r"))

\* Where node x is black and was taken out, its child (perhaps Null) is a
\* black short.  As in the code, case 2 always rotates to the left, and on
\* the right side case 6 asserts the colour of the other nephew.
EraseCase6(t, x, par) ==
    LET s == Sibling(t, x, par)
        side == IF x = At(t, par, "l") THEN "l" ELSE "r"
        nephew == At(t, s, Mirror(side))
        checked == Require(t, /\ s # Null
                              /\ Color(t, s) = Black
                              /\ nephew # Null => Color(t, At(t, s, "r")) = Red)
    IN Rotate(Store(checked, <<<<s, "c", Color(t, par)>>, <<par, "c", Black>>>>
                             \o (IF nephew # Null THEN <<<<nephew, "c", Black>>>> ELSE <<>>)),
              par, side)

EraseCase5(t, x, par) ==
    LET s == Sibling(t, x, par)
        side == IF x = At(t, par, "l") THEN "l" ELSE "r"
        near == At(t, s, side)
    IN IF /\ Color(t, s) = Black
          /\ near # Null /\ Color(t, near) = Red
          /\ BlackOrNull(t, At(t, s, Mirror(side)))
       THEN EraseCase6(Store(Rotate(t, s, Mirror(side)),
                             <<<<s, "c", Red>>, <<near, "c", Black>>>>), x, par)
       ELSE EraseCase6(t, x, par)

EraseCase4(t, x, par) ==
    LET s == Sibling(t, x, par)
    IN IF Color(t, par) = Red /\ Color(t, s) = Black /\ BlackNephews(t, s)
       THEN Store(t, <<<<par, "c", Black>>, <<s, "c", Red>>>>)
       ELSE EraseCase5(t, x, par)

RECURSIVE EraseCase1(_, _, _)

EraseCase3(t, x, par) ==
    LET s == Sibling(t, x, par)
    IN IF Color(t, par) = Black /\ Color(t, s) = Black /\ BlackNephews(t, s)
       THEN EraseCase1(Store(t, <<<<s, "c", Red>>>>), par, At(t, par, "p"))
       ELSE EraseCase4(t, x, par)

EraseCase2(t, x, par) ==
    LET s == Sibling(t, x, par)
    IN IF Color(t, s) # Red THEN EraseCase3(Require(t, s # Null), x, par)
       ELSE EraseCase3(Rotate(Store(Require(t, Color(t, par) = Black),
                                    <<<<s, "c", Black>>, <<par, "c", Red>>>>), par, "l"),
                       x, par)

EraseCase1(t, x, par) ==
    CASE ~t.ok -> t
      [] t.ok /\ par = Header -> Require(t, BlackOrNull(t, x))
      [] OTHER -> EraseCase2(t, x, par)

\* The child takes the place of par below grandpa.  For the root, the first
\* and the last node are left as they are.
SwitchNode(t, par, child) ==
    LET grandpa == At(t, par, "p")
        end(f) == IF child = Null THEN grandpa ELSE EndNode(t, child, f)
        side == CASE par = At(t, grandpa, "l") -> <<<<grandpa, "l", child>>>>
                  [] par # At(t, grandpa, "l") /\ par = At(t, grandpa, "r") ->
                        <<<<grandpa, "r", child>>>>
                  [] OTHER -> <<>>
        up == IF par = At(t, grandpa, "p") THEN <<<<grandpa, "p", child>>>>
              ELSE (IF par = Leftmost(t) THEN <<<<Header, "l", end("l")>>>> ELSE <<>>)
                   \o (IF par = Rightmost(t) THEN <<<<Header, "r", end("r")>>>> ELSE <<>>)
    IN Store(t, side \o up \o (IF child # Null THEN <<<<child, "p", grandpa>>>> ELSE <<>>))

EraseOneChild(t, x) ==
    LET child == IF At(t, x, "l") # Null THEN At(t, x, "l") ELSE At(t, x, "r")
        switched == SwitchNode(t, x, child)
        fixed == CASE Color(t, x) = Red -> switched
                   [] Color(t, x) # Red /\ child # Null /\ Color(t, child) = Red ->
                        Store(switched, <<<<child, "c", Black>>>>)
                   [] OTHER -> EraseCase1(switched, child, At(t, x, "p"))
    IN [DestroyNode(fixed, x) EXCEPT !.n = @ - 1]

\* Exchanges the links of two nodes, not those of their neighbours; the last
\* of the header's links is what the code writes.
SwapNode(t, a, b) ==
    LET isRoot(y) == At(t, At(t, y, "p"), "p") = y
        moved(y, z) == \* y takes the links of z
            LET got(f) == IF At(t, z, f) = y THEN z ELSE At(t, z, f)
            IN <<<<y, "l", got("l")>>, <<y, "r", got("r")>>, <<y, "p", got("p")>>,
                 <<y, "c", Color(t, z)>>>>
        when(c, w) == IF c THEN <<w>> ELSE <<>>
    IN Store(t, moved(a, b) \o moved(b, a)
                \o when(isRoot(a), <<Header, "p", b>>)
                \o when(isRoot(b), <<Header, "p", a>>)
                \o when(Leftmost(t) = a, <<Header, "l", b>>)
                \o when(Rightmost(t) = a, <<Header, "r", b>>)
                \o when(Leftmost(t) = b, <<Header, "l", a>>)
                \o when(Leftmost(t) = b, <<Header, "r", b>>))

TwoChildren(t, x) == At(t, x, "l") # Null /\ At(t, x, "r") # Null

\* erase(iterator): <<tree, next>>.
Erase(t, x) ==
    LET next == Increment(t, x)
    IN <<EraseOneChild(IF TwoChildren(t, x) THEN SwapNode(t, x, next) ELSE t, x), next>>

EraseKey(t, k) == IF Find(t, k) # Header THEN Erase(t, Find(t, k))[1] ELSE t

-----------------------------------------------------------------------------
(* Whole trees *)

\* clear destroys the nodes one by one; they all go.
ClearTree(t) == IF t.m = MovedFrom.m THEN t ELSE EmptyTree

RECURSIVE EraseRange(_, _, _)
EraseRange(t, first, last) ==
    IF first = last \/ ~t.ok THEN t ELSE EraseRange(Erase(t, first)[1], Erase(t, first)[2], last)
EraseFromTo(t, first, last) ==
    IF first = Leftmost(t) /\ last = Header THEN ClearTree(t) ELSE EraseRange(t, first, last)

\* copy: the nodes of the copy of the subtree at cur, whose parent is par.
RECURSIVE CopyNodes(_, _, _)
CopyNodes(t, cur, par) ==
    IF cur \in {Null, Wild} THEN <<>>
    ELSE (cur :> [l |-> At(t, cur, "l"), r |-> At(t, cur, "r"), p |-> par, c |-> Color(t, cur)])
         @@ CopyNodes(t, At(t, cur, "l"), cur) @@ CopyNodes(t, At(t, cur, "r"), cur)

CopyTree(t) ==
    LET root == IF t.n = 0 THEN Null ELSE Root(t)
        nodes == (Header :> [EmptyTree.m[Header] EXCEPT !.p = root]) @@ CopyNodes(t, root, Header)
        copy == [m |-> nodes, n |-> t.n, ok |-> t.ok]
    IN IF root = Null THEN copy
       ELSE Store(copy, <<<<Header, "l", EndNode(copy, root, "l")>>,
                          <<Header, "r", EndNode(copy, root, "r")>>>>)

Swap(pair) == <<pair[2], pair[1]>>
CopyAssign(self, rhs) == Swap(<<self, CopyTree(rhs)>>)[1]

\* Moving: <<new tree, what is left of rhs>>.
MoveConstruct(rhs) == <<rhs, MovedFrom>>
MoveAssign(self, rhs) ==
    LET tmp == MoveConstruct(rhs) IN <<Swap(<<self, tmp[1]>>)[1], tmp[2]>>

-----------------------------------------------------------------------------
(* rbPropertyKept *)

RECURSIVE BlackDepths(_, _, _)
BlackDepths(t, x, depth) ==
    LET d == IF Color(t, x) = Black THEN depth + 1 ELSE depth
    IN CASE x \notin DOMAIN t.m -> {}
         [] At(t, x, "l") = Null /\ At(t, x, "r") = Null -> {d}
         [] OTHER -> BlackDepths(t, At(t, x, "l"), d) \cup BlackDepths(t, At(t, x, "r"), d)

NoConsecutiveReds(t) ==
    \A x \in DOMAIN t.m \ {Header} :
        Color(t, x) = Red => BlackOrNull(t, At(t, x, "l")) /\ BlackOrNull(t, At(t, x, "r"))

RbPropertyKept(t) ==
    \/ t.m = MovedFrom.m /\ t.n = 0
    \/ /\ t.m # MovedFrom.m
       /\ IF Root(t) = Null THEN Leftmost(t) = Header /\ Rightmost(t) = Header
          ELSE /\ Leftmost(t) = EndNode(t, Root(t), "l")
               /\ Rightmost(t) = EndNode(t, Root(t), "r")
               /\ Color(t, Root(t)) = Black
       /\ Color(t, Header) = Red
       /\ Cardinality(BlackDepths(t, Root(t), 0)) =< 1
       /\ NoConsecutiveReds(t)

-----------------------------------------------------------------------------
(* The operations of Map (and Set), and insertEqual *)

Nodes(t) == DOMAIN t.m \ {Header}

\* Erasures the callers may keep from, by what they know of the elements: of
\* any but the first (one with two children leaves its neighbours pointing at
\* it, SwapNode, and rebalancing goes wrong on a right side, EraseCase2 and
\* EraseCase6), and of the only one (SwitchNode leaves the header pointing
\* at it).
Erasable(t, x) ==
    /\ "not first" \in TreeAvoids => x = Leftmost(t)
    /\ "only node" \in TreeAvoids => t.n > 1

RECURSIVE RangeErasable(_, _, _)
RangeErasable(t, first, last) ==
    \/ first = last
    \/ Erasable(t, first) /\ RangeErasable(Erase(t, first)[1], Erase(t, first)[2], last)

TreeInit ==
    /\ tree = EmptyTree
    /\ contents = [k \in TreeKeys |-> 0]

Put(k) == contents' = [contents EXCEPT ![k] = IF @ = 0 THEN 1 ELSE @]

\* insert, emplace and operator[]
MapInsert(k) ==
    /\ tree' = EmplaceUnique(tree, k)[1]
    /\ Put(k)

\* insert and emplace_hint at any position
MapInsertHint(hint, k) ==
    /\ tree' = EmplaceHint(tree, hint, k)[1]
    /\ Put(k)

TreeInsertEqual(k) ==
    /\ contents[k] < Copies
    /\ tree' = InsertEqual(tree, k)
    /\ contents' = [contents EXCEPT ![k] = @ + 1]

MapErase(k) ==
    /\ contents[k] > 0 => Erasable(tree, Find(tree, k))
    /\ tree' = EraseKey(tree, k)
    /\ contents' = [contents EXCEPT ![k] = IF @ > 0 THEN @ - 1 ELSE 0]

\* erase(first, last) with iterators to keys that are there once
MapEraseRange(first, last) ==
    /\ contents[KeyOf(first)] = 1
    /\ last # Header => contents[KeyOf(last)] = 1 /\ KeyOf(first) < KeyOf(last)
    /\ \/ first = Leftmost(tree) /\ last = Header
       \/ (first = Leftmost(tree) => last # Header) /\ RangeErasable(tree, first, last)
    /\ tree' = EraseFromTo(tree, first, last)
    /\ contents' = [k \in TreeKeys |->
                        IF k >= KeyOf(first) /\ (last # Header => k < KeyOf(last))
                        THEN 0 ELSE contents[k]]

MapClear ==
    /\ tree' = ClearTree(tree)
    /\ contents' = [k \in TreeKeys |-> 0]

\* m = copy of m; the old tree is destroyed
MapCopyAssign ==
    /\ tree' = CopyAssign(tree, tree)
    /\ UNCHANGED contents

\* m moved away and back again
MapMove ==
    /\ LET moved == MoveConstruct(tree)
       IN tree' = MoveAssign(moved[2], moved[1])[1]
    /\ UNCHANGED contents

TreeNext ==
    /\ tree.ok
    /\ \/ \E k \in TreeKeys : MapInsert(k)
       \/ \E hint \in DOMAIN tree.m, k \in TreeKeys : MapInsertHint(hint, k)
       \/ \E k \in EqualKeys : TreeInsertEqual(k)
       \/ \E k \in TreeKeys : MapErase(k)
       \/ \E first \in Nodes(tree), last \in DOMAIN tree.m : MapEraseRange(first, last)
       \/ MapClear
       \/ MapCopyAssign
       \/ MapMove

-----------------------------------------------------------------------------
(* Properties *)

\* The keys met from x on, at most bound of them, forwards or backwards.
RECURSIVE Walk(_, _, _, _)
Walk(t, x, forwards, bound) ==
    IF bound = 0 \/ x \in {Header, Wild} THEN <<>>
    ELSE <<KeyOf(x)>> \o Walk(t, IF forwards THEN Increment(t, x) ELSE Decrement(t, x),
                             forwards, bound - 1)

Sorted == FoldLeft(LAMBDA s, k : s \o [i \in 1 .. contents[k] |-> k], <<>>,
                   [k \in TreeKeys |-> k])

Present == {k \in TreeKeys : contents[k] > 0}
Least(keys) == IF keys = {} THEN KeyOf(Header) ELSE CHOOSE k \in keys : \A j \in keys : k =< j

\* Iterating forwards and backwards gives what was put in and not taken out,
\* in order; find, the bounds and the results of insertions agree with it.
\* lower_bound and equal_range are asked for keys that are not there twice
\* (they stop at the first node met), upper_bound and equal_range for keys
\* below the last one: past it they read the header's key, which was never
\* constructed, although testMap.cc:191 and testSet.cc:186 expect end().
TreeAgrees ==
    /\ tree.n = Len(Sorted)
    /\ Walk(tree, Leftmost(tree), TRUE, tree.n + 1) = Sorted
    /\ tree.n > 0 => Walk(tree, Decrement(tree, Header), FALSE, tree.n) = Reverse(Sorted)
    /\ \A k \in TreeKeys :
        LET from == {j \in Present : j >= k}
            above == from \ {k}
            emplaced == EmplaceUnique(tree, k)
        IN /\ (Find(tree, k) # Header) = (k \in Present)
           /\ emplaced[3] = (k \notin Present) /\ KeyOf(emplaced[2]) = k
           /\ contents[k] =< 1 => KeyOf(LowerBound(tree, k)) = Least(from)
           /\ above # {} => KeyOf(UpperBound(tree, k)) = Least(above)
           /\ above # {} /\ contents[k] =< 1 =>
                EqualRange(tree, k) = <<LowerBound(tree, k), UpperBound(tree, k)>>

\* No operation met an assertion or an invalid pointer, the tree keeps
\* rbPropertyKept and every node's children point back to it.
TreeBalanced ==
    /\ tree.ok
    /\ RbPropertyKept(tree)
    /\ \A x \in Nodes(tree), f \in {"l", "r"} :
        At(tree, x, f) # Null => At(tree, At(tree, x, f), "p") = x

=============================================================================

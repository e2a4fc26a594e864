-------------------------- MODULE LinkedlistProofs ---------------------------
(***************************************************************************)
(* The linked list, for any values and any number of nodes.  Sound says    *)
(* that memory holds exactly the rings of the sequences, each sentinel and *)
(* its nodes linked both ways and no node in two places.  The lemmas       *)
(* follow the code: what one store leaves, what Transfer does to one ring  *)
(* or to two, what each loop has done after k turns, what merge, the split *)
(* and the calls of sort leave, and that there is one way to sort and keep *)
(* equal values in order. ListAlwaysHolds puts them together.              *)
(***************************************************************************)
EXTENDS NodesProofs

-----------------------------------------------------------------------------
(* Memory. *)

Cell == [prev : Int, next : Int]
Memory(C) == [m : [C -> Cell], ok : {TRUE}]
Fields == {"prev", "next"}

\* Reading a link of a live node.
LEMMA AtIs ==
    ASSUME NEW C, NEW s \in Memory(C), NEW x \in C
    PROVE  /\ List!At(s, x, "prev") = s.m[x].prev /\ s.m[x].prev \in Int
           /\ List!At(s, x, "next") = s.m[x].next /\ s.m[x].next \in Int
           /\ DOMAIN s.m = C
BY DEF Memory, Cell, List!At

\* t is s, but for y in one field of x.
NextIs(C, s, t, x, y) ==
    /\ t \in Memory(C)
    /\ \A z \in C : t.m[z].next = (IF z = x THEN y ELSE s.m[z].next) /\ t.m[z].prev = s.m[z].prev
PrevIs(C, s, t, x, y) ==
    /\ t \in Memory(C)
    /\ \A z \in C : t.m[z].prev = (IF z = x THEN y ELSE s.m[z].prev) /\ t.m[z].next = s.m[z].next

\* What one store leaves.
LEMMA StoreNextIs ==
    ASSUME NEW C, NEW s \in Memory(C), NEW x \in C, NEW y \in Int
    PROVE  NextIs(C, s, List!Store(s, x, "next", y), x, y)
<1>1. DOMAIN s.m = C /\ s.m \in [C -> Cell] /\ s.ok = TRUE /\ DOMAIN s = {"m", "ok"} /\ s = [m |-> s.m, ok |-> s.ok]
    BY DEF Memory
<1>2. List!Store(s, x, "next", y) = [s EXCEPT !.m = [s.m EXCEPT ![x] = [s.m[x] EXCEPT !.next = y]]]
    BY <1>1 DEF List!Store
<1>3. s.m[x] \in Cell
    BY <1>1
<1>4. /\ [s.m[x] EXCEPT !.next = y] \in Cell
      /\ [s.m[x] EXCEPT !.next = y].next = y
      /\ [s.m[x] EXCEPT !.next = y].prev = s.m[x].prev
    BY <1>3 DEF Cell
<1> DEFINE f == [s.m EXCEPT ![x] = [s.m[x] EXCEPT !.next = y]]
<1>5. /\ f \in [C -> Cell]
      /\ f[x] = [s.m[x] EXCEPT !.next = y]
      /\ \A z \in C : z # x => f[z] = s.m[z]
    BY <1>1, <1>4
<1> HIDE DEF f
<1>6. [s EXCEPT !.m = f] \in Memory(C) /\ [s EXCEPT !.m = f].m = f
    BY <1>5 DEF Memory
<1>7. List!Store(s, x, "next", y) = [s EXCEPT !.m = f]
    BY <1>2 DEF f
<1>8. QED
    BY <1>4, <1>5, <1>6, <1>7 DEF NextIs

LEMMA StorePrevIs ==
    ASSUME NEW C, NEW s \in Memory(C), NEW x \in C, NEW y \in Int
    PROVE  PrevIs(C, s, List!Store(s, x, "prev", y), x, y)
<1>1. DOMAIN s.m = C /\ s.m \in [C -> Cell] /\ s.ok = TRUE /\ DOMAIN s = {"m", "ok"} /\ s = [m |-> s.m, ok |-> s.ok]
    BY DEF Memory
<1>2. List!Store(s, x, "prev", y) = [s EXCEPT !.m = [s.m EXCEPT ![x] = [s.m[x] EXCEPT !.prev = y]]]
    BY <1>1 DEF List!Store
<1>3. s.m[x] \in Cell
    BY <1>1
<1>4. /\ [s.m[x] EXCEPT !.prev = y] \in Cell
      /\ [s.m[x] EXCEPT !.prev = y].prev = y
      /\ [s.m[x] EXCEPT !.prev = y].next = s.m[x].next
    BY <1>3 DEF Cell
<1> DEFINE f == [s.m EXCEPT ![x] = [s.m[x] EXCEPT !.prev = y]]
<1>5. /\ f \in [C -> Cell]
      /\ f[x] = [s.m[x] EXCEPT !.prev = y]
      /\ \A z \in C : z # x => f[z] = s.m[z]
    BY <1>1, <1>4
<1> HIDE DEF f
<1>6. [s EXCEPT !.m = f] \in Memory(C) /\ [s EXCEPT !.m = f].m = f
    BY <1>5 DEF Memory
<1>7. List!Store(s, x, "prev", y) = [s EXCEPT !.m = f]
    BY <1>2 DEF f
<1>8. QED
    BY <1>4, <1>5, <1>6, <1>7 DEF PrevIs

\* In t the node that followed a is followed by what b's was, and so around.
Moves(C, s, t, a, a1, b, b1, c, c1) ==
    /\ t \in Memory(C)
    /\ \A x \in C :
         /\ x = a => t.m[x].next = b1
         /\ x = b => t.m[x].next = c1
         /\ x = c => t.m[x].next = a1
         /\ x # a /\ x # b /\ x # c => t.m[x].next = s.m[x].next
         /\ x = b1 => t.m[x].prev = a
         /\ x = c1 => t.m[x].prev = b
         /\ x = a1 => t.m[x].prev = c
         /\ x # a1 /\ x # b1 /\ x # c1 => t.m[x].prev = s.m[x].prev

\* What Transfer leaves, in terms of the neighbours the three nodes had.
LEMMA TransferIs ==
    ASSUME NEW C, C \subseteq Int, NEW s \in Memory(C),
           NEW position \in C, NEW first \in C, NEW last \in C,
           NEW p \in C, p = s.m[position].prev,
           NEW a \in C, a = s.m[first].prev,
           NEW z \in C, z = s.m[last].prev,
           position # last, first # last, position # first, p # a, p # z, a # z
    PROVE  Moves(C, s, List!Transfer(s, position, first, last), a, first, z, last, p, position)
<1> DEFINE w1 == List!Store(s, List!At(s, last, "prev"), "next", position)
           w2 == List!Store(w1, List!At(w1, first, "prev"), "next", last)
           w3 == List!Store(w2, List!At(w2, position, "prev"), "next", first)
           w4 == List!Store(w3, position, "prev", List!At(w3, last, "prev"))
           w5 == List!Store(w4, last, "prev", List!At(w4, first, "prev"))
           w6 == List!Store(w5, first, "prev", List!At(w3, position, "prev"))
<1>1. List!Transfer(s, position, first, last) = w6
    BY DEF List!Transfer
<1>2. NextIs(C, s, w1, z, position)
    BY AtIs, StoreNextIs
<1> HIDE DEF w1
<1>3. w1 \in Memory(C) /\ List!At(w1, first, "prev") = a
    BY <1>2, AtIs DEF NextIs
<1>4. NextIs(C, w1, w2, a, last)
    BY <1>3, StoreNextIs
<1> HIDE DEF w2
<1>5. w2 \in Memory(C) /\ List!At(w2, position, "prev") = p
    BY <1>2, <1>4, AtIs DEF NextIs
<1>6. NextIs(C, w2, w3, p, first)
    BY <1>5, StoreNextIs
<1> HIDE DEF w3
<1>7. w3 \in Memory(C) /\ List!At(w3, last, "prev") = z /\ List!At(w3, position, "prev") = p
    BY <1>2, <1>4, <1>6, AtIs DEF NextIs
<1>8. PrevIs(C, w3, w4, position, z)
    BY <1>7, StorePrevIs
<1> HIDE DEF w4
<1>9. w4 \in Memory(C) /\ List!At(w4, first, "prev") = a
    BY <1>2, <1>4, <1>6, <1>8, AtIs DEF NextIs, PrevIs
<1>10. PrevIs(C, w4, w5, last, a)
    BY <1>9, StorePrevIs
<1> HIDE DEF w5
<1>11. w5 \in Memory(C)
    BY <1>10 DEF PrevIs
<1>12. PrevIs(C, w5, w6, first, p)
    BY <1>7, <1>11, StorePrevIs
<1> HIDE DEF w6
<1>13. w6 \in Memory(C)
    BY <1>12 DEF PrevIs
<1>14. ASSUME NEW x \in C
       PROVE  /\ w6.m[x].next = IF x = z THEN position ELSE IF x = a THEN last
                                ELSE IF x = p THEN first ELSE s.m[x].next
              /\ w6.m[x].prev = IF x = position THEN z ELSE IF x = last THEN a
                                ELSE IF x = first THEN p ELSE s.m[x].prev
    BY <1>2, <1>4, <1>6, <1>8, <1>10, <1>12 DEF NextIs, PrevIs
<1>15. Moves(C, s, w6, a, first, z, last, p, position)
    BY <1>13, <1>14 DEF Moves
<1>16. QED
    BY <1>1, <1>15

\* A new sentinel is linked to itself; a node that goes leaves the others.
LEMMA CellGot ==
    ASSUME NEW C, NEW s \in Memory(C), NEW x \in Int
    PROVE  /\ List!GetNode(s, x) \in Memory(C \cup {x})
           /\ List!GetNode(s, x).m[x].prev = x /\ List!GetNode(s, x).m[x].next = x
           /\ \A y \in C \ {x} : List!GetNode(s, x).m[y] = s.m[y]
<1> DEFINE f == [y \in C \cup {x} |-> IF y = x THEN [prev |-> x, next |-> x] ELSE s.m[y]]
<1>1. DOMAIN s.m = C /\ s.m \in [C -> Cell] /\ s = [m |-> s.m, ok |-> TRUE]
    BY DEF Memory
<1>2. List!GetNode(s, x) = [s EXCEPT !.m = f]
    BY <1>1 DEF List!GetNode
<1>3. /\ f \in [C \cup {x} -> Cell]
      /\ f[x].prev = x /\ f[x].next = x
      /\ \A y \in C \ {x} : f[y] = s.m[y]
    BY <1>1 DEF Cell
<1> HIDE DEF f
<1>4. [s EXCEPT !.m = f] \in Memory(C \cup {x}) /\ [s EXCEPT !.m = f].m = f
    BY <1>3 DEF Memory
<1>5. QED
    BY <1>2, <1>3, <1>4

LEMMA CellPut ==
    ASSUME NEW C, NEW s \in Memory(C), NEW x
    PROVE  /\ List!PutNode(s, x) \in Memory(C \ {x})
           /\ \A y \in C \ {x} : List!PutNode(s, x).m[y] = s.m[y]
<1>1. DOMAIN s.m = C /\ s.m \in [C -> Cell] /\ s.ok = TRUE
    BY DEF Memory
<1>2. List!PutNode(s, x) = [s EXCEPT !.m = [y \in C \ {x} |-> s.m[y]]]
    BY <1>1 DEF List!PutNode
<1>3. [y \in C \ {x} |-> s.m[y]] \in [C \ {x} -> Cell]
    BY <1>1
<1>4. QED
    BY <1>2, <1>3 DEF Memory

\* In t the new node x is between p and position, or the node x is gone from
\* between p and n.
Inserts(C, s, t, position, p, x) ==
    /\ t \in Memory(C \cup {x})
    /\ \A y \in C \cup {x} :
         /\ t.m[y].next = IF y = x THEN position ELSE IF y = p THEN x ELSE s.m[y].next
         /\ t.m[y].prev = IF y = x THEN p ELSE IF y = position THEN x ELSE s.m[y].prev
Unlinks(C, s, t, x, p, n) ==
    /\ t \in Memory(C \ {x})
    /\ \A y \in C \ {x} :
         /\ t.m[y].next = IF y = p THEN n ELSE s.m[y].next
         /\ t.m[y].prev = IF y = n THEN p ELSE s.m[y].prev

\* What Insert and Erase leave of the links.
LEMMA InsertedIs ==
    ASSUME NEW C, C \subseteq Int, NEW s \in Memory(C), NEW position \in C,
           NEW p \in C, p = s.m[position].prev, NEW x \in Int, x \notin C
    PROVE  Inserts(C, s, List!Insert(s, position, x), position, p, x)
<1> DEFINE E == C \cup {x}
           made == List!GetNode(s, x)
           v == List!Store(made, x, "next", position)
           w1 == List!Store(v, x, "prev", List!At(s, position, "prev"))
           w2 == List!Store(w1, List!At(w1, x, "prev"), "next", x)
           w3 == List!Store(w2, position, "prev", x)
<1>1. List!Insert(s, position, x) = w3
    BY DEF List!Insert
<1>2. /\ made \in Memory(E) /\ made.m[x].prev = x /\ made.m[x].next = x
      /\ \A y \in C : made.m[y] = s.m[y]
    BY CellGot
<1>3. List!At(s, position, "prev") = p
    BY AtIs
<1>4. x \in E /\ position \in E /\ p \in E /\ position \in Int /\ p \in Int /\ C \subseteq E /\ x # p /\ x # position
    OBVIOUS
<1>5. \A y \in E : y = x \/ y \in C
    OBVIOUS
<1> HIDE DEF E, made
<1>6. NextIs(E, made, v, x, position)
    BY <1>2, <1>4, StoreNextIs
<1>7. v \in Memory(E)
    BY <1>6 DEF NextIs
<1> HIDE DEF v
<1>8. PrevIs(E, v, w1, x, p)
    BY <1>3, <1>4, <1>7, StorePrevIs
<1> HIDE DEF w1
<1>9. w1 \in Memory(E) /\ List!At(w1, x, "prev") = p
    BY <1>4, <1>8, AtIs DEF PrevIs
<1>10. NextIs(E, w1, w2, p, x)
    BY <1>4, <1>9, StoreNextIs
<1> HIDE DEF w2
<1>11. w2 \in Memory(E)
    BY <1>10 DEF NextIs
<1>12. PrevIs(E, w2, w3, position, x)
    BY <1>4, <1>11, StorePrevIs
<1> HIDE DEF w3
<1>13. w3 \in Memory(E)
    BY <1>12 DEF PrevIs
<1>14. ASSUME NEW y \in E
       PROVE  /\ w3.m[y].next = IF y = x THEN position ELSE IF y = p THEN x ELSE s.m[y].next
              /\ w3.m[y].prev = IF y = x THEN p ELSE IF y = position THEN x ELSE s.m[y].prev
    BY <1>2, <1>4, <1>5, <1>6, <1>8, <1>10, <1>12 DEF NextIs, PrevIs
<1>15. QED
    BY <1>1, <1>13, <1>14 DEF E, Inserts

LEMMA ErasedIs ==
    ASSUME NEW C, C \subseteq Int, NEW s \in Memory(C), NEW x \in C,
           NEW p \in C, p = s.m[x].prev, NEW n \in C, n = s.m[x].next, p # x, n # x
    PROVE  Unlinks(C, s, List!Erase(s, x), x, p, n)
<1> DEFINE w1 == List!Store(s, List!At(s, x, "prev"), "next", List!At(s, x, "next"))
           w2 == List!Store(w1, List!At(w1, x, "next"), "prev", List!At(w1, x, "prev"))
<1>1. List!Erase(s, x) = List!PutNode(w2, x)
    BY DEF List!Erase
<1>2. List!At(s, x, "prev") = p /\ List!At(s, x, "next") = n /\ p \in Int /\ n \in Int
    BY AtIs
<1>3. NextIs(C, s, w1, p, n)
    BY <1>2, StoreNextIs
<1> HIDE DEF w1
<1>4. w1 \in Memory(C) /\ List!At(w1, x, "prev") = p /\ List!At(w1, x, "next") = n
    BY <1>3, AtIs DEF NextIs
<1>5. PrevIs(C, w1, w2, n, p)
    BY <1>2, <1>4, StorePrevIs
<1>6. w2 \in Memory(C)
    BY <1>5 DEF PrevIs
<1> HIDE DEF w2
<1>7. /\ List!PutNode(w2, x) \in Memory(C \ {x})
      /\ \A y \in C \ {x} : List!PutNode(w2, x).m[y] = w2.m[y]
    BY <1>6, CellPut
<1>8. ASSUME NEW y \in C \ {x}
      PROVE  /\ w2.m[y].next = IF y = p THEN n ELSE s.m[y].next
             /\ w2.m[y].prev = IF y = n THEN p ELSE s.m[y].prev
    BY <1>3, <1>5 DEF NextIs, PrevIs
<1>9. ASSUME NEW y \in C \ {x}
      PROVE  /\ List!Erase(s, x).m[y].next = IF y = p THEN n ELSE s.m[y].next
             /\ List!Erase(s, x).m[y].prev = IF y = n THEN p ELSE s.m[y].prev
    BY <1>1, <1>7, <1>8
<1>10. QED
    BY <1>1, <1>7, <1>9 DEF Unlinks

-----------------------------------------------------------------------------
(* Rings. Between 0, the sentinel, and one more than its length, the         *)
(* sentinel again, the places of a sequence are the nodes of a ring.         *)

NodeOf(w, l, i) == List!NodeIn(w, l, i)

Linked(s, w, l) ==
    \A i \in 0 .. Len(w) : /\ s.m[NodeOf(w, l, i)].next = NodeOf(w, l, i + 1)
                           /\ s.m[NodeOf(w, l, i + 1)].prev = NodeOf(w, l, i)

\* Sequences of nodes, by sentinels: no node is in two places.
Apart(q, D) ==
    /\ D \subseteq Int
    /\ q \in [D -> Seq(Int)]
    /\ \A l \in D : \A i \in 1 .. Len(q[l]) : q[l][i] \notin D
    /\ \A l, k \in D : \A i \in 1 .. Len(q[l]), j \in 1 .. Len(q[k]) : q[l][i] = q[k][j] => l = k /\ i = j

Cells(q, D) == D \cup {x \in Int : \E l \in D : \E i \in 1 .. Len(q[l]) : q[l][i] = x}

\* s is intact and holds the sequences q, and nothing else.
Ringed(s, q, D) ==
    /\ Apart(q, D)
    /\ IsFiniteSet(Cells(q, D))
    /\ s \in Memory(Cells(q, D))
    /\ \A l \in D : Linked(s, q[l], l)

LEMMA OnePlace ==
    ASSUME NEW D, NEW q, Apart(q, D), NEW l \in D, NEW k \in D,
           NEW i \in 1 .. Len(q[l]), NEW j \in 1 .. Len(q[k]), q[l][i] = q[k][j]
    PROVE  l = k /\ i = j
BY DEF Apart

\* The places of a ring, with the sentinel at both ends.
LEMMA NodesAre ==
    ASSUME NEW w \in Seq(Int), NEW l \in Int
    PROVE  /\ NodeOf(w, l, 0) = l /\ NodeOf(w, l, Len(w) + 1) = l
           /\ \A i \in 1 .. Len(w) : NodeOf(w, l, i) = w[i] /\ w[i] \in Int
<1>1. Len(w) \in Nat /\ DOMAIN w = 1 .. Len(w)
    OBVIOUS
<1>2. QED
    BY <1>1 DEF NodeOf, List!NodeIn

LEMMA NodesAreCells ==
    ASSUME NEW D, NEW q, Apart(q, D), NEW l \in D, NEW i \in 0 .. Len(q[l]) + 1
    PROVE  NodeOf(q[l], l, i) \in Cells(q, D) /\ NodeOf(q[l], l, i) \in Int
<1>1. q[l] \in Seq(Int) /\ Len(q[l]) \in Nat /\ l \in Int
    BY DEF Apart
<1>2. i = 0 \/ i = Len(q[l]) + 1 \/ i \in 1 .. Len(q[l])
    BY <1>1
<1>3. QED
    BY <1>1, <1>2, NodesAre DEF Cells

\* The nodes of a ring but for its last place, or its first, are apart from
\* each other and from those of another ring.
LEMMA NodesDiffer ==
    ASSUME NEW D, NEW q, Apart(q, D), NEW l \in D, NEW k \in D
    PROVE  /\ \A i \in 0 .. Len(q[l]), j \in 0 .. Len(q[k]) :
                NodeOf(q[l], l, i) = NodeOf(q[k], k, j) => l = k /\ i = j
           /\ \A i \in 1 .. Len(q[l]) + 1, j \in 1 .. Len(q[k]) + 1 :
                NodeOf(q[l], l, i) = NodeOf(q[k], k, j) => l = k /\ i = j
           /\ l # k => \A i \in 0 .. Len(q[l]) + 1, j \in 0 .. Len(q[k]) + 1 :
                         NodeOf(q[l], l, i) # NodeOf(q[k], k, j)
<1>1. /\ l \in Int /\ k \in Int
      /\ q[l] \in Seq(Int) /\ Len(q[l]) \in Nat /\ q[k] \in Seq(Int) /\ Len(q[k]) \in Nat
      /\ \A i \in 1 .. Len(q[l]) : q[l][i] # k /\ q[l][i] # l
      /\ \A i \in 1 .. Len(q[k]) : q[k][i] # l /\ q[k][i] # k
      /\ \A i \in 1 .. Len(q[l]), j \in 1 .. Len(q[k]) : q[l][i] = q[k][j] => l = k /\ i = j
    BY DEF Apart
<1>2. /\ NodeOf(q[l], l, 0) = l /\ NodeOf(q[l], l, Len(q[l]) + 1) = l
      /\ \A i \in 1 .. Len(q[l]) : NodeOf(q[l], l, i) = q[l][i]
      /\ NodeOf(q[k], k, 0) = k /\ NodeOf(q[k], k, Len(q[k]) + 1) = k
      /\ \A i \in 1 .. Len(q[k]) : NodeOf(q[k], k, i) = q[k][i]
    BY <1>1, NodesAre
<1>3. ASSUME NEW i \in 0 .. Len(q[l]) + 1, NEW j \in 0 .. Len(q[k]) + 1,
             NodeOf(q[l], l, i) = NodeOf(q[k], k, j)
      PROVE  /\ l = k
             /\ i = j \/ (i = 0 /\ j = Len(q[k]) + 1) \/ (i = Len(q[l]) + 1 /\ j = 0)
    <2> DEFINE x == NodeOf(q[l], l, i)
               y == NodeOf(q[k], k, j)
    <2>1. ((i = 0 \/ i = Len(q[l]) + 1) /\ x = l) \/ (i \in 1 .. Len(q[l]) /\ x = q[l][i])
        BY <1>1, <1>2
    <2>2. ((j = 0 \/ j = Len(q[k]) + 1) /\ y = k) \/ (j \in 1 .. Len(q[k]) /\ y = q[k][j])
        BY <1>1, <1>2
    <2>3. x = y
        BY <1>3
    <2> HIDE DEF x, y
    <2>4. CASE x = l /\ y = k
        BY <1>1, <2>1, <2>2, <2>3, <2>4
    <2>5. CASE x # l \/ y # k
        BY <1>1, <2>1, <2>2, <2>3, <2>5
    <2>6. QED
        BY <2>4, <2>5
<1>4. ASSUME NEW i \in 0 .. Len(q[l]), NEW j \in 0 .. Len(q[k]),
             NodeOf(q[l], l, i) = NodeOf(q[k], k, j)
      PROVE  l = k /\ i = j
    <2>1. i \in 0 .. Len(q[l]) + 1 /\ j \in 0 .. Len(q[k]) + 1 /\ i # Len(q[l]) + 1 /\ j # Len(q[k]) + 1
        BY <1>1
    <2>2. QED
        BY <1>3, <1>4, <2>1
<1>5. ASSUME NEW i \in 1 .. Len(q[l]) + 1, NEW j \in 1 .. Len(q[k]) + 1,
             NodeOf(q[l], l, i) = NodeOf(q[k], k, j)
      PROVE  l = k /\ i = j
    <2>1. i \in 0 .. Len(q[l]) + 1 /\ j \in 0 .. Len(q[k]) + 1 /\ i # 0 /\ j # 0
        BY <1>1
    <2>2. QED
        BY <1>3, <1>5, <2>1
<1>6. QED
    BY <1>3, <1>4, <1>5

-----------------------------------------------------------------------------
(* Two neighbouring parts of a ring change places. *)

\* Of v, the places a + 1 .. a + c - b are those of w from b + 1 on, and those
\* after them up to c are those of w from a + 1 on.
Source(a, b, c, i) == IF i =< a \/ i > c THEN i ELSE IF i =< a + (c - b) THEN i + (b - a) ELSE i - (c - b)
Exchanged(w, v, a, b, c) ==
    /\ v \in Seq(Int) /\ Len(v) = Len(w)
    /\ \A i \in 1 .. Len(w) : v[i] = w[Source(a, b, c, i)]

\* After the exchange the ring has the same nodes, each once ...
LEMMA ExchangedNodes ==
    ASSUME NEW w \in Seq(Int), NEW v, NEW l \in Int,
           NEW a \in Nat, NEW b \in Nat, NEW c \in Nat, a < b, b < c, c =< Len(w), Exchanged(w, v, a, b, c)
    PROVE  \A i \in 0 .. Len(w) + 1 : NodeOf(v, l, i) = NodeOf(w, l, Source(a, b, c, i))
<1> SUFFICES ASSUME NEW i \in 0 .. Len(w) + 1
             PROVE  NodeOf(v, l, i) = NodeOf(w, l, Source(a, b, c, i))
    OBVIOUS
<1>1. Len(w) \in Nat /\ v \in Seq(Int) /\ Len(v) = Len(w)
    BY DEF Exchanged
<1>2. /\ NodeOf(v, l, 0) = l /\ NodeOf(w, l, 0) = l
      /\ NodeOf(v, l, Len(w) + 1) = l /\ NodeOf(w, l, Len(w) + 1) = l
      /\ \A j \in 1 .. Len(w) : NodeOf(v, l, j) = v[j] /\ NodeOf(w, l, j) = w[j]
    <2>1. /\ NodeOf(v, l, 0) = l /\ NodeOf(v, l, Len(v) + 1) = l
          /\ \A j \in 1 .. Len(v) : NodeOf(v, l, j) = v[j]
        BY <1>1, NodesAre
    <2>2. /\ NodeOf(w, l, 0) = l /\ NodeOf(w, l, Len(w) + 1) = l
          /\ \A j \in 1 .. Len(w) : NodeOf(w, l, j) = w[j]
        BY NodesAre
    <2>3. QED
        BY <1>1, <2>1, <2>2
<1>3. CASE i = 0
    <2>1. Source(a, b, c, i) = 0
        BY <1>3 DEF Source
    <2>2. QED
        BY <1>2, <1>3, <2>1
<1>4. CASE i = Len(w) + 1
    <2>1. Source(a, b, c, i) = Len(w) + 1
        BY <1>1, <1>4 DEF Source
    <2>2. QED
        BY <1>2, <1>4, <2>1
<1>5. CASE i \in 1 .. Len(w)
    <2> DEFINE j == Source(a, b, c, i)
    <2>1. j \in 1 .. Len(w)
        BY <1>1, <1>5 DEF Source
    <2>2. v[i] = w[j]
        BY <1>5 DEF Exchanged
    <2> HIDE DEF j
    <2>3. NodeOf(v, l, i) = NodeOf(w, l, j)
        BY <1>2, <1>5, <2>1, <2>2
    <2>4. QED
        BY <2>3 DEF j
<1>6. i = 0 \/ i = Len(w) + 1 \/ i \in 1 .. Len(w)
    <2>1. Len(w) \in Nat
        OBVIOUS
    <2>2. QED
        BY <2>1
<1>7. QED
    BY <1>3, <1>4, <1>5, <1>6

LEMMA ExchangedApart ==
    ASSUME NEW D, NEW q, Apart(q, D), NEW l \in D, NEW v,
           NEW a \in Nat, NEW b \in Nat, NEW c \in Nat, a < b, b < c, c =< Len(q[l]), Exchanged(q[l], v, a, b, c)
    PROVE  /\ Apart([q EXCEPT ![l] = v], D)
           /\ Cells([q EXCEPT ![l] = v], D) = Cells(q, D)
<1> DEFINE r == [q EXCEPT ![l] = v]
           n == Len(q[l])
           to(i) == IF i =< a \/ i > c THEN i ELSE IF i =< b THEN i + (c - b) ELSE i - (b - a)
<1>1. /\ D \subseteq Int /\ q \in [D -> Seq(Int)] /\ n \in Nat /\ v \in Seq(Int) /\ Len(v) = n
      /\ \A i \in 1 .. n : v[i] = q[l][Source(a, b, c, i)]
    BY DEF Apart, Exchanged
<1>2. r \in [D -> Seq(Int)] /\ r[l] = v /\ \A k \in D : k # l => r[k] = q[k]
    BY <1>1
<1>3. /\ \A i \in 1 .. n : Source(a, b, c, i) \in 1 .. n /\ to(i) \in 1 .. n /\ Source(a, b, c, to(i)) = i
      /\ \A i, j \in 1 .. n : Source(a, b, c, i) = Source(a, b, c, j) => i = j
    <2>1. n \in Nat /\ c =< n
        BY <1>1
    <2> HIDE DEF n
    <2>2. QED
        BY <2>1 DEF Source
<1> HIDE DEF r, n, to
<1>4. \A k \in D : \A i \in 1 .. Len(r[k]) : r[k][i] \notin D
    <2>1. \A k \in D : \A i \in 1 .. Len(q[k]) : q[k][i] \notin D
        BY DEF Apart
    <2>2. \A i \in 1 .. n : v[i] \notin D
        BY <1>1, <1>3, <2>1 DEF n
    <2>3. QED
        BY <1>1, <1>2, <2>1, <2>2
<1>5. ASSUME NEW k \in D, NEW h \in D, NEW i \in 1 .. Len(r[k]), NEW j \in 1 .. Len(r[h]), r[k][i] = r[h][j]
      PROVE  k = h /\ i = j
    <2>2. CASE k = l /\ h = l
        <3> DEFINE e == Source(a, b, c, i)
                   f == Source(a, b, c, j)
        <3>1. i \in 1 .. n /\ j \in 1 .. n /\ v[i] = v[j]
            BY <1>1, <1>2, <1>5, <2>2
        <3>2. e \in 1 .. n /\ f \in 1 .. n /\ v[i] = q[l][e] /\ v[j] = q[l][f]
            BY <1>1, <1>3, <3>1
        <3>3. e = f => i = j
            BY <1>3, <3>1
        <3> HIDE DEF e, f
        <3>4. e \in 1 .. Len(q[l]) /\ f \in 1 .. Len(q[l]) /\ q[l][e] = q[l][f]
            BY <3>1, <3>2 DEF n
        <3>5. e = f
            BY <3>4, OnePlace
        <3>6. QED
            BY <2>2, <3>3, <3>5
    <2>3. CASE k = l /\ h # l
        <3> DEFINE e == Source(a, b, c, i)
        <3>1. i \in 1 .. n /\ j \in 1 .. Len(q[h]) /\ v[i] = q[h][j]
            BY <1>1, <1>2, <1>5, <2>3
        <3>2. e \in 1 .. n /\ v[i] = q[l][e]
            BY <1>1, <1>3, <3>1
        <3> HIDE DEF e
        <3>3. e \in 1 .. Len(q[l]) /\ j \in 1 .. Len(q[h]) /\ q[l][e] = q[h][j]
            BY <3>1, <3>2 DEF n
        <3>4. QED
            BY <2>3, <3>3, OnePlace
    <2>4. CASE k # l /\ h = l
        <3> DEFINE e == Source(a, b, c, j)
        <3>1. j \in 1 .. n /\ i \in 1 .. Len(q[k]) /\ v[j] = q[k][i]
            BY <1>1, <1>2, <1>5, <2>4
        <3>2. e \in 1 .. n /\ v[j] = q[l][e]
            BY <1>1, <1>3, <3>1
        <3> HIDE DEF e
        <3>3. e \in 1 .. Len(q[l]) /\ i \in 1 .. Len(q[k]) /\ q[l][e] = q[k][i]
            BY <3>1, <3>2 DEF n
        <3>4. QED
            BY <2>4, <3>3, OnePlace
    <2>5. CASE k # l /\ h # l
        <3>1. r[k] = q[k] /\ r[h] = q[h]
            BY <1>2, <2>5
        <3>2. i \in 1 .. Len(q[k]) /\ j \in 1 .. Len(q[h]) /\ q[k][i] = q[h][j]
            BY <1>5, <3>1
        <3>3. QED
            BY <3>2, OnePlace
    <2>6. QED
        BY <2>2, <2>3, <2>4, <2>5
<1>6. Apart(r, D)
    BY <1>1, <1>2, <1>4, <1>5 DEF Apart
<1>7. ASSUME NEW x \in Int
      PROVE  (\E k \in D : \E i \in 1 .. Len(r[k]) : r[k][i] = x) <=> (\E k \in D : \E i \in 1 .. Len(q[k]) : q[k][i] = x)
    <2>1. ASSUME NEW k \in D, NEW i \in 1 .. Len(r[k]), r[k][i] = x
          PROVE  \E h \in D : \E j \in 1 .. Len(q[h]) : q[h][j] = x
        <3>1. CASE k = l
            <4>1. i \in 1 .. n /\ q[l][Source(a, b, c, i)] = x
                BY <1>1, <1>2, <2>1, <3>1
            <4>2. QED
                BY <1>3, <4>1 DEF n
        <3>2. QED
            BY <1>2, <2>1, <3>1
    <2>2. ASSUME NEW k \in D, NEW i \in 1 .. Len(q[k]), q[k][i] = x
          PROVE  \E h \in D : \E j \in 1 .. Len(r[h]) : r[h][j] = x
        <3>1. CASE k = l
            <4>1. i \in 1 .. n /\ to(i) \in 1 .. n /\ Source(a, b, c, to(i)) = i
                BY <1>3, <3>1 DEF n
            <4>2. r[l][to(i)] = x /\ to(i) \in 1 .. Len(r[l])
                BY <1>1, <1>2, <2>2, <3>1, <4>1
            <4>3. QED
                BY <4>2
        <3>2. QED
            BY <1>2, <2>2, <3>1
    <2>3. QED
        BY <2>1, <2>2
<1>8. Cells(r, D) = Cells(q, D)
    BY <1>7 DEF Cells
<1>9. QED
    BY <1>6, <1>8 DEF r

After(a, b, c, g) == IF g = a THEN b + 1 ELSE IF g = b THEN c + 1 ELSE IF g = c THEN a + 1 ELSE g + 1
Ahead(a, b, c, h) == IF h = b + 1 THEN a ELSE IF h = c + 1 THEN b ELSE IF h = a + 1 THEN c ELSE h - 1

Cuts(n, a, b, c) == n \in Nat /\ a \in Nat /\ b \in Nat /\ c \in Nat /\ a < b /\ b < c /\ c =< n

LEMMA SourceNext ==
    ASSUME NEW n, NEW a, NEW b, NEW c, Cuts(n, a, b, c), NEW i \in 0 .. n
    PROVE  /\ Source(a, b, c, i) \in 0 .. n /\ Source(a, b, c, i + 1) \in 1 .. n + 1
           /\ Source(a, b, c, i + 1) = After(a, b, c, Source(a, b, c, i))
           /\ Source(a, b, c, i) = Ahead(a, b, c, Source(a, b, c, i + 1))
BY DEF Cuts, Source, After, Ahead

\* ... and the stores of Transfer link them in the new order.
LEMMA ExchangedLinks ==
    ASSUME NEW D, NEW q, NEW s, Ringed(s, q, D), NEW l \in D, NEW v,
           NEW a \in Nat, NEW b \in Nat, NEW c \in Nat, a < b, b < c, c =< Len(q[l]), Exchanged(q[l], v, a, b, c),
           NEW t, Moves(Cells(q, D), s, t, NodeOf(q[l], l, a), NodeOf(q[l], l, a + 1),
                        NodeOf(q[l], l, b), NodeOf(q[l], l, b + 1), NodeOf(q[l], l, c), NodeOf(q[l], l, c + 1))
    PROVE  Ringed(t, [q EXCEPT ![l] = v], D)
<1> DEFINE r == [q EXCEPT ![l] = v]
           n == Len(q[l])
           N(i) == NodeOf(q[l], l, i)
           next(g) == After(a, b, c, g)
           prev(h) == Ahead(a, b, c, h)
<1>1. Apart(q, D) /\ \A k \in D : Linked(s, q[k], k)
    BY DEF Ringed
<1>2. /\ q \in [D -> Seq(Int)] /\ q[l] \in Seq(Int) /\ l \in Int /\ n \in Nat /\ c =< n
      /\ v \in Seq(Int) /\ Len(v) = n
    BY <1>1 DEF Apart, Exchanged
<1>16. Apart(q, D)
    BY <1>1
<1>17. /\ a \in 0 .. n /\ b \in 0 .. n /\ c \in 0 .. n
       /\ a \in 0 .. n + 1 /\ b \in 0 .. n + 1 /\ c \in 0 .. n + 1
       /\ a + 1 \in 1 .. n + 1 /\ b + 1 \in 1 .. n + 1 /\ c + 1 \in 1 .. n + 1
       /\ a + 1 \in 0 .. n + 1 /\ b + 1 \in 0 .. n + 1 /\ c + 1 \in 0 .. n + 1
       /\ \A g \in 0 .. n : g \in 0 .. n + 1 /\ g + 1 \in 1 .. n + 1 /\ g + 1 \in 0 .. n + 1
       /\ \A h \in 1 .. n + 1 : h \in 0 .. n + 1 /\ h - 1 \in 0 .. n /\ (h - 1) + 1 = h
    <2>1. n \in Nat /\ c =< n
        BY <1>2
    <2> HIDE DEF n
    <2>2. QED
        BY <2>1
<1>3. Apart(r, D) /\ Cells(r, D) = Cells(q, D)
    <2>1. Exchanged(q[l], v, a, b, c) /\ a < b /\ b < c /\ c =< Len(q[l])
        OBVIOUS
    <2>2. QED
        BY <1>16, <2>1, ExchangedApart, Zenon
<1>4. r[l] = v /\ \A k \in D : k # l => r[k] = q[k]
    BY <1>2
<1>5. /\ \A i, j \in 0 .. n : N(i) = N(j) => i = j
      /\ \A i, j \in 1 .. n + 1 : N(i) = N(j) => i = j
      /\ \A i \in 0 .. n + 1 : N(i) \in Cells(q, D)
    <2>1. \A i, j \in 0 .. n : N(i) = N(j) => i = j
        BY <1>16, NodesDiffer
    <2>2. \A i, j \in 1 .. n + 1 : N(i) = N(j) => i = j
        BY <1>16, NodesDiffer
    <2>3. QED
        BY <1>16, <2>1, <2>2, NodesAreCells
<1>6. \A i \in 0 .. n : s.m[N(i)].next = N(i + 1) /\ s.m[N(i + 1)].prev = N(i)
    BY <1>1 DEF Linked
<1>7. ASSUME NEW i \in 0 .. n
      PROVE  /\ Source(a, b, c, i) \in 0 .. n /\ Source(a, b, c, i + 1) \in 1 .. n + 1
             /\ Source(a, b, c, i + 1) = next(Source(a, b, c, i))
             /\ Source(a, b, c, i) = prev(Source(a, b, c, i + 1))
    <2>1. Cuts(n, a, b, c)
        BY <1>2 DEF Cuts
    <2>2. QED
        BY <2>1, SourceNext
<1>8. \A i \in 0 .. n + 1 : NodeOf(v, l, i) = N(Source(a, b, c, i))
    BY <1>2, ExchangedNodes
<1> HIDE DEF r, N
<1>9. ASSUME NEW g \in 0 .. n PROVE t.m[N(g)].next = N(next(g))
    <2>1. N(g) \in Cells(q, D) /\ s.m[N(g)].next = N(g + 1)
        BY <1>5, <1>6, <1>17
    <2>3. (N(g) = N(a) => g = a) /\ (N(g) = N(b) => g = b) /\ (N(g) = N(c) => g = c)
        BY <1>5, <1>17
    <2>4. /\ N(g) = N(a) => t.m[N(g)].next = N(b + 1)
          /\ N(g) = N(b) => t.m[N(g)].next = N(c + 1)
          /\ N(g) = N(c) => t.m[N(g)].next = N(a + 1)
          /\ N(g) # N(a) /\ N(g) # N(b) /\ N(g) # N(c) => t.m[N(g)].next = s.m[N(g)].next
        BY <2>1 DEF Moves, N
    <2>5. CASE g = a
        BY <2>4, <2>5 DEF After
    <2>6. CASE g = b /\ g # a
        BY <2>4, <2>6 DEF After
    <2>7. CASE g = c /\ g # a /\ g # b
        BY <2>4, <2>7 DEF After
    <2>8. CASE g # a /\ g # b /\ g # c
        BY <2>1, <2>3, <2>4, <2>8 DEF After
    <2>9. QED
        BY <2>5, <2>6, <2>7, <2>8
<1>10. ASSUME NEW h \in 1 .. n + 1 PROVE t.m[N(h)].prev = N(prev(h))
    <2>1. h \in 0 .. n + 1 /\ h - 1 \in 0 .. n /\ (h - 1) + 1 = h
        BY <1>17
    <2>2. N(h) \in Cells(q, D) /\ s.m[N(h)].prev = N(h - 1)
        BY <1>5, <1>6, <2>1
    <2>3. (N(h) = N(b + 1) => h = b + 1) /\ (N(h) = N(c + 1) => h = c + 1) /\ (N(h) = N(a + 1) => h = a + 1)
        BY <1>5, <1>17
    <2>4. /\ N(h) = N(b + 1) => t.m[N(h)].prev = N(a)
          /\ N(h) = N(c + 1) => t.m[N(h)].prev = N(b)
          /\ N(h) = N(a + 1) => t.m[N(h)].prev = N(c)
          /\ N(h) # N(a + 1) /\ N(h) # N(b + 1) /\ N(h) # N(c + 1) => t.m[N(h)].prev = s.m[N(h)].prev
        BY <2>2 DEF Moves, N
    <2>5. CASE h = b + 1
        BY <2>4, <2>5 DEF Ahead
    <2>6. CASE h = c + 1 /\ h # b + 1
        BY <2>4, <2>6 DEF Ahead
    <2>7. CASE h = a + 1 /\ h # b + 1 /\ h # c + 1
        BY <2>4, <2>7 DEF Ahead
    <2>8. CASE h # a + 1 /\ h # b + 1 /\ h # c + 1
        BY <2>2, <2>3, <2>4, <2>8 DEF Ahead
    <2>9. QED
        BY <2>5, <2>6, <2>7, <2>8
<1>11. Linked(t, v, l)
    <2> SUFFICES ASSUME NEW i \in 0 .. n
                 PROVE  /\ t.m[NodeOf(v, l, i)].next = NodeOf(v, l, i + 1)
                        /\ t.m[NodeOf(v, l, i + 1)].prev = NodeOf(v, l, i)
        BY <1>2 DEF Linked
    <2> DEFINE g == Source(a, b, c, i)
               h == Source(a, b, c, i + 1)
    <2>1. g \in 0 .. n /\ h \in 1 .. n + 1 /\ h = next(g) /\ g = prev(h)
        BY <1>7
    <2>2. i \in 0 .. n + 1 /\ i + 1 \in 0 .. n + 1
        BY <1>17
    <2>3. NodeOf(v, l, i) = N(g) /\ NodeOf(v, l, i + 1) = N(h)
        BY <1>8, <2>2
    <2> HIDE DEF g, h, next, prev
    <2>4. t.m[N(g)].next = N(next(g)) /\ t.m[N(h)].prev = N(prev(h))
        BY <1>9, <1>10, <2>1
    <2>5. QED
        BY <2>1, <2>3, <2>4
<1>12. ASSUME NEW k \in D, k # l PROVE Linked(t, q[k], k)
    <2> SUFFICES ASSUME NEW i \in 0 .. Len(q[k])
                 PROVE  /\ t.m[NodeOf(q[k], k, i)].next = NodeOf(q[k], k, i + 1)
                        /\ t.m[NodeOf(q[k], k, i + 1)].prev = NodeOf(q[k], k, i)
        BY DEF Linked
    <2>1. i \in 0 .. Len(q[k]) + 1 /\ i + 1 \in 0 .. Len(q[k]) + 1
        BY <1>1 DEF Apart
    <2>2. /\ s.m[NodeOf(q[k], k, i)].next = NodeOf(q[k], k, i + 1)
          /\ s.m[NodeOf(q[k], k, i + 1)].prev = NodeOf(q[k], k, i)
        BY <1>1 DEF Linked
    <2>3. NodeOf(q[k], k, i) \in Cells(q, D) /\ NodeOf(q[k], k, i + 1) \in Cells(q, D)
        BY <1>1, <2>1, NodesAreCells
    <2>5. \A g \in 0 .. n + 1 : N(g) # NodeOf(q[k], k, i) /\ N(g) # NodeOf(q[k], k, i + 1)
        BY <1>12, <1>16, <2>1, NodesDiffer DEF N
    <2>6. QED
        BY <1>17, <2>2, <2>3, <2>5 DEF Moves, N
<1>13. \A k \in D : Linked(t, r[k], k)
    BY <1>4, <1>11, <1>12
<1>14. IsFiniteSet(Cells(r, D)) /\ t \in Memory(Cells(r, D))
    BY <1>3 DEF Ringed, Moves
<1>15. QED
    BY <1>3, <1>13, <1>14 DEF Ringed, r

\* The part from a + 1 to b goes behind the one from b + 1 to c ...
LEMMA TransferBack ==
    ASSUME NEW D, NEW q, NEW s, Ringed(s, q, D), NEW l \in D, NEW v,
           NEW a \in Nat, NEW b \in Nat, NEW c \in Nat, a < b, b < c, c =< Len(q[l]), Exchanged(q[l], v, a, b, c)
    PROVE  Ringed(List!Transfer(s, NodeOf(q[l], l, c + 1), NodeOf(q[l], l, a + 1), NodeOf(q[l], l, b + 1)),
                  [q EXCEPT ![l] = v], D)
<1> DEFINE n == Len(q[l])
           N(i) == NodeOf(q[l], l, i)
           C == Cells(q, D)
           t == List!Transfer(s, N(c + 1), N(a + 1), N(b + 1))
<1>1. Apart(q, D) /\ s \in Memory(C) /\ Linked(s, q[l], l) /\ n \in Nat /\ C \subseteq Int
    <2>1. Apart(q, D) /\ s \in Memory(C) /\ Linked(s, q[l], l)
        BY DEF Ringed
    <2>2. C \subseteq Int
        BY <2>1 DEF Apart, Cells
    <2>3. q[l] \in Seq(Int)
        BY <2>1 DEF Apart
    <2>4. n \in Nat
        BY <2>3
    <2>5. QED
        BY <2>1, <2>2, <2>4
<1>2. /\ a \in 0 .. n /\ b \in 0 .. n /\ c \in 0 .. n
      /\ a \in 0 .. n + 1 /\ b \in 0 .. n + 1 /\ c \in 0 .. n + 1
      /\ a + 1 \in 1 .. n + 1 /\ b + 1 \in 1 .. n + 1 /\ c + 1 \in 1 .. n + 1
      /\ a + 1 \in 0 .. n + 1 /\ b + 1 \in 0 .. n + 1 /\ c + 1 \in 0 .. n + 1
      /\ a + 1 # b + 1 /\ b + 1 # c + 1 /\ a + 1 # c + 1 /\ a # b /\ b # c /\ a # c
    <2>1. n \in Nat /\ c =< n
        BY <1>1
    <2> HIDE DEF n
    <2>2. QED
        BY <2>1
<1>3. /\ N(a) \in C /\ N(b) \in C /\ N(c) \in C
      /\ N(a + 1) \in C /\ N(b + 1) \in C /\ N(c + 1) \in C
    BY <1>1, <1>2, NodesAreCells
<1>4. /\ N(a) = s.m[N(a + 1)].prev /\ N(b) = s.m[N(b + 1)].prev /\ N(c) = s.m[N(c + 1)].prev
    BY <1>1, <1>2 DEF Linked
<1>5. N(a) # N(b) /\ N(b) # N(c) /\ N(a) # N(c)
    BY <1>1, <1>2, NodesDiffer
<1>6. N(a + 1) # N(b + 1) /\ N(b + 1) # N(c + 1) /\ N(a + 1) # N(c + 1)
    BY <1>1, <1>2, NodesDiffer
<1> HIDE DEF N, C
<1>7. Moves(C, s, t, N(a), N(a + 1), N(b), N(b + 1), N(c), N(c + 1))
    BY <1>1, <1>3, <1>4, <1>5, <1>6, TransferIs
<1> HIDE DEF t
<1>8. Moves(C, s, t, N(a), N(a + 1), N(b), N(b + 1), N(c), N(c + 1))
    BY <1>7 DEF Moves
<1>9. Ringed(t, [q EXCEPT ![l] = v], D)
    BY <1>8, ExchangedLinks DEF N, C
<1>10. QED
    BY <1>9 DEF t, N

\* ... or that from b + 1 to c before it.
LEMMA TransferForth ==
    ASSUME NEW D, NEW q, NEW s, Ringed(s, q, D), NEW l \in D, NEW v,
           NEW a \in Nat, NEW b \in Nat, NEW c \in Nat, a < b, b < c, c =< Len(q[l]), Exchanged(q[l], v, a, b, c)
    PROVE  Ringed(List!Transfer(s, NodeOf(q[l], l, a + 1), NodeOf(q[l], l, b + 1), NodeOf(q[l], l, c + 1)),
                  [q EXCEPT ![l] = v], D)
<1> DEFINE n == Len(q[l])
           N(i) == NodeOf(q[l], l, i)
           C == Cells(q, D)
           t == List!Transfer(s, N(a + 1), N(b + 1), N(c + 1))
<1>1. Apart(q, D) /\ s \in Memory(C) /\ Linked(s, q[l], l) /\ n \in Nat /\ C \subseteq Int
    <2>1. Apart(q, D) /\ s \in Memory(C) /\ Linked(s, q[l], l)
        BY DEF Ringed
    <2>2. C \subseteq Int
        BY <2>1 DEF Apart, Cells
    <2>3. q[l] \in Seq(Int)
        BY <2>1 DEF Apart
    <2>4. n \in Nat
        BY <2>3
    <2>5. QED
        BY <2>1, <2>2, <2>4
<1>2. /\ a \in 0 .. n /\ b \in 0 .. n /\ c \in 0 .. n
      /\ a \in 0 .. n + 1 /\ b \in 0 .. n + 1 /\ c \in 0 .. n + 1
      /\ a + 1 \in 1 .. n + 1 /\ b + 1 \in 1 .. n + 1 /\ c + 1 \in 1 .. n + 1
      /\ a + 1 \in 0 .. n + 1 /\ b + 1 \in 0 .. n + 1 /\ c + 1 \in 0 .. n + 1
      /\ a + 1 # b + 1 /\ b + 1 # c + 1 /\ a + 1 # c + 1 /\ a # b /\ b # c /\ a # c
    <2>1. n \in Nat /\ c =< n
        BY <1>1
    <2> HIDE DEF n
    <2>2. QED
        BY <2>1
<1>3. /\ N(a) \in C /\ N(b) \in C /\ N(c) \in C
      /\ N(a + 1) \in C /\ N(b + 1) \in C /\ N(c + 1) \in C
    BY <1>1, <1>2, NodesAreCells
<1>4. /\ N(a) = s.m[N(a + 1)].prev /\ N(b) = s.m[N(b + 1)].prev /\ N(c) = s.m[N(c + 1)].prev
    BY <1>1, <1>2 DEF Linked
<1>5. N(a) # N(b) /\ N(b) # N(c) /\ N(a) # N(c)
    BY <1>1, <1>2, NodesDiffer
<1>6. N(a + 1) # N(b + 1) /\ N(b + 1) # N(c + 1) /\ N(a + 1) # N(c + 1)
    BY <1>1, <1>2, NodesDiffer
<1> HIDE DEF N, C
<1>7. Moves(C, s, t, N(b), N(b + 1), N(c), N(c + 1), N(a), N(a + 1))
    BY <1>1, <1>3, <1>4, <1>5, <1>6, TransferIs
<1> HIDE DEF t
<1>8. Moves(C, s, t, N(a), N(a + 1), N(b), N(b + 1), N(c), N(c + 1))
    BY <1>7 DEF Moves
<1>9. Ringed(t, [q EXCEPT ![l] = v], D)
    BY <1>8, ExchangedLinks DEF N, C
<1>10. QED
    BY <1>9 DEF t, N

-----------------------------------------------------------------------------
(* A part of one ring goes into another. *)

\* v is w without the places from a + 1 to b; u is w with the places from
\* a + 1 to b of x behind place c.
Reduced(w, v, a, b) ==
    /\ v \in Seq(Int) /\ Len(v) = Len(w) - (b - a)
    /\ \A i \in 1 .. Len(v) : v[i] = w[IF i =< a THEN i ELSE i + (b - a)]
Given(w, u, c, x, a, b) ==
    /\ u \in Seq(Int) /\ Len(u) = Len(w) + (b - a)
    /\ \A i \in 1 .. Len(u) : u[i] = IF i =< c THEN w[i] ELSE IF i =< c + (b - a) THEN x[i - c + a]
                                     ELSE w[i - (b - a)]
Part(n, a, b) == n \in Nat /\ a \in Nat /\ b \in Nat /\ a < b /\ b =< n

LEMMA TakenNodes ==
    ASSUME NEW w \in Seq(Int), NEW v, NEW l \in Int, NEW a, NEW b, Part(Len(w), a, b), Reduced(w, v, a, b)
    PROVE  \A i \in 0 .. Len(v) + 1 : NodeOf(v, l, i) = NodeOf(w, l, IF i =< a THEN i ELSE i + (b - a))
<1> DEFINE n == Len(w)
           m == Len(v)
<1>1. v \in Seq(Int) /\ \A i \in 1 .. m : v[i] = w[IF i =< a THEN i ELSE i + (b - a)]
    BY DEF Reduced
<1>2. n \in Nat /\ m \in Nat /\ a \in Nat /\ b \in Nat /\ a < b /\ b =< n /\ m = n - (b - a)
    BY <1>1 DEF Part, Reduced
<1>3. /\ NodeOf(v, l, 0) = l /\ NodeOf(v, l, m + 1) = l
      /\ \A i \in 1 .. m : NodeOf(v, l, i) = v[i]
    BY <1>1, NodesAre
<1>4. /\ NodeOf(w, l, 0) = l /\ NodeOf(w, l, n + 1) = l
      /\ \A i \in 1 .. n : NodeOf(w, l, i) = w[i]
    BY NodesAre
<1> HIDE DEF n, m
<1> SUFFICES ASSUME NEW i \in 0 .. m + 1
             PROVE  NodeOf(v, l, i) = NodeOf(w, l, IF i =< a THEN i ELSE i + (b - a))
    BY DEF m
<1>5. CASE i \in 1 .. m
    <2> DEFINE g == IF i =< a THEN i ELSE i + (b - a)
    <2>1. g \in 1 .. n
        BY <1>2, <1>5
    <2>2. v[i] = w[g]
        BY <1>1, <1>5
    <2> HIDE DEF g
    <2>3. NodeOf(v, l, i) = NodeOf(w, l, g)
        BY <1>3, <1>4, <1>5, <2>1, <2>2
    <2>4. QED
        BY <2>3 DEF g
<1>6. CASE i = 0
    BY <1>2, <1>3, <1>4, <1>6
<1>7. CASE i = m + 1
    <2>1. ~ (i =< a) /\ i + (b - a) = n + 1
        BY <1>2, <1>7
    <2>2. QED
        BY <1>3, <1>4, <1>7, <2>1
<1>8. QED
    BY <1>2, <1>5, <1>6, <1>7

GivenAt(w, u, k, c, x, l, a, b) ==
    \A i \in 0 .. Len(u) + 1 :
      NodeOf(u, k, i) = IF i =< c THEN NodeOf(w, k, i)
                        ELSE IF i =< c + (b - a) THEN NodeOf(x, l, i - c + a)
                        ELSE NodeOf(w, k, i - (b - a))

LEMMA GivenNodes ==
    ASSUME NEW w \in Seq(Int), NEW u, NEW k \in Int, NEW c \in 0 .. Len(w),
           NEW x \in Seq(Int), NEW l \in Int, NEW a, NEW b, Part(Len(x), a, b), Given(w, u, c, x, a, b)
    PROVE  GivenAt(w, u, k, c, x, l, a, b)
<1> DEFINE n == Len(w)
           m == Len(u)
           e == Len(x)
<1>1. u \in Seq(Int)
    BY DEF Given
<1>2. n \in Nat /\ m \in Nat /\ e \in Nat /\ a \in Nat /\ b \in Nat /\ a < b /\ b =< e /\ m = n + (b - a) /\ c \in Nat /\ c =< n
    BY <1>1 DEF Part, Given
<1>3. /\ NodeOf(u, k, 0) = k /\ NodeOf(u, k, m + 1) = k
      /\ \A i \in 1 .. m : NodeOf(u, k, i) = u[i]
    BY <1>1, NodesAre
<1>4. /\ NodeOf(w, k, 0) = k /\ NodeOf(w, k, n + 1) = k
      /\ \A i \in 1 .. n : NodeOf(w, k, i) = w[i]
    BY NodesAre
<1>5. \A i \in 1 .. e : NodeOf(x, l, i) = x[i]
    BY NodesAre
<1>6. \A i \in 1 .. m : u[i] = IF i =< c THEN w[i] ELSE IF i =< c + (b - a) THEN x[i - c + a]
                                     ELSE w[i - (b - a)]
    BY DEF Given
<1> HIDE DEF n, m, e
<1> SUFFICES ASSUME NEW i \in 0 .. m + 1
             PROVE  NodeOf(u, k, i) = IF i =< c THEN NodeOf(w, k, i)
                               ELSE IF i =< c + (b - a) THEN NodeOf(x, l, i - c + a)
                               ELSE NodeOf(w, k, i - (b - a))
    BY DEF m, GivenAt
<1>7. CASE i \in 1 .. m /\ i =< c
    <2>1. i \in 1 .. n /\ u[i] = w[i]
        BY <1>2, <1>6, <1>7
    <2>2. QED
        BY <1>3, <1>4, <1>7, <2>1
<1>8. CASE i \in 1 .. m /\ ~ (i =< c) /\ i =< c + (b - a)
    <2> DEFINE g == i - c + a
    <2>1. g \in 1 .. e
        BY <1>2, <1>8
    <2>2. u[i] = x[g]
        BY <1>6, <1>8
    <2> HIDE DEF g
    <2>3. NodeOf(u, k, i) = NodeOf(x, l, g)
        BY <1>3, <1>5, <1>8, <2>1, <2>2
    <2>4. QED
        BY <1>8, <2>3 DEF g
<1>9. CASE i \in 1 .. m /\ ~ (i =< c) /\ ~ (i =< c + (b - a))
    <2> DEFINE g == i - (b - a)
    <2>1. g \in 1 .. n
        BY <1>2, <1>9
    <2>2. u[i] = w[g]
        BY <1>6, <1>9
    <2> HIDE DEF g
    <2>3. NodeOf(u, k, i) = NodeOf(w, k, g)
        BY <1>3, <1>4, <1>9, <2>1, <2>2
    <2>4. QED
        BY <1>9, <2>3 DEF g
<1>10. CASE i = 0
    BY <1>2, <1>3, <1>4, <1>10
<1>11. CASE i = m + 1
    <2>1. ~ (i =< c) /\ ~ (i =< c + (b - a)) /\ i - (b - a) = n + 1
        BY <1>2, <1>11
    <2>2. QED
        BY <1>3, <1>4, <1>11, <2>1
<1>12. QED
    BY <1>2, <1>7, <1>8, <1>9, <1>10, <1>11

\* The sequences of l and k when a part goes from one to the other.
Passes(q, l, k, v, u, a, b, c) ==
    /\ k # l
    /\ Part(Len(q[l]), a, b) /\ c \in 0 .. Len(q[k])
    /\ Reduced(q[l], v, a, b)
    /\ Given(q[k], u, c, q[l], a, b)

\* No node is in two places after a part went to another ring.
LEMMA AcrossApart ==
    ASSUME NEW D, NEW q, Apart(q, D), NEW l \in D, NEW k \in D, NEW v, NEW u, NEW a, NEW b, NEW c,
           Passes(q, l, k, v, u, a, b, c)
    PROVE  /\ Apart([[q EXCEPT ![l] = v] EXCEPT ![k] = u], D)
           /\ Cells([[q EXCEPT ![l] = v] EXCEPT ![k] = u], D) = Cells(q, D)
<1> USE DEF Passes
<1> DEFINE r == [[q EXCEPT ![l] = v] EXCEPT ![k] = u]
           n == Len(q[l])
           e == Len(q[k])
           vl == Len(v)
           ul == Len(u)
<1>1. D \subseteq Int /\ q \in [D -> Seq(Int)] /\ q[l] \in Seq(Int) /\ q[k] \in Seq(Int)
    BY DEF Apart
<1>2. v \in Seq(Int) /\ u \in Seq(Int)
    BY DEF Reduced, Given
<1>3. /\ n \in Nat /\ e \in Nat /\ vl \in Nat /\ ul \in Nat /\ a \in Nat /\ b \in Nat /\ a < b /\ b =< n
      /\ c \in Nat /\ c =< e
    BY <1>1, <1>2 DEF Part
<1>4. vl = n - (b - a) /\ ul = e + (b - a)
    BY DEF Reduced, Given
<1>5. r \in [D -> Seq(Int)] /\ r[l] = v /\ r[k] = u /\ \A j \in D : j # l /\ j # k => r[j] = q[j]
    BY <1>1, <1>2
<1>6. \A i \in 1 .. vl : v[i] = q[l][IF i =< a THEN i ELSE i + (b - a)]
    BY DEF Reduced
<1>7. \A i \in 1 .. ul : u[i] = IF i =< c THEN q[k][i] ELSE IF i =< c + (b - a) THEN q[l][i - c + a]
                                ELSE q[k][i - (b - a)]
    BY DEF Given
<1>8. ASSUME NEW i \in 1 .. vl
      PROVE  \E g \in 1 .. n : /\ v[i] = q[l][g]
                               /\ (g =< a /\ g = i) \/ (g > b /\ g = i + (b - a))
    <2> HIDE DEF n, vl
    <2>1. CASE i =< a
        <3>1. i \in 1 .. n
            BY <1>3, <1>4, <2>1
        <3>2. v[i] = q[l][i]
            BY <1>6, <2>1
        <3>3. QED
            BY <2>1, <3>1, <3>2
    <2>2. CASE ~ (i =< a)
        <3>1. i + (b - a) \in 1 .. n /\ i + (b - a) > b
            BY <1>3, <1>4, <2>2
        <3>2. v[i] = q[l][i + (b - a)]
            BY <1>6, <2>2
        <3>3. QED
            BY <3>1, <3>2
    <2>3. QED
        BY <2>1, <2>2
<1>9. ASSUME NEW i \in 1 .. ul
      PROVE  \/ \E g \in 1 .. e : /\ u[i] = q[k][g]
                                  /\ (g =< c /\ g = i) \/ (g > c /\ i = g + (b - a))
             \/ \E g \in 1 .. n : /\ u[i] = q[l][g]
                                  /\ a < g /\ g =< b /\ i = g + c - a
    <2> HIDE DEF n, e, ul
    <2>1. CASE i =< c
        <3>1. i \in 1 .. e
            BY <1>3, <1>4, <2>1
        <3>2. u[i] = q[k][i]
            BY <1>7, <2>1
        <3>3. QED
            BY <2>1, <3>1, <3>2
    <2>2. CASE ~ (i =< c) /\ i =< c + (b - a)
        <3>1. i - c + a \in 1 .. n /\ a < i - c + a /\ i - c + a =< b /\ i = (i - c + a) + c - a
            BY <1>3, <1>4, <2>2
        <3>2. u[i] = q[l][i - c + a]
            BY <1>7, <2>2
        <3>3. QED
            BY <3>1, <3>2
    <2>3. CASE ~ (i =< c) /\ ~ (i =< c + (b - a))
        <3>1. i - (b - a) \in 1 .. e /\ i - (b - a) > c /\ i = (i - (b - a)) + (b - a)
            BY <1>3, <1>4, <2>3
        <3>2. u[i] = q[k][i - (b - a)]
            BY <1>7, <2>3
        <3>3. QED
            BY <3>1, <3>2
    <2>4. QED
        BY <2>1, <2>2, <2>3
<1> HIDE DEF r
<1>10. \A j \in D : \A i \in 1 .. Len(r[j]) : r[j][i] \notin D
    <2>1. \A j \in D : \A i \in 1 .. Len(q[j]) : q[j][i] \notin D
        BY DEF Apart
    <2>2. \A i \in 1 .. vl : v[i] \notin D
        BY <1>8, <2>1
    <2>3. \A i \in 1 .. ul : u[i] \notin D
        BY <1>9, <2>1
    <2>4. QED
        BY <1>5, <2>1, <2>2, <2>3
<1>11. /\ \A i, j \in 1 .. n : q[l][i] = q[l][j] => i = j
       /\ \A i, j \in 1 .. e : q[k][i] = q[k][j] => i = j
       /\ \A i \in 1 .. n, j \in 1 .. e : q[l][i] # q[k][j]
       /\ \A h \in D : h # l /\ h # k => \A i \in 1 .. Len(q[h]) :
            /\ \A j \in 1 .. n : q[l][j] # q[h][i]
            /\ \A j \in 1 .. e : q[k][j] # q[h][i]
    BY OnePlace
<1>12. \A i, j \in 1 .. vl : v[i] = v[j] => i = j
    <2> SUFFICES ASSUME NEW i \in 1 .. vl, NEW j \in 1 .. vl, v[i] = v[j] PROVE i = j
        OBVIOUS
    <2>1. PICK g \in 1 .. n : v[i] = q[l][g] /\ ((g =< a /\ g = i) \/ (g > b /\ g = i + (b - a)))
        BY <1>8
    <2>2. PICK h \in 1 .. n : v[j] = q[l][h] /\ ((h =< a /\ h = j) \/ (h > b /\ h = j + (b - a)))
        BY <1>8
    <2>3. g = h
        BY <1>11, <2>1, <2>2
    <2> HIDE DEF n, vl
    <2>4. QED
        BY <1>3, <2>1, <2>2, <2>3
<1>13. \A i, j \in 1 .. ul : u[i] = u[j] => i = j
    <2> SUFFICES ASSUME NEW i \in 1 .. ul, NEW j \in 1 .. ul, u[i] = u[j] PROVE i = j
        OBVIOUS
    <2> DEFINE P(x, g) == u[x] = q[k][g] /\ ((g =< c /\ g = x) \/ (g > c /\ x = g + (b - a)))
               Q(x, g) == u[x] = q[l][g] /\ a < g /\ g =< b /\ x = g + c - a
    <2>1. (\E g \in 1 .. e : P(i, g)) \/ (\E g \in 1 .. n : Q(i, g))
        BY <1>9
    <2>2. (\E g \in 1 .. e : P(j, g)) \/ (\E g \in 1 .. n : Q(j, g))
        BY <1>9
    <2>3. ASSUME NEW g \in 1 .. e, NEW h \in 1 .. e, P(i, g), P(j, h) PROVE i = j
        <3>1. g = h
            BY <1>11, <2>3
        <3> HIDE DEF n, e, ul
        <3>2. QED
            BY <1>3, <2>3, <3>1
    <2>4. ASSUME NEW g \in 1 .. n, NEW h \in 1 .. n, Q(i, g), Q(j, h) PROVE i = j
        <3>1. g = h
            BY <1>11, <2>4
        <3> HIDE DEF n, e, ul
        <3>2. QED
            BY <1>3, <2>4, <3>1
    <2>5. ASSUME NEW g \in 1 .. e, NEW h \in 1 .. n, P(i, g), Q(j, h) PROVE FALSE
        BY <1>11, <2>5
    <2>6. ASSUME NEW g \in 1 .. n, NEW h \in 1 .. e, Q(i, g), P(j, h) PROVE FALSE
        BY <1>11, <2>6
    <2> HIDE DEF P, Q, n, e, ul
    <2>7. QED
        BY <2>1, <2>2, <2>3, <2>4, <2>5, <2>6
<1>14. \A i \in 1 .. vl, j \in 1 .. ul : v[i] # u[j]
    <2> SUFFICES ASSUME NEW i \in 1 .. vl, NEW j \in 1 .. ul, v[i] = u[j] PROVE FALSE
        OBVIOUS
    <2>1. PICK g \in 1 .. n : v[i] = q[l][g] /\ ((g =< a /\ g = i) \/ (g > b /\ g = i + (b - a)))
        BY <1>8
    <2>2. CASE \E h \in 1 .. e : u[j] = q[k][h]
        BY <1>11, <2>1, <2>2
    <2>3. ASSUME NEW h \in 1 .. n, u[j] = q[l][h], a < h, h =< b PROVE FALSE
        <3>1. g = h
            BY <1>11, <2>1, <2>3
        <3> HIDE DEF n, vl
        <3>2. QED
            BY <1>3, <2>1, <2>3, <3>1
    <2>4. QED
        BY <1>9, <2>2, <2>3
<1>15. ASSUME NEW h \in D, h # l, h # k, NEW i \in 1 .. Len(q[h])
       PROVE  (\A j \in 1 .. vl : v[j] # q[h][i]) /\ (\A j \in 1 .. ul : u[j] # q[h][i])
    BY <1>8, <1>9, <1>11, <1>15
<1>16. ASSUME NEW g \in D, NEW h \in D, NEW i \in 1 .. Len(r[g]), NEW j \in 1 .. Len(r[h]), r[g][i] = r[h][j]
       PROVE  g = h /\ i = j
    <2>2. CASE g = l
        <3>1. r[g] = v /\ i \in 1 .. vl /\ v[i] = r[h][j]
            BY <1>5, <1>16, <2>2
        <3>2. CASE h = l
            BY <1>5, <1>12, <2>2, <3>1, <3>2
        <3>3. CASE h = k
            BY <1>5, <1>14, <3>1, <3>3
        <3>4. CASE h # l /\ h # k
            <4>1. r[h] = q[h] /\ j \in 1 .. Len(q[h])
                BY <1>5, <3>4
            <4>2. QED
                BY <1>15, <3>1, <3>4, <4>1
        <3>5. QED
            BY <3>2, <3>3, <3>4
    <2>3. CASE g = k
        <3>1. r[g] = u /\ i \in 1 .. ul /\ u[i] = r[h][j]
            BY <1>5, <1>16, <2>3
        <3>2. CASE h = k
            BY <1>5, <1>13, <2>3, <3>1, <3>2
        <3>3. CASE h = l
            BY <1>5, <1>14, <3>1, <3>3
        <3>4. CASE h # l /\ h # k
            <4>1. r[h] = q[h] /\ j \in 1 .. Len(q[h])
                BY <1>5, <3>4
            <4>2. QED
                BY <1>15, <3>1, <3>4, <4>1
        <3>5. QED
            BY <3>2, <3>3, <3>4
    <2>6. CASE g # l /\ g # k /\ h = l
        <3>1. r[g] = q[g] /\ i \in 1 .. Len(q[g]) /\ j \in 1 .. vl /\ q[g][i] = v[j]
            BY <1>5, <1>16, <2>6
        <3>2. QED
            BY <1>15, <2>6, <3>1
    <2>7. CASE g # l /\ g # k /\ h = k
        <3>1. r[g] = q[g] /\ i \in 1 .. Len(q[g]) /\ j \in 1 .. ul /\ q[g][i] = u[j]
            BY <1>5, <1>16, <2>7
        <3>2. QED
            BY <1>15, <2>7, <3>1
    <2>4. CASE g # l /\ g # k /\ h # l /\ h # k
        <3>1. r[g] = q[g] /\ r[h] = q[h]
            BY <1>5, <2>4
        <3>2. i \in 1 .. Len(q[g]) /\ j \in 1 .. Len(q[h]) /\ q[g][i] = q[h][j]
            BY <1>16, <3>1
        <3>3. QED
            BY <3>2, OnePlace
    <2>5. QED
        BY <2>2, <2>3, <2>4, <2>6, <2>7
<1>17. Apart(r, D)
    BY <1>1, <1>5, <1>10, <1>16 DEF Apart
<1>18. ASSUME NEW x \in Int
       PROVE  (\E j \in D : \E i \in 1 .. Len(r[j]) : r[j][i] = x) <=> (\E j \in D : \E i \in 1 .. Len(q[j]) : q[j][i] = x)
    <2>1. ASSUME NEW j \in D, NEW i \in 1 .. Len(r[j]), r[j][i] = x
          PROVE  \E h \in D : \E g \in 1 .. Len(q[h]) : q[h][g] = x
        <3>1. CASE j = l
            BY <1>5, <1>8, <2>1, <3>1
        <3>2. CASE j = k
            BY <1>5, <1>9, <2>1, <3>2
        <3>3. CASE j # l /\ j # k
            BY <1>5, <2>1, <3>3
        <3>4. QED
            BY <3>1, <3>2, <3>3
    <2>2. ASSUME NEW g \in 1 .. n, q[l][g] = x
          PROVE  (\E i \in 1 .. vl : v[i] = x) \/ (\E i \in 1 .. ul : u[i] = x)
        <3> HIDE DEF n, e, vl, ul
        <3>1. CASE g =< a
            <4>1. g \in 1 .. vl /\ v[g] = q[l][g]
                BY <1>3, <1>4, <1>6, <3>1
            <4>2. QED
                BY <2>2, <4>1
        <3>2. CASE g > b
            <4> DEFINE i == g - (b - a)
            <4>1. i \in 1 .. vl /\ ~ (i =< a) /\ i + (b - a) = g
                BY <1>3, <1>4, <3>2
            <4> HIDE DEF i
            <4>2. v[i] = q[l][g]
                BY <1>6, <4>1
            <4>3. QED
                BY <2>2, <4>1, <4>2
        <3>3. CASE ~ (g =< a) /\ ~ (g > b)
            <4> DEFINE i == g + c - a
            <4>1. i \in 1 .. ul /\ ~ (i =< c) /\ i =< c + (b - a) /\ i - c + a = g
                BY <1>3, <1>4, <3>3
            <4> HIDE DEF i
            <4>2. u[i] = q[l][g]
                BY <1>7, <4>1
            <4>3. QED
                BY <2>2, <4>1, <4>2
        <3>4. QED
            BY <3>1, <3>2, <3>3
    <2>3. ASSUME NEW g \in 1 .. e, q[k][g] = x
          PROVE  \E i \in 1 .. ul : u[i] = x
        <3> HIDE DEF n, e, vl, ul
        <3>1. CASE g =< c
            <4>1. g \in 1 .. ul /\ u[g] = q[k][g]
                BY <1>3, <1>4, <1>7, <3>1
            <4>2. QED
                BY <2>3, <4>1
        <3>2. CASE ~ (g =< c)
            <4> DEFINE i == g + (b - a)
            <4>1. i \in 1 .. ul /\ ~ (i =< c) /\ ~ (i =< c + (b - a)) /\ i - (b - a) = g
                BY <1>3, <1>4, <3>2
            <4> HIDE DEF i
            <4>2. u[i] = q[k][g]
                BY <1>7, <4>1
            <4>3. QED
                BY <2>3, <4>1, <4>2
        <3>4. QED
            BY <3>1, <3>2
    <2>4. ASSUME NEW j \in D, NEW i \in 1 .. Len(q[j]), q[j][i] = x
          PROVE  \E h \in D : \E g \in 1 .. Len(r[h]) : r[h][g] = x
        <3>1. CASE j = l
            BY <1>5, <2>2, <2>4, <3>1
        <3>2. CASE j = k
            BY <1>5, <2>3, <2>4, <3>2
        <3>3. CASE j # l /\ j # k
            BY <1>5, <2>4, <3>3
        <3>4. QED
            BY <3>1, <3>2, <3>3
    <2>5. QED
        BY <2>1, <2>4
<1>19. Cells(r, D) = Cells(q, D)
    BY <1>18 DEF Cells
<1>20. QED
    BY <1>17, <1>19 DEF r

\* The part of ring l from a + 1 to b goes behind place c of ring k.
LEMMA TransferAcross ==
    ASSUME NEW D, NEW q, NEW s, Ringed(s, q, D), NEW l \in D, NEW k \in D, NEW v, NEW u, NEW a, NEW b, NEW c,
           Passes(q, l, k, v, u, a, b, c)
    PROVE  Ringed(List!Transfer(s, NodeOf(q[k], k, c + 1), NodeOf(q[l], l, a + 1), NodeOf(q[l], l, b + 1)),
                  [[q EXCEPT ![l] = v] EXCEPT ![k] = u], D)
<1> USE DEF Passes
<1> DEFINE r == [[q EXCEPT ![l] = v] EXCEPT ![k] = u]
           n == Len(q[l])
           e == Len(q[k])
           vl == Len(v)
           ul == Len(u)
           N(i) == NodeOf(q[l], l, i)
           K(i) == NodeOf(q[k], k, i)
           V(i) == NodeOf(v, l, i)
           U(i) == NodeOf(u, k, i)
           C == Cells(q, D)
           t == List!Transfer(s, K(c + 1), N(a + 1), N(b + 1))
<1>1. Apart(q, D) /\ IsFiniteSet(C) /\ s \in Memory(C) /\ \A j \in D : Linked(s, q[j], j)
    BY DEF Ringed
<1>2. D \subseteq Int /\ C \subseteq Int /\ q \in [D -> Seq(Int)] /\ q[l] \in Seq(Int) /\ q[k] \in Seq(Int)
    BY <1>1 DEF Apart, Cells
<1>3. v \in Seq(Int) /\ u \in Seq(Int)
    BY DEF Reduced, Given
<1>4. /\ n \in Nat /\ e \in Nat /\ vl \in Nat /\ ul \in Nat /\ a \in Nat /\ b \in Nat /\ a < b /\ b =< n
      /\ c \in Nat /\ c =< e
    BY <1>2, <1>3 DEF Part
<1>5. vl = n - (b - a) /\ ul = e + (b - a)
    BY DEF Reduced, Given
<1>6. r \in [D -> Seq(Int)] /\ r[l] = v /\ r[k] = u /\ \A j \in D : j # l /\ j # k => r[j] = q[j]
    BY <1>2, <1>3
<1>7. Apart(r, D) /\ Cells(r, D) = C
    <2>1. Apart(q, D)
        BY <1>1
    <2> HIDE DEF Passes
    <2>2. QED
        BY <2>1, AcrossApart
<1>8. \A i \in 0 .. vl + 1 : V(i) = N(IF i =< a THEN i ELSE i + (b - a))
    BY <1>2, TakenNodes
<1>9. \A i \in 0 .. ul + 1 : U(i) = IF i =< c THEN K(i) ELSE IF i =< c + (b - a) THEN N(i - c + a)
                                    ELSE K(i - (b - a))
    <2>1. l \in Int /\ k \in Int /\ c \in 0 .. Len(q[k])
        BY <1>2
    <2>2. GivenAt(q[k], u, k, c, q[l], l, a, b)
        BY <1>2, <2>1, GivenNodes
    <2>3. QED
        BY <2>2 DEF GivenAt
<1>10. /\ \A i, j \in 0 .. n : N(i) = N(j) => i = j
       /\ \A i, j \in 1 .. n + 1 : N(i) = N(j) => i = j
       /\ \A i, j \in 0 .. e : K(i) = K(j) => i = j
       /\ \A i, j \in 1 .. e + 1 : K(i) = K(j) => i = j
       /\ \A i \in 0 .. n + 1, j \in 0 .. e + 1 : N(i) # K(j)
    <2>1. \A i, j \in 0 .. n : N(i) = N(j) => i = j
        BY <1>1, NodesDiffer
    <2>2. \A i, j \in 1 .. n + 1 : N(i) = N(j) => i = j
        BY <1>1, NodesDiffer
    <2>3. \A i, j \in 0 .. e : K(i) = K(j) => i = j
        BY <1>1, NodesDiffer
    <2>4. \A i, j \in 1 .. e + 1 : K(i) = K(j) => i = j
        BY <1>1, NodesDiffer
    <2>5. \A i \in 0 .. n + 1, j \in 0 .. e + 1 : N(i) # K(j)
        BY <1>1, NodesDiffer
    <2>6. QED
        BY <2>1, <2>2, <2>3, <2>4, <2>5
<1>11. (\A i \in 0 .. n + 1 : N(i) \in C) /\ (\A i \in 0 .. e + 1 : K(i) \in C)
    BY <1>1, NodesAreCells
<1>12. /\ \A i \in 0 .. n : s.m[N(i)].next = N(i + 1) /\ s.m[N(i + 1)].prev = N(i)
       /\ \A i \in 0 .. e : s.m[K(i)].next = K(i + 1) /\ s.m[K(i + 1)].prev = K(i)
    BY <1>1 DEF Linked
<1>13. /\ a \in 0 .. n /\ b \in 0 .. n /\ a \in 0 .. n + 1 /\ b \in 0 .. n + 1
       /\ a + 1 \in 1 .. n + 1 /\ b + 1 \in 1 .. n + 1 /\ a + 1 \in 0 .. n + 1 /\ b + 1 \in 0 .. n + 1
       /\ a # b /\ a + 1 # b + 1
       /\ c \in 0 .. e /\ c \in 0 .. e + 1 /\ c + 1 \in 1 .. e + 1 /\ c + 1 \in 0 .. e + 1
    <2> HIDE DEF n, e
    <2>1. QED
        BY <1>4
<1>14. Moves(C, s, t, N(a), N(a + 1), N(b), N(b + 1), K(c), K(c + 1))
    <2>1. /\ N(a) \in C /\ N(b) \in C /\ N(a + 1) \in C /\ N(b + 1) \in C /\ K(c) \in C /\ K(c + 1) \in C
        BY <1>11, <1>13
    <2>2. N(a) = s.m[N(a + 1)].prev /\ N(b) = s.m[N(b + 1)].prev /\ K(c) = s.m[K(c + 1)].prev
        BY <1>12, <1>13
    <2>3. N(a) # N(b) /\ N(a + 1) # N(b + 1) /\ K(c) # N(a) /\ K(c) # N(b) /\ K(c + 1) # N(a + 1) /\ K(c + 1) # N(b + 1)
        BY <1>10, <1>13
    <2> HIDE DEF N, K, C
    <2>4. QED
        BY <1>1, <1>2, <2>1, <2>2, <2>3, TransferIs
<1>15. t \in Memory(C)
    BY <1>14 DEF Moves
<1> HIDE DEF n, e, vl, ul, N, K, V, U, t, r, C
<1>16. ASSUME NEW g \in 0 .. n
       PROVE  t.m[N(g)].next = IF g = a THEN N(b + 1) ELSE IF g = b THEN K(c + 1) ELSE N(g + 1)
    <2>1. g \in 0 .. n + 1 /\ N(g) \in C /\ s.m[N(g)].next = N(g + 1)
        BY <1>4, <1>11, <1>12
    <2>2. (N(g) = N(a) => g = a) /\ (N(g) = N(b) => g = b) /\ N(g) # K(c)
        BY <1>10, <1>13, <2>1
    <2>3. /\ N(g) = N(a) => t.m[N(g)].next = N(b + 1)
          /\ N(g) = N(b) => t.m[N(g)].next = K(c + 1)
          /\ N(g) # N(a) /\ N(g) # N(b) /\ N(g) # K(c) => t.m[N(g)].next = s.m[N(g)].next
        BY <1>14, <2>1 DEF Moves
    <2>4. QED
        BY <1>13, <2>1, <2>2, <2>3
<1>17. ASSUME NEW h \in 1 .. n + 1
       PROVE  t.m[N(h)].prev = IF h = a + 1 THEN K(c) ELSE IF h = b + 1 THEN N(a) ELSE N(h - 1)
    <2>1. h \in 0 .. n + 1 /\ h - 1 \in 0 .. n /\ (h - 1) + 1 = h
        BY <1>4
    <2>2. N(h) \in C /\ s.m[N(h)].prev = N(h - 1)
        BY <1>11, <1>12, <2>1
    <2>3. (N(h) = N(a + 1) => h = a + 1) /\ (N(h) = N(b + 1) => h = b + 1) /\ N(h) # K(c + 1)
        BY <1>10, <1>13, <2>1
    <2>4. /\ N(h) = N(b + 1) => t.m[N(h)].prev = N(a)
          /\ N(h) = N(a + 1) => t.m[N(h)].prev = K(c)
          /\ N(h) # N(a + 1) /\ N(h) # N(b + 1) /\ N(h) # K(c + 1) => t.m[N(h)].prev = s.m[N(h)].prev
        BY <1>14, <2>2 DEF Moves
    <2>5. QED
        BY <1>13, <2>2, <2>3, <2>4
<1>18. ASSUME NEW g \in 0 .. e
       PROVE  t.m[K(g)].next = IF g = c THEN N(a + 1) ELSE K(g + 1)
    <2>1. g \in 0 .. e + 1 /\ K(g) \in C /\ s.m[K(g)].next = K(g + 1)
        BY <1>4, <1>11, <1>12
    <2>2. K(g) # N(a) /\ K(g) # N(b) /\ (K(g) = K(c) => g = c)
        BY <1>10, <1>13, <2>1
    <2>3. /\ K(g) = K(c) => t.m[K(g)].next = N(a + 1)
          /\ K(g) # N(a) /\ K(g) # N(b) /\ K(g) # K(c) => t.m[K(g)].next = s.m[K(g)].next
        BY <1>14, <2>1 DEF Moves
    <2>4. QED
        BY <2>1, <2>2, <2>3
<1>19. ASSUME NEW h \in 1 .. e + 1
       PROVE  t.m[K(h)].prev = IF h = c + 1 THEN N(b) ELSE K(h - 1)
    <2>1. h \in 0 .. e + 1 /\ h - 1 \in 0 .. e /\ (h - 1) + 1 = h
        BY <1>4
    <2>2. K(h) \in C /\ s.m[K(h)].prev = K(h - 1)
        BY <1>11, <1>12, <2>1
    <2>3. K(h) # N(a + 1) /\ K(h) # N(b + 1) /\ (K(h) = K(c + 1) => h = c + 1)
        BY <1>10, <1>13, <2>1
    <2>4. /\ K(h) = K(c + 1) => t.m[K(h)].prev = N(b)
          /\ K(h) # N(a + 1) /\ K(h) # N(b + 1) /\ K(h) # K(c + 1) => t.m[K(h)].prev = s.m[K(h)].prev
        BY <1>14, <2>2 DEF Moves
    <2>5. QED
        BY <2>2, <2>3, <2>4
<1>20. ASSUME NEW i \in 0 .. vl
       PROVE  t.m[V(i)].next = V(i + 1) /\ t.m[V(i + 1)].prev = V(i)
    <2>1. i \in 0 .. vl + 1 /\ i + 1 \in 0 .. vl + 1
        BY <1>4
    <2>2. CASE i < a
        <3>1. V(i) = N(i) /\ V(i + 1) = N(i + 1)
            BY <1>4, <1>8, <2>1, <2>2
        <3>2. i \in 0 .. n /\ i # a /\ i # b /\ i + 1 \in 1 .. n + 1 /\ i + 1 # a + 1 /\ i + 1 # b + 1 /\ (i + 1) - 1 = i
            BY <1>4, <2>2
        <3>3. QED
            BY <1>16, <1>17, <3>1, <3>2
    <2>3. CASE i = a
        <3>1. V(i) = N(a) /\ V(i + 1) = N((i + 1) + (b - a)) /\ (i + 1) + (b - a) = b + 1
            BY <1>4, <1>8, <2>1, <2>3
        <3>2. QED
            BY <1>13, <1>16, <1>17, <3>1
    <2>4. CASE i > a
        <3> DEFINE g == i + (b - a)
        <3>1. V(i) = N(g) /\ V(i + 1) = N((i + 1) + (b - a)) /\ (i + 1) + (b - a) = g + 1
            BY <1>4, <1>8, <2>1, <2>4
        <3>2. g \in 0 .. n /\ g # a /\ g # b /\ g + 1 \in 1 .. n + 1 /\ g + 1 # a + 1 /\ g + 1 # b + 1 /\ (g + 1) - 1 = g
            BY <1>4, <1>5, <2>4
        <3> HIDE DEF g
        <3>3. QED
            BY <1>16, <1>17, <3>1, <3>2
    <2>5. QED
        BY <1>4, <2>2, <2>3, <2>4
<1>21. ASSUME NEW i \in 0 .. ul
       PROVE  t.m[U(i)].next = U(i + 1) /\ t.m[U(i + 1)].prev = U(i)
    <2>1. i \in 0 .. ul + 1 /\ i + 1 \in 0 .. ul + 1
        BY <1>4
    <2>2. CASE i < c
        <3>1. U(i) = K(i) /\ U(i + 1) = K(i + 1)
            BY <1>4, <1>9, <2>1, <2>2
        <3>2. i \in 0 .. e /\ i # c /\ i + 1 \in 1 .. e + 1 /\ i + 1 # c + 1 /\ (i + 1) - 1 = i
            BY <1>4, <2>2
        <3>3. QED
            BY <1>18, <1>19, <3>1, <3>2
    <2>3. CASE i = c
        <3>1. U(i) = K(c) /\ U(i + 1) = N((i + 1) - c + a) /\ (i + 1) - c + a = a + 1
            BY <1>4, <1>9, <2>1, <2>3
        <3>2. QED
            BY <1>13, <1>17, <1>18, <3>1
    <2>4. CASE i > c /\ i < c + (b - a)
        <3> DEFINE g == i - c + a
        <3>1. U(i) = N(g) /\ U(i + 1) = N((i + 1) - c + a) /\ (i + 1) - c + a = g + 1
            BY <1>4, <1>9, <2>1, <2>4
        <3>2. g \in 0 .. n /\ g # a /\ g # b /\ g + 1 \in 1 .. n + 1 /\ g + 1 # a + 1 /\ g + 1 # b + 1 /\ (g + 1) - 1 = g
            BY <1>4, <1>5, <2>4
        <3> HIDE DEF g
        <3>3. QED
            BY <1>16, <1>17, <3>1, <3>2
    <2>5. CASE i = c + (b - a)
        <3>1. U(i) = N(i - c + a) /\ i - c + a = b /\ U(i + 1) = K((i + 1) - (b - a)) /\ (i + 1) - (b - a) = c + 1
            BY <1>4, <1>9, <2>1, <2>5
        <3>2. QED
            BY <1>13, <1>16, <1>19, <3>1
    <2>6. CASE i > c + (b - a)
        <3> DEFINE g == i - (b - a)
        <3>1. U(i) = K(g) /\ U(i + 1) = K((i + 1) - (b - a)) /\ (i + 1) - (b - a) = g + 1
            BY <1>4, <1>9, <2>1, <2>6
        <3>2. g \in 0 .. e /\ g # c /\ g + 1 \in 1 .. e + 1 /\ g + 1 # c + 1 /\ (g + 1) - 1 = g
            BY <1>4, <1>5, <2>6
        <3> HIDE DEF g
        <3>3. QED
            BY <1>18, <1>19, <3>1, <3>2
    <2>7. QED
        BY <1>4, <2>2, <2>3, <2>4, <2>5, <2>6
<1>22. ASSUME NEW j \in D, j # l, j # k PROVE Linked(t, q[j], j)
    <2> SUFFICES ASSUME NEW i \in 0 .. Len(q[j])
                 PROVE  /\ t.m[NodeOf(q[j], j, i)].next = NodeOf(q[j], j, i + 1)
                        /\ t.m[NodeOf(q[j], j, i + 1)].prev = NodeOf(q[j], j, i)
        BY DEF Linked
    <2>1. i \in 0 .. Len(q[j]) + 1 /\ i + 1 \in 0 .. Len(q[j]) + 1
        BY <1>2
    <2>2. /\ s.m[NodeOf(q[j], j, i)].next = NodeOf(q[j], j, i + 1)
          /\ s.m[NodeOf(q[j], j, i + 1)].prev = NodeOf(q[j], j, i)
        BY <1>1 DEF Linked
    <2>3. NodeOf(q[j], j, i) \in C /\ NodeOf(q[j], j, i + 1) \in C
        BY <1>1, <2>1, NodesAreCells DEF C
    <2>4. /\ \A g \in 0 .. n + 1 : N(g) # NodeOf(q[j], j, i) /\ N(g) # NodeOf(q[j], j, i + 1)
          /\ \A g \in 0 .. e + 1 : K(g) # NodeOf(q[j], j, i) /\ K(g) # NodeOf(q[j], j, i + 1)
        BY <1>1, <1>22, <2>1, NodesDiffer DEF N, K, n, e
    <2>5. QED
        BY <1>13, <1>14, <2>2, <2>3, <2>4 DEF Moves
<1>23. Linked(t, v, l) /\ Linked(t, u, k)
    BY <1>20, <1>21 DEF Linked, V, U, vl, ul
<1>24. \A j \in D : Linked(t, r[j], j)
    BY <1>6, <1>22, <1>23
<1>25. Ringed(t, r, D)
    BY <1>1, <1>7, <1>15, <1>24 DEF Ringed
<1>26. QED
    BY <1>25 DEF r, t, N, K

-----------------------------------------------------------------------------
(* Nodes and rings that come and go. *)

Adds(w, u, c, x) == c \in 0 .. Len(w) /\ Given(w, u, c, <<x>>, 0, 1)
Loses(w, v, a) == Part(Len(w), a, a + 1) /\ Reduced(w, v, a, a + 1)

\* A new node x goes behind place c of ring k.
LEMMA InsertRing ==
    ASSUME NEW D, NEW q, NEW s, Ringed(s, q, D), NEW k \in D, NEW c, NEW x \in Int, x \notin Cells(q, D),
           NEW u, Adds(q[k], u, c, x)
    PROVE  /\ Ringed(List!Insert(s, NodeOf(q[k], k, c + 1), x), [q EXCEPT ![k] = u], D)
           /\ \A y \in Cells([q EXCEPT ![k] = u], D) : y = x \/ y \in Cells(q, D)
<1>0. c \in 0 .. Len(q[k]) /\ Given(q[k], u, c, <<x>>, 0, 1)
    BY DEF Adds
<1> USE <1>0
<1> DEFINE r == [q EXCEPT ![k] = u]
           e == Len(q[k])
           ul == Len(u)
           K(i) == NodeOf(q[k], k, i)
           U(i) == NodeOf(u, k, i)
           C == Cells(q, D)
           t == List!Insert(s, K(c + 1), x)
<1>1. Apart(q, D) /\ IsFiniteSet(C) /\ s \in Memory(C) /\ \A j \in D : Linked(s, q[j], j)
    BY DEF Ringed
<1>2. D \subseteq Int /\ C \subseteq Int /\ q \in [D -> Seq(Int)] /\ q[k] \in Seq(Int)
    BY <1>1 DEF Apart, Cells
<1>3. /\ u \in Seq(Int) /\ ul = e + 1 /\ e \in Nat /\ c \in Nat /\ c =< e /\ ul \in Nat
      /\ \A i \in 1 .. ul : u[i] = IF i =< c THEN q[k][i] ELSE IF i = c + 1 THEN x ELSE q[k][i - 1]
    <2>1. /\ u \in Seq(Int) /\ Len(u) = e + (1 - 0)
          /\ \A i \in 1 .. ul : u[i] = IF i =< c THEN q[k][i] ELSE IF i =< c + (1 - 0) THEN <<x>>[i - c + 0]
                                       ELSE q[k][i - (1 - 0)]
        BY DEF Given
    <2>2. e \in Nat /\ ul \in Nat
        BY <1>2, <2>1
    <2> HIDE DEF e, ul
    <2>3. c \in Nat /\ c =< e
        BY <2>2 DEF e
    <2>4. ASSUME NEW i \in 1 .. ul
          PROVE  u[i] = IF i =< c THEN q[k][i] ELSE IF i = c + 1 THEN x ELSE q[k][i - 1]
        <3>1. CASE i =< c
            BY <2>1, <3>1
        <3>2. CASE i = c + 1
            <4>1. ~ (i =< c) /\ i =< c + (1 - 0) /\ i - c + 0 = 1
                BY <2>3, <3>2
            <4>2. u[i] = <<x>>[1]
                BY <2>1, <4>1
            <4>3. QED
                BY <3>2, <4>1, <4>2
        <3>3. CASE i > c + 1
            <4>1. ~ (i =< c) /\ ~ (i =< c + (1 - 0)) /\ i - (1 - 0) = i - 1 /\ i # c + 1
                BY <2>2, <2>3, <3>3
            <4>2. QED
                BY <2>1, <4>1
        <3>4. QED
            BY <2>2, <2>3, <3>1, <3>2, <3>3
    <2>5. QED
        BY <2>1, <2>2, <2>3, <2>4 DEF ul
<1>4. r \in [D -> Seq(Int)] /\ r[k] = u /\ \A j \in D : j # k => r[j] = q[j]
    BY <1>2, <1>3
<1>5. x \notin D /\ \A j \in D : \A i \in 1 .. Len(q[j]) : q[j][i] # x
    <2>1. \A j \in D : \A i \in 1 .. Len(q[j]) : q[j][i] \in Int
        BY <1>2
    <2>2. QED
        BY <2>1 DEF Cells
<1> HIDE DEF r, e, ul
<1>6. ASSUME NEW i \in 1 .. ul
      PROVE  \/ u[i] = x /\ i = c + 1
             \/ \E g \in 1 .. e : u[i] = q[k][g] /\ ((g =< c /\ g = i) \/ (g > c /\ i = g + 1))
    <2>1. CASE i =< c
        <3>1. i \in 1 .. e
            BY <1>3, <2>1
        <3>2. u[i] = q[k][i]
            BY <1>3, <2>1
        <3>3. QED
            BY <2>1, <3>1, <3>2
    <2>2. CASE i = c + 1
        BY <1>3, <2>2
    <2>3. CASE i > c + 1
        <3>1. i - 1 \in 1 .. e /\ u[i] = q[k][i - 1] /\ i - 1 > c /\ i = (i - 1) + 1
            BY <1>3, <2>3
        <3>2. QED
            BY <3>1
    <2>4. QED
        BY <1>3, <2>1, <2>2, <2>3
<1>7. Apart(r, D)
    <2>1. ASSUME NEW j \in D, NEW i \in 1 .. Len(r[j]) PROVE r[j][i] \notin D
        <3>1. \A h \in D : \A g \in 1 .. Len(q[h]) : q[h][g] \notin D
            BY <1>1 DEF Apart
        <3>2. CASE j = k
            BY <1>4, <1>5, <1>6, <3>1, <3>2 DEF e, ul
        <3>3. CASE j # k
            BY <1>4, <3>1, <3>3
        <3>4. QED
            BY <3>2, <3>3
    <2>2. ASSUME NEW i \in 1 .. ul, NEW j \in 1 .. ul, u[i] = u[j] PROVE i = j
        <3> DEFINE P(y, g) == u[y] = q[k][g] /\ ((g =< c /\ g = y) \/ (g > c /\ y = g + 1))
        <3>1. (u[i] = x /\ i = c + 1) \/ \E g \in 1 .. e : P(i, g)
            BY <1>6
        <3>2. (u[j] = x /\ j = c + 1) \/ \E g \in 1 .. e : P(j, g)
            BY <1>6
        <3>3. ASSUME NEW g \in 1 .. e, NEW h \in 1 .. e, P(i, g), P(j, h) PROVE i = j
            <4>1. q[k][g] = q[k][h] /\ g \in 1 .. Len(q[k]) /\ h \in 1 .. Len(q[k])
                BY <2>2, <3>3 DEF e
            <4>2. g = h
                BY <1>1, <4>1, OnePlace
            <4>3. QED
                BY <1>3, <3>3, <4>2
        <3>4. \A y, g : g \in 1 .. e /\ P(y, g) => u[y] # x
            BY <1>5 DEF e
        <3> HIDE DEF P
        <3>5. QED
            BY <2>2, <3>1, <3>2, <3>3, <3>4
    <2>3. ASSUME NEW h \in D, h # k, NEW i \in 1 .. Len(q[h]), NEW j \in 1 .. ul PROVE q[h][i] # u[j]
        <3>1. \A g \in 1 .. Len(q[k]) : q[k][g] # q[h][i]
            BY <1>1, <2>3, OnePlace
        <3>2. QED
            BY <1>5, <1>6, <2>3, <3>1 DEF e
    <2>4. ASSUME NEW g \in D, NEW h \in D, NEW i \in 1 .. Len(r[g]), NEW j \in 1 .. Len(r[h]), r[g][i] = r[h][j]
          PROVE  g = h /\ i = j
        <3>1. CASE g = k /\ h = k
            BY <1>4, <2>2, <2>4, <3>1 DEF ul
        <3>2. CASE g = k /\ h # k
            <4>1. i \in 1 .. ul /\ j \in 1 .. Len(q[h]) /\ u[i] = q[h][j]
                BY <1>4, <2>4, <3>2 DEF ul
            <4>2. QED
                BY <2>3, <3>2, <4>1
        <3>3. CASE g # k /\ h = k
            <4>1. j \in 1 .. ul /\ i \in 1 .. Len(q[g]) /\ u[j] = q[g][i]
                BY <1>4, <2>4, <3>3 DEF ul
            <4>2. QED
                BY <2>3, <3>3, <4>1
        <3>4. CASE g # k /\ h # k
            <4>1. i \in 1 .. Len(q[g]) /\ j \in 1 .. Len(q[h]) /\ q[g][i] = q[h][j]
                BY <1>4, <2>4, <3>4
            <4>2. QED
                BY <1>1, <4>1, OnePlace
        <3>5. QED
            BY <3>1, <3>2, <3>3, <3>4
    <2>5. QED
        BY <1>2, <1>4, <2>1, <2>4 DEF Apart
<1>8. Cells(r, D) = C \cup {x}
    <2>1. ASSUME NEW y \in Int
          PROVE  (\E j \in D : \E i \in 1 .. Len(r[j]) : r[j][i] = y)
                   <=> y = x \/ \E j \in D : \E i \in 1 .. Len(q[j]) : q[j][i] = y
        <3>1. ASSUME NEW j \in D, NEW i \in 1 .. Len(r[j]), r[j][i] = y, y # x
              PROVE  \E h \in D : \E g \in 1 .. Len(q[h]) : q[h][g] = y
            <4>1. CASE j = k
                BY <1>4, <1>6, <3>1, <4>1 DEF e, ul
            <4>2. CASE j # k
                BY <1>4, <3>1, <4>2
            <4>3. QED
                BY <4>1, <4>2
        <3>2. c + 1 \in 1 .. ul /\ u[c + 1] = x
            BY <1>3
        <3>3. ASSUME NEW g \in 1 .. e PROVE \E i \in 1 .. ul : u[i] = q[k][g]
            <4>1. CASE g =< c
                <5>1. g \in 1 .. ul /\ u[g] = q[k][g]
                    BY <1>3, <4>1
                <5>2. QED
                    BY <5>1
            <4>2. CASE g > c
                <5> DEFINE i == g + 1
                <5>1. i \in 1 .. ul /\ ~ (i =< c) /\ i # c + 1 /\ i - 1 = g
                    BY <1>3, <4>2
                <5> HIDE DEF i
                <5>2. u[i] = q[k][g]
                    BY <1>3, <5>1
                <5>3. QED
                    BY <5>1, <5>2
            <4>3. QED
                BY <1>3, <4>1, <4>2
        <3>4. ASSUME NEW j \in D, NEW i \in 1 .. Len(q[j]), q[j][i] = y
              PROVE  \E h \in D : \E g \in 1 .. Len(r[h]) : r[h][g] = y
            <4>1. CASE j = k
                BY <1>4, <3>3, <3>4, <4>1 DEF e, ul
            <4>2. CASE j # k
                BY <1>4, <3>4, <4>2
            <4>3. QED
                BY <4>1, <4>2
        <3>5. QED
            BY <1>4, <3>1, <3>2, <3>4 DEF ul
    <2>2. QED
        BY <2>1 DEF Cells
<1>9. \A i \in 0 .. ul + 1 : U(i) = IF i =< c THEN K(i) ELSE IF i = c + 1 THEN x ELSE K(i - 1)
    <2> DEFINE y == <<x>>
               a == 0
               b == 1
    <2>1. y \in Seq(Int) /\ Len(y) = 1 /\ y[1] = x /\ Given(q[k], u, c, y, a, b)
        OBVIOUS
    <2>2. k \in Int /\ Part(Len(y), a, b) /\ c \in 0 .. Len(q[k])
        BY <1>2, <2>1 DEF Part
    <2> HIDE DEF y, a, b
    <2>8. \A i \in 0 .. Len(u) + 1 :
            U(i) = IF i =< c THEN K(i) ELSE IF i =< c + (b - a) THEN NodeOf(y, k, i - c + a) ELSE K(i - (b - a))
        <3>1. GivenAt(q[k], u, k, c, y, k, a, b)
            BY <1>2, <2>1, <2>2, GivenNodes
        <3>2. QED
            BY <3>1 DEF GivenAt
    <2>3. ASSUME NEW i \in 0 .. Len(u) + 1
          PROVE U(i) = IF i =< c THEN K(i) ELSE IF i =< c + (1 - 0) THEN NodeOf(y, k, i - c + 0) ELSE K(i - (1 - 0))
        BY <2>8 DEF a, b
    <2>7. \A i \in 1 .. Len(y) : NodeOf(y, k, i) = y[i]
        BY <2>1, <2>2, NodesAre
    <2>4. NodeOf(y, k, 1) = x
        BY <2>1, <2>7
    <2> HIDE DEF U, K
    <2>5. ASSUME NEW i \in 0 .. ul + 1
          PROVE  U(i) = IF i =< c THEN K(i) ELSE IF i = c + 1 THEN x ELSE K(i - 1)
        <3>1. CASE i =< c
            BY <2>3, <3>1 DEF ul
        <3>2. CASE i = c + 1
            <4>1. ~ (i =< c) /\ i =< c + (1 - 0) /\ i - c + 0 = 1
                BY <1>3, <3>2
            <4>2. QED
                BY <2>3, <2>4, <3>2, <4>1 DEF ul
        <3>3. CASE i > c + 1
            <4>1. ~ (i =< c) /\ ~ (i =< c + (1 - 0)) /\ i - (1 - 0) = i - 1 /\ i # c + 1
                BY <1>3, <3>3
            <4>2. QED
                BY <2>3, <4>1 DEF ul
        <3>4. QED
            BY <1>3, <3>1, <3>2, <3>3
    <2>6. QED
        BY <2>5
<1>10. /\ \A i, j \in 0 .. e : K(i) = K(j) => i = j
       /\ \A i, j \in 1 .. e + 1 : K(i) = K(j) => i = j
       /\ \A i \in 0 .. e + 1 : K(i) \in C /\ K(i) # x
    <2>1. \A i, j \in 0 .. e : K(i) = K(j) => i = j
        BY <1>1, NodesDiffer DEF e
    <2>2. \A i, j \in 1 .. e + 1 : K(i) = K(j) => i = j
        BY <1>1, NodesDiffer DEF e
    <2>3. \A i \in 0 .. e + 1 : K(i) \in C
        BY <1>1, NodesAreCells DEF e
    <2>4. QED
        BY <2>1, <2>2, <2>3
<1>11. \A i \in 0 .. e : s.m[K(i)].next = K(i + 1) /\ s.m[K(i + 1)].prev = K(i)
    BY <1>1 DEF Linked, e
<1>12. c \in 0 .. e /\ c \in 0 .. e + 1 /\ c + 1 \in 1 .. e + 1 /\ c + 1 \in 0 .. e + 1
    BY <1>3
<1>21. x \in Int /\ x \notin C
    OBVIOUS
<1> HIDE DEF K, U
<1>13. Inserts(C, s, t, K(c + 1), K(c), x)
    <2>1. K(c) \in C /\ K(c + 1) \in C /\ K(c) = s.m[K(c + 1)].prev
        BY <1>10, <1>11, <1>12
    <2> HIDE DEF C
    <2>2. QED
        BY <1>1, <1>2, <1>21, <2>1, InsertedIs
<1>22. t \in Memory(C \cup {x})
    BY <1>13 DEF Inserts
<1> HIDE DEF t
<1>14. ASSUME NEW i \in 0 .. ul
       PROVE  t.m[U(i)].next = U(i + 1) /\ t.m[U(i + 1)].prev = U(i)
    <2>1. i \in 0 .. ul + 1 /\ i + 1 \in 0 .. ul + 1
        BY <1>3
    <2>2. CASE i < c
        <3>1. U(i) = K(i) /\ U(i + 1) = K(i + 1)
            BY <1>3, <1>9, <2>1, <2>2
        <3>2. i \in 0 .. e /\ i # c /\ i + 1 \in 1 .. e + 1 /\ i + 1 # c + 1 /\ i \in 0 .. e + 1 /\ i + 1 \in 0 .. e + 1
            BY <1>3, <2>2
        <3>3. /\ K(i) \in C /\ K(i) # x /\ K(i) # K(c)
              /\ K(i + 1) \in C /\ K(i + 1) # x /\ K(i + 1) # K(c + 1)
            BY <1>10, <1>12, <3>2
        <3>4. QED
            BY <1>11, <1>13, <3>1, <3>2, <3>3 DEF Inserts
    <2>3. CASE i = c
        <3>1. U(i) = K(c) /\ U(i + 1) = x
            BY <1>3, <1>9, <2>1, <2>3
        <3>2. K(c) \in C /\ K(c) # x
            BY <1>10, <1>12
        <3>3. QED
            BY <1>13, <3>1, <3>2 DEF Inserts
    <2>4. CASE i = c + 1
        <3>1. U(i) = x /\ U(i + 1) = K((i + 1) - 1) /\ (i + 1) - 1 = c + 1
            BY <1>3, <1>9, <2>1, <2>4
        <3>2. K(c + 1) \in C /\ K(c + 1) # x
            BY <1>10, <1>12
        <3>3. QED
            BY <1>13, <3>1, <3>2 DEF Inserts
    <2>5. CASE i > c + 1
        <3> DEFINE g == i - 1
        <3>0. ~ (i =< c) /\ i # c + 1 /\ ~ (i + 1 =< c) /\ i + 1 # c + 1 /\ (i + 1) - 1 = g + 1
            BY <1>3, <2>5
        <3>1. U(i) = K(g) /\ U(i + 1) = K((i + 1) - 1)
            BY <1>9, <2>1, <3>0
        <3>2. g \in 0 .. e /\ g # c /\ g + 1 \in 1 .. e + 1 /\ g + 1 # c + 1 /\ g \in 0 .. e + 1 /\ g + 1 \in 0 .. e + 1
            BY <1>3, <2>5
        <3> HIDE DEF g
        <3>3. /\ K(g) \in C /\ K(g) # x /\ K(g) # K(c)
              /\ K(g + 1) \in C /\ K(g + 1) # x /\ K(g + 1) # K(c + 1)
            BY <1>10, <1>12, <3>2
        <3>4. QED
            BY <1>11, <1>13, <3>0, <3>1, <3>2, <3>3 DEF Inserts
    <2>6. QED
        BY <1>3, <2>2, <2>3, <2>4, <2>5
<1>15. ASSUME NEW j \in D, j # k PROVE Linked(t, q[j], j)
    <2> SUFFICES ASSUME NEW i \in 0 .. Len(q[j])
                 PROVE  /\ t.m[NodeOf(q[j], j, i)].next = NodeOf(q[j], j, i + 1)
                        /\ t.m[NodeOf(q[j], j, i + 1)].prev = NodeOf(q[j], j, i)
        BY DEF Linked
    <2>1. i \in 0 .. Len(q[j]) + 1 /\ i + 1 \in 0 .. Len(q[j]) + 1
        BY <1>2
    <2>2. /\ s.m[NodeOf(q[j], j, i)].next = NodeOf(q[j], j, i + 1)
          /\ s.m[NodeOf(q[j], j, i + 1)].prev = NodeOf(q[j], j, i)
        BY <1>1 DEF Linked
    <2>3. NodeOf(q[j], j, i) \in C /\ NodeOf(q[j], j, i + 1) \in C
        BY <1>1, <2>1, NodesAreCells
    <2>4. \A g \in 0 .. e + 1 : K(g) # NodeOf(q[j], j, i) /\ K(g) # NodeOf(q[j], j, i + 1)
        BY <1>1, <1>15, <2>1, NodesDiffer DEF K, e
    <2>5. NodeOf(q[j], j, i) # x /\ NodeOf(q[j], j, i + 1) # x
        BY <2>3
    <2>6. NodeOf(q[j], j, i) # K(c) /\ NodeOf(q[j], j, i + 1) # K(c + 1)
        BY <1>12, <2>4
    <2> HIDE DEF C
    <2>7. QED
        BY <1>13, <2>2, <2>3, <2>5, <2>6 DEF Inserts
<1>16. Linked(t, u, k)
    BY <1>14 DEF Linked, U, ul
<1>17. \A j \in D : Linked(t, r[j], j)
    BY <1>4, <1>15, <1>16
<1>18. IsFiniteSet(C \cup {x})
    BY <1>1, FS_AddElement
<1>19. Ringed(t, r, D)
    BY <1>7, <1>8, <1>22, <1>17, <1>18 DEF Ringed
<1>20. QED
    BY <1>8, <1>19 DEF r, t, K

\* The node at place a + 1 of ring l goes.
LEMMA EraseRing ==
    ASSUME NEW D, NEW q, NEW s, Ringed(s, q, D), NEW l \in D, NEW a, NEW v, Loses(q[l], v, a)
    PROVE  /\ Ringed(List!Erase(s, q[l][a + 1]), [q EXCEPT ![l] = v], D)
           /\ Cells([q EXCEPT ![l] = v], D) = Cells(q, D) \ {q[l][a + 1]}
<1>0. Part(Len(q[l]), a, a + 1) /\ Reduced(q[l], v, a, a + 1)
    BY DEF Loses
<1> USE <1>0
<1> DEFINE r == [q EXCEPT ![l] = v]
           n == Len(q[l])
           vl == Len(v)
           x == q[l][a + 1]
           N(i) == NodeOf(q[l], l, i)
           V(i) == NodeOf(v, l, i)
           C == Cells(q, D)
           t == List!Erase(s, x)
<1>1. Apart(q, D) /\ IsFiniteSet(C) /\ s \in Memory(C) /\ \A j \in D : Linked(s, q[j], j)
    BY DEF Ringed
<1>2. D \subseteq Int /\ C \subseteq Int /\ q \in [D -> Seq(Int)] /\ q[l] \in Seq(Int) /\ l \in Int
    BY <1>1 DEF Apart, Cells
<1>3. v \in Seq(Int) /\ vl = n - ((a + 1) - a) /\ \A i \in 1 .. vl : v[i] = q[l][IF i =< a THEN i ELSE i + ((a + 1) - a)]
    BY DEF Reduced
<1>4. n \in Nat /\ a \in Nat /\ a + 1 =< n /\ vl \in Nat
    BY <1>2, <1>3 DEF Part
<1>5. vl = n - 1 /\ \A i \in 1 .. vl : v[i] = q[l][IF i =< a THEN i ELSE i + 1]
    <2> HIDE DEF n, vl
    <2>1. (a + 1) - a = 1
        BY <1>4
    <2>2. QED
        BY <1>3, <2>1
<1>6. r \in [D -> Seq(Int)] /\ r[l] = v /\ \A j \in D : j # l => r[j] = q[j]
    BY <1>2, <1>3
<1>7. \A i \in 0 .. vl + 1 : V(i) = N(IF i =< a THEN i ELSE i + 1)
    <2>1. \A i \in 0 .. vl + 1 : V(i) = N(IF i =< a THEN i ELSE i + ((a + 1) - a))
        BY <1>2, TakenNodes
    <2> HIDE DEF n, vl, N, V
    <2>2. (a + 1) - a = 1
        BY <1>4
    <2>3. QED
        BY <2>1, <2>2
<1>8. /\ \A i, j \in 0 .. n : N(i) = N(j) => i = j
      /\ \A i, j \in 1 .. n + 1 : N(i) = N(j) => i = j
      /\ \A i \in 0 .. n + 1 : N(i) \in C
    <2>1. \A i, j \in 0 .. n : N(i) = N(j) => i = j
        BY <1>1, NodesDiffer
    <2>2. \A i, j \in 1 .. n + 1 : N(i) = N(j) => i = j
        BY <1>1, NodesDiffer
    <2>3. QED
        BY <1>1, <2>1, <2>2, NodesAreCells
<1>9. \A i \in 0 .. n : s.m[N(i)].next = N(i + 1) /\ s.m[N(i + 1)].prev = N(i)
    BY <1>1 DEF Linked
<1>10. N(a + 1) = x /\ \A i \in 1 .. n : N(i) = q[l][i]
    <2>1. \A i \in 1 .. n : N(i) = q[l][i]
        BY <1>2, NodesAre
    <2> HIDE DEF n
    <2>2. a + 1 \in 1 .. n
        BY <1>4
    <2>3. QED
        BY <2>1, <2>2
<1> HIDE DEF n, vl, N, V, r, x
<1>11. a \in 0 .. n /\ a + 1 \in 0 .. n /\ a + 1 \in 1 .. n /\ a + 1 \in 1 .. n + 1 /\ a + 2 \in 1 .. n + 1 /\ a + 2 \in 0 .. n + 1 /\ (a + 1) + 1 = a + 2
       /\ a \in 0 .. n + 1 /\ a + 1 \in 0 .. n + 1 /\ a # a + 1 /\ a + 1 # a + 2
    BY <1>4
<1>12. Unlinks(C, s, t, x, N(a), N(a + 2))
    <2>1. N(a) \in C /\ x \in C /\ N(a + 2) \in C
        BY <1>8, <1>10, <1>11
    <2>2. N(a) = s.m[x].prev /\ N(a + 2) = s.m[x].next
        BY <1>9, <1>10, <1>11
    <2>3. N(a) # x /\ N(a + 2) # x
        BY <1>8, <1>10, <1>11
    <2> HIDE DEF C
    <2>4. QED
        BY <1>1, <1>2, <2>1, <2>2, <2>3, ErasedIs
<1>13. t \in Memory(C \ {x})
    BY <1>12 DEF Unlinks
<1> HIDE DEF t
<1>14. ASSUME NEW i \in 1 .. vl
       PROVE  \E g \in 1 .. n : v[i] = q[l][g] /\ g # a + 1 /\ ((g =< a /\ g = i) \/ (g > a /\ i = g - 1))
    <2>1. CASE i =< a
        <3>1. i \in 1 .. n /\ i # a + 1
            BY <1>4, <2>1
        <3>2. v[i] = q[l][i]
            BY <1>5, <2>1
        <3>3. QED
            BY <2>1, <3>1, <3>2
    <2>2. CASE ~ (i =< a)
        <3>1. i + 1 \in 1 .. n /\ i + 1 # a + 1 /\ i + 1 > a /\ (i + 1) - 1 = i
            BY <1>4, <1>5, <2>2
        <3>2. v[i] = q[l][i + 1]
            BY <1>5, <2>2
        <3>3. QED
            BY <3>1, <3>2
    <2>3. QED
        BY <2>1, <2>2
<1>15. ASSUME NEW g \in 1 .. n, g # a + 1
       PROVE  \E i \in 1 .. vl : v[i] = q[l][g]
    <2>1. CASE g =< a
        <3>1. g \in 1 .. vl
            BY <1>4, <1>5, <2>1
        <3>2. v[g] = q[l][g]
            BY <1>5, <2>1, <3>1
        <3>3. QED
            BY <3>1, <3>2
    <2>2. CASE g > a
        <3> DEFINE i == g - 1
        <3>1. i \in 1 .. vl /\ ~ (i =< a) /\ i + 1 = g
            BY <1>4, <1>5, <1>15, <2>2
        <3> HIDE DEF i
        <3>2. v[i] = q[l][g]
            BY <1>5, <3>1
        <3>3. QED
            BY <3>1, <3>2
    <2>3. QED
        BY <1>4, <2>1, <2>2
<1>16. x \notin D /\ \A j \in D : \A i \in 1 .. Len(q[j]) : q[j][i] = x => j = l /\ i = a + 1
    <2>1. a + 1 \in 1 .. Len(q[l])
        BY <1>11 DEF n
    <2>2. x \notin D
        BY <1>1, <2>1 DEF Apart, x
    <2>3. QED
        BY <1>1, <2>1, <2>2, OnePlace DEF x
<1>17. Apart(r, D)
    <2>1. ASSUME NEW j \in D, NEW i \in 1 .. Len(r[j]) PROVE r[j][i] \notin D
        <3>1. \A h \in D : \A g \in 1 .. Len(q[h]) : q[h][g] \notin D
            BY <1>1 DEF Apart
        <3>2. CASE j = l
            BY <1>6, <1>14, <3>1, <3>2 DEF n, vl
        <3>3. CASE j # l
            BY <1>6, <3>1, <3>3
        <3>4. QED
            BY <3>2, <3>3
    <2>2. ASSUME NEW i \in 1 .. vl, NEW j \in 1 .. vl, v[i] = v[j] PROVE i = j
        <3> DEFINE P(y, g) == v[y] = q[l][g] /\ g # a + 1 /\ ((g =< a /\ g = y) \/ (g > a /\ y = g - 1))
        <3>1. PICK g \in 1 .. n : P(i, g)
            BY <1>14
        <3>2. PICK h \in 1 .. n : P(j, h)
            BY <1>14
        <3>3. q[l][g] = q[l][h] /\ g \in 1 .. Len(q[l]) /\ h \in 1 .. Len(q[l])
            BY <2>2, <3>1, <3>2 DEF n
        <3>4. g = h
            BY <1>1, <3>3, OnePlace
        <3>5. QED
            BY <1>4, <3>1, <3>2, <3>4
    <2>3. ASSUME NEW h \in D, h # l, NEW i \in 1 .. Len(q[h]), NEW j \in 1 .. vl PROVE q[h][i] # v[j]
        <3>1. \A g \in 1 .. Len(q[l]) : q[l][g] # q[h][i]
            BY <1>1, <2>3, OnePlace
        <3>2. QED
            BY <1>14, <2>3, <3>1 DEF n
    <2>4. ASSUME NEW g \in D, NEW h \in D, NEW i \in 1 .. Len(r[g]), NEW j \in 1 .. Len(r[h]), r[g][i] = r[h][j]
          PROVE  g = h /\ i = j
        <3>1. CASE g = l /\ h = l
            BY <1>6, <2>2, <2>4, <3>1 DEF vl
        <3>2. CASE g = l /\ h # l
            <4>1. i \in 1 .. vl /\ j \in 1 .. Len(q[h]) /\ v[i] = q[h][j]
                BY <1>6, <2>4, <3>2 DEF vl
            <4>2. QED
                BY <2>3, <3>2, <4>1
        <3>3. CASE g # l /\ h = l
            <4>1. j \in 1 .. vl /\ i \in 1 .. Len(q[g]) /\ v[j] = q[g][i]
                BY <1>6, <2>4, <3>3 DEF vl
            <4>2. QED
                BY <2>3, <3>3, <4>1
        <3>4. CASE g # l /\ h # l
            <4>1. i \in 1 .. Len(q[g]) /\ j \in 1 .. Len(q[h]) /\ q[g][i] = q[h][j]
                BY <1>6, <2>4, <3>4
            <4>2. QED
                BY <1>1, <4>1, OnePlace
        <3>5. QED
            BY <3>1, <3>2, <3>3, <3>4
    <2>5. QED
        BY <1>2, <1>6, <2>1, <2>4 DEF Apart
<1>18. Cells(r, D) = C \ {x}
    <2>1. ASSUME NEW y \in Int
          PROVE  (\E j \in D : \E i \in 1 .. Len(r[j]) : r[j][i] = y)
                   <=> y # x /\ \E j \in D : \E i \in 1 .. Len(q[j]) : q[j][i] = y
        <3>1. ASSUME NEW j \in D, NEW i \in 1 .. Len(r[j]), r[j][i] = y
              PROVE  y # x /\ \E h \in D : \E g \in 1 .. Len(q[h]) : q[h][g] = y
            <4>1. CASE j = l
                <5>1. i \in 1 .. vl /\ v[i] = y
                    BY <1>6, <3>1, <4>1 DEF vl
                <5>2. PICK g \in 1 .. n : v[i] = q[l][g] /\ g # a + 1
                    BY <1>14, <5>1
                <5>3. QED
                    BY <1>16, <5>1, <5>2 DEF n
            <4>2. CASE j # l
                <5>1. i \in 1 .. Len(q[j]) /\ q[j][i] = y
                    BY <1>6, <3>1, <4>2
                <5>2. QED
                    BY <1>16, <4>2, <5>1
            <4>3. QED
                BY <4>1, <4>2
        <3>2. ASSUME NEW j \in D, NEW i \in 1 .. Len(q[j]), q[j][i] = y, y # x
              PROVE  \E h \in D : \E g \in 1 .. Len(r[h]) : r[h][g] = y
            <4>1. CASE j = l
                <5>1. i \in 1 .. n /\ i # a + 1
                    BY <3>2, <4>1 DEF n, x
                <5>2. QED
                    BY <1>6, <1>15, <3>2, <4>1, <5>1 DEF vl
            <4>2. CASE j # l
                BY <1>6, <3>2, <4>2
            <4>3. QED
                BY <4>1, <4>2
        <3>3. QED
            BY <3>1, <3>2
    <2>2. QED
        BY <1>16, <2>1 DEF Cells
<1>19. ASSUME NEW i \in 0 .. n + 1, i # a + 1 PROVE N(i) \in C \ {x}
    <2>1. N(i) \in C
        BY <1>8
    <2>2. CASE i \in 0 .. n
        BY <1>8, <1>10, <1>11, <1>19, <2>1, <2>2
    <2>3. CASE i \in 1 .. n + 1
        BY <1>8, <1>10, <1>11, <1>19, <2>1, <2>3
    <2>4. QED
        BY <1>4, <2>2, <2>3
<1>20. ASSUME NEW i \in 0 .. vl
       PROVE  t.m[V(i)].next = V(i + 1) /\ t.m[V(i + 1)].prev = V(i)
    <2>1. i \in 0 .. vl + 1 /\ i + 1 \in 0 .. vl + 1
        BY <1>4
    <2>2. CASE i < a
        <3>1. V(i) = N(i) /\ V(i + 1) = N(i + 1)
            BY <1>4, <1>7, <2>1, <2>2
        <3>2. i \in 0 .. n /\ i # a /\ i + 1 \in 1 .. n + 1 /\ i + 1 # a + 2 /\ i \in 0 .. n + 1 /\ i + 1 \in 0 .. n + 1
              /\ i # a + 1 /\ i + 1 # a + 1
            BY <1>4, <2>2
        <3>3. N(i) \in C \ {x} /\ N(i + 1) \in C \ {x} /\ N(i) # N(a) /\ N(i + 1) # N(a + 2)
            BY <1>8, <1>11, <1>19, <3>2
        <3>4. QED
            BY <1>9, <1>12, <3>1, <3>2, <3>3 DEF Unlinks
    <2>3. CASE i = a
        <3>1. V(i) = N(a) /\ V(i + 1) = N((i + 1) + 1) /\ (i + 1) + 1 = a + 2
            BY <1>4, <1>7, <2>1, <2>3
        <3>2. N(a) \in C \ {x} /\ N(a + 2) \in C \ {x}
            BY <1>11, <1>19
        <3>3. QED
            BY <1>12, <3>1, <3>2 DEF Unlinks
    <2>4. CASE i > a
        <3> DEFINE g == i + 1
        <3>0. ~ (i =< a) /\ ~ (i + 1 =< a) /\ (i + 1) + 1 = g + 1
            BY <1>4, <2>4
        <3>1. V(i) = N(g) /\ V(i + 1) = N(g + 1)
            BY <1>7, <2>1, <3>0
        <3>2. g \in 0 .. n /\ g # a /\ g + 1 \in 1 .. n + 1 /\ g + 1 # a + 2 /\ g \in 0 .. n + 1 /\ g + 1 \in 0 .. n + 1
              /\ g # a + 1 /\ g + 1 # a + 1
            BY <1>4, <1>5, <2>4
        <3> HIDE DEF g
        <3>3. N(g) \in C \ {x} /\ N(g + 1) \in C \ {x} /\ N(g) # N(a) /\ N(g + 1) # N(a + 2)
            BY <1>8, <1>11, <1>19, <3>2
        <3>4. QED
            BY <1>9, <1>12, <3>1, <3>2, <3>3 DEF Unlinks
    <2>5. QED
        BY <1>4, <2>2, <2>3, <2>4
<1>21. ASSUME NEW j \in D, j # l PROVE Linked(t, q[j], j)
    <2> SUFFICES ASSUME NEW i \in 0 .. Len(q[j])
                 PROVE  /\ t.m[NodeOf(q[j], j, i)].next = NodeOf(q[j], j, i + 1)
                        /\ t.m[NodeOf(q[j], j, i + 1)].prev = NodeOf(q[j], j, i)
        BY DEF Linked
    <2>1. i \in 0 .. Len(q[j]) + 1 /\ i + 1 \in 0 .. Len(q[j]) + 1
        BY <1>2
    <2>2. /\ s.m[NodeOf(q[j], j, i)].next = NodeOf(q[j], j, i + 1)
          /\ s.m[NodeOf(q[j], j, i + 1)].prev = NodeOf(q[j], j, i)
        BY <1>1 DEF Linked
    <2>3. NodeOf(q[j], j, i) \in C /\ NodeOf(q[j], j, i + 1) \in C
        BY <1>1, <2>1, NodesAreCells
    <2>4. \A g \in 0 .. n + 1 : N(g) # NodeOf(q[j], j, i) /\ N(g) # NodeOf(q[j], j, i + 1)
        BY <1>1, <1>21, <2>1, NodesDiffer DEF N, n
    <2>5. NodeOf(q[j], j, i) # x /\ NodeOf(q[j], j, i + 1) # x
        BY <1>10, <1>11, <2>4
    <2>6. NodeOf(q[j], j, i) # N(a) /\ NodeOf(q[j], j, i + 1) # N(a + 2)
        BY <1>11, <2>4
    <2> HIDE DEF C
    <2>7. QED
        BY <1>12, <2>2, <2>3, <2>5, <2>6 DEF Unlinks
<1>22. Linked(t, v, l)
    BY <1>20 DEF Linked, V, vl
<1>23. \A j \in D : Linked(t, r[j], j)
    BY <1>6, <1>21, <1>22
<1>24. IsFiniteSet(C \ {x})
    BY <1>1, FS_RemoveElement
<1>25. Ringed(t, r, D)
    BY <1>13, <1>17, <1>18, <1>23, <1>24 DEF Ringed
<1>26. QED
    BY <1>18, <1>25 DEF r, t, x

\* A sentinel comes with an empty ring, and an empty ring goes with it.
Widened(q, D, d) == [j \in D \cup {d} |-> IF j = d THEN <<>> ELSE q[j]]
Shrunk(q, D, d) == [j \in D \ {d} |-> q[j]]

LEMMA GetRing ==
    ASSUME NEW D, NEW q, NEW s, Ringed(s, q, D), NEW d \in Int, d \notin Cells(q, D)
    PROVE  /\ Ringed(List!GetNode(s, d), Widened(q, D, d), D \cup {d})
           /\ Cells(Widened(q, D, d), D \cup {d}) = Cells(q, D) \cup {d}
<1> DEFINE E == D \cup {d}
           r == Widened(q, D, d)
           C == Cells(q, D)
           t == List!GetNode(s, d)
<1>1. Apart(q, D) /\ IsFiniteSet(C) /\ s \in Memory(C) /\ \A j \in D : Linked(s, q[j], j)
    BY DEF Ringed
<1>2. D \subseteq Int /\ C \subseteq Int /\ q \in [D -> Seq(Int)]
    BY <1>1 DEF Apart, Cells
<1>3. d \notin D /\ \A j \in D : \A i \in 1 .. Len(q[j]) : q[j][i] # d
    BY DEF Cells
<1>4. r \in [E -> Seq(Int)] /\ r[d] = <<>> /\ \A j \in D : r[j] = q[j]
    <2>1. <<>> \in Seq(Int)
        OBVIOUS
    <2>2. QED
        BY <1>2, <1>3, <2>1 DEF Widened
<1>5. Len(r[d]) = 0 /\ \A i \in 1 .. Len(r[d]) : FALSE
    BY <1>4
<1> HIDE DEF r
<1>6. \A j \in E : j = d \/ (j \in D /\ r[j] = q[j])
    BY <1>4
<1>7. Apart(r, E)
    <2>1. \A j \in E : \A i \in 1 .. Len(r[j]) : r[j][i] \notin E
        <3>1. \A j \in D : \A i \in 1 .. Len(q[j]) : q[j][i] \notin D
            BY <1>1 DEF Apart
        <3>2. QED
            BY <1>3, <1>5, <1>6, <3>1
    <2>2. ASSUME NEW g \in E, NEW h \in E, NEW i \in 1 .. Len(r[g]), NEW j \in 1 .. Len(r[h]), r[g][i] = r[h][j]
          PROVE  g = h /\ i = j
        <3>1. g # d /\ h # d
            BY <1>5
        <3>2. g \in D /\ h \in D /\ r[g] = q[g] /\ r[h] = q[h]
            BY <1>6, <3>1
        <3>3. i \in 1 .. Len(q[g]) /\ j \in 1 .. Len(q[h]) /\ q[g][i] = q[h][j]
            BY <2>2, <3>2
        <3>4. QED
            BY <1>1, <3>2, <3>3, OnePlace
    <2>3. QED
        BY <1>2, <1>4, <2>1, <2>2 DEF Apart
<1>8. Cells(r, E) = C \cup {d}
    <2>1. ASSUME NEW y
          PROVE  (\E j \in E : \E i \in 1 .. Len(r[j]) : r[j][i] = y) <=> \E j \in D : \E i \in 1 .. Len(q[j]) : q[j][i] = y
        BY <1>4, <1>5, <1>6
    <2>2. QED
        BY <2>1 DEF Cells
<1>9. /\ t \in Memory(C \cup {d}) /\ t.m[d].prev = d /\ t.m[d].next = d
      /\ \A y \in C \ {d} : t.m[y] = s.m[y]
    BY <1>1, CellGot
<1> HIDE DEF t
<1>10. Linked(t, r[d], d)
    <2>1. r[d] \in Seq(Int) /\ Len(r[d]) = 0
        BY <1>4
    <2>2. NodeOf(r[d], d, 0) = d /\ NodeOf(r[d], d, Len(r[d]) + 1) = d
        BY <2>1, NodesAre
    <2>3. NodeOf(r[d], d, 0 + 1) = d
        BY <2>1, <2>2
    <2>4. \A i \in 0 .. Len(r[d]) : i = 0
        BY <2>1
    <2>5. QED
        BY <1>9, <2>2, <2>3, <2>4 DEF Linked
<1>11. ASSUME NEW j \in D PROVE Linked(t, q[j], j)
    <2> SUFFICES ASSUME NEW i \in 0 .. Len(q[j])
                 PROVE  /\ t.m[NodeOf(q[j], j, i)].next = NodeOf(q[j], j, i + 1)
                        /\ t.m[NodeOf(q[j], j, i + 1)].prev = NodeOf(q[j], j, i)
        BY DEF Linked
    <2>1. i \in 0 .. Len(q[j]) + 1 /\ i + 1 \in 0 .. Len(q[j]) + 1
        BY <1>2
    <2>2. /\ s.m[NodeOf(q[j], j, i)].next = NodeOf(q[j], j, i + 1)
          /\ s.m[NodeOf(q[j], j, i + 1)].prev = NodeOf(q[j], j, i)
        BY <1>1 DEF Linked
    <2>3. NodeOf(q[j], j, i) \in C /\ NodeOf(q[j], j, i + 1) \in C
        BY <1>1, <2>1, NodesAreCells
    <2>4. d \notin C
        OBVIOUS
    <2> HIDE DEF C
    <2>5. QED
        BY <1>9, <2>2, <2>3, <2>4
<1>12. \A j \in E : Linked(t, r[j], j)
    BY <1>4, <1>6, <1>10, <1>11
<1>13. IsFiniteSet(C \cup {d})
    BY <1>1, FS_AddElement
<1>14. Ringed(t, r, E)
    BY <1>7, <1>8, <1>9, <1>12, <1>13 DEF Ringed
<1>15. QED
    BY <1>8, <1>14 DEF r, t

LEMMA PutRing ==
    ASSUME NEW D, NEW q, NEW s, Ringed(s, q, D), NEW d \in D, q[d] = <<>>
    PROVE  /\ Ringed(List!PutNode(s, d), Shrunk(q, D, d), D \ {d})
           /\ Cells(Shrunk(q, D, d), D \ {d}) = Cells(q, D) \ {d}
<1> DEFINE E == D \ {d}
           r == Shrunk(q, D, d)
           C == Cells(q, D)
           t == List!PutNode(s, d)
<1>1. Apart(q, D) /\ IsFiniteSet(C) /\ s \in Memory(C) /\ \A j \in D : Linked(s, q[j], j)
    BY DEF Ringed
<1>2. D \subseteq Int /\ C \subseteq Int /\ q \in [D -> Seq(Int)]
    BY <1>1 DEF Apart, Cells
<1>3. \A j \in D : \A i \in 1 .. Len(q[j]) : q[j][i] \notin D
    BY <1>1 DEF Apart
<1>4. r \in [E -> Seq(Int)] /\ \A j \in E : r[j] = q[j]
    BY <1>2 DEF Shrunk
<1>5. \A i \in 1 .. Len(q[d]) : FALSE
    OBVIOUS
<1> HIDE DEF r
<1>7. Apart(r, E)
    <2>1. \A j \in E : \A i \in 1 .. Len(r[j]) : r[j][i] \notin E
        BY <1>3, <1>4
    <2>2. ASSUME NEW g \in E, NEW h \in E, NEW i \in 1 .. Len(r[g]), NEW j \in 1 .. Len(r[h]), r[g][i] = r[h][j]
          PROVE  g = h /\ i = j
        <3>2. g \in D /\ h \in D /\ r[g] = q[g] /\ r[h] = q[h]
            BY <1>4
        <3>3. i \in 1 .. Len(q[g]) /\ j \in 1 .. Len(q[h]) /\ q[g][i] = q[h][j]
            BY <2>2, <3>2
        <3>4. QED
            BY <1>1, <3>2, <3>3, OnePlace
    <2>3. QED
        BY <1>2, <1>4, <2>1, <2>2 DEF Apart
<1>8. Cells(r, E) = C \ {d}
    <2>1. ASSUME NEW y
          PROVE  (\E j \in E : \E i \in 1 .. Len(r[j]) : r[j][i] = y)
                   <=> y # d /\ \E j \in D : \E i \in 1 .. Len(q[j]) : q[j][i] = y
        BY <1>3, <1>4, <1>5
    <2>2. QED
        BY <2>1 DEF Cells
<1>9. t \in Memory(C \ {d}) /\ \A y \in C \ {d} : t.m[y] = s.m[y]
    BY <1>1, CellPut
<1> HIDE DEF t
<1>11. ASSUME NEW j \in E PROVE Linked(t, q[j], j)
    <2> SUFFICES ASSUME NEW i \in 0 .. Len(q[j])
                 PROVE  /\ t.m[NodeOf(q[j], j, i)].next = NodeOf(q[j], j, i + 1)
                        /\ t.m[NodeOf(q[j], j, i + 1)].prev = NodeOf(q[j], j, i)
        BY DEF Linked
    <2>1. i \in 0 .. Len(q[j]) + 1 /\ i + 1 \in 0 .. Len(q[j]) + 1
        BY <1>2
    <2>2. /\ s.m[NodeOf(q[j], j, i)].next = NodeOf(q[j], j, i + 1)
          /\ s.m[NodeOf(q[j], j, i + 1)].prev = NodeOf(q[j], j, i)
        BY <1>1 DEF Linked
    <2>3. NodeOf(q[j], j, i) \in Cells(r, E) /\ NodeOf(q[j], j, i + 1) \in Cells(r, E)
        <3>1. r[j] = q[j]
            BY <1>4
        <3>2. NodeOf(r[j], j, i) \in Cells(r, E) /\ NodeOf(r[j], j, i + 1) \in Cells(r, E)
            <4>1. i \in 0 .. Len(r[j]) + 1 /\ i + 1 \in 0 .. Len(r[j]) + 1
                BY <2>1, <3>1
            <4> HIDE DEF E
            <4>2. QED
                BY <1>7, <4>1, NodesAreCells DEF E
        <3>3. QED
            BY <3>1, <3>2
    <2> HIDE DEF C
    <2>5. QED
        BY <1>8, <1>9, <2>2, <2>3
<1>12. \A j \in E : Linked(t, r[j], j)
    BY <1>4, <1>11
<1>13. IsFiniteSet(C \ {d})
    BY <1>1, FS_RemoveElement
<1>14. Ringed(t, r, E)
    BY <1>7, <1>8, <1>9, <1>12, <1>13 DEF Ringed
<1>15. QED
    BY <1>8, <1>14 DEF r, t

\* As many turns as cells are enough for one ring, and for two together.
LEMMA ListCardinalityIs ==
    ASSUME NEW S
    PROVE  List!Cardinality(S) = Cardinality(S)
BY Zenon DEF List!Cardinality, Cardinality, List!IsFiniteSet, IsFiniteSet

LEMMA InjectedIn ==
    ASSUME NEW C, IsFiniteSet(C), NEW n \in Nat, NEW f \in [0 .. n -> C], \A i, j \in 0 .. n : f[i] = f[j] => i = j
    PROVE  n + 1 =< Cardinality(C) /\ Cardinality(C) \in Nat
<1>1. f \in Injection(0 .. n, C)
    BY DEF Injection, IsInjective
<1>2. Cardinality(0 .. n) =< Cardinality(C)
    BY <1>1, FS_Injection
<1>3. Cardinality(0 .. n) = n + 1
    <2>1. 0 \in Int /\ n \in Int
        OBVIOUS
    <2>2. Cardinality(0 .. n) = IF 0 > n THEN 0 ELSE n - 0 + 1
        BY <2>1, FS_Interval
    <2>3. QED
        BY <2>2
<1>4. Cardinality(C) \in Nat
    BY FS_CardinalityType
<1>5. QED
    BY <1>2, <1>3, <1>4

\* A ring, and two of them together, have no more nodes than cells.
LEMMA TurnsAreEnough ==
    ASSUME NEW D, NEW q, NEW s, Ringed(s, q, D), NEW l \in D
    PROVE  /\ List!Turns(s) \in Nat
           /\ Len(q[l]) + 1 =< List!Turns(s)
           /\ \A k \in D \ {l} : Len(q[l]) + Len(q[k]) + 1 =< List!Turns(s)
<1> DEFINE C == Cells(q, D)
           n == Len(q[l])
           N(i) == NodeOf(q[l], l, i)
<1>1. Apart(q, D) /\ IsFiniteSet(C) /\ s \in Memory(C)
    BY DEF Ringed
<1>2. List!Turns(s) = Cardinality(C)
    BY <1>1, ListCardinalityIs DEF List!Turns, Memory
<1>3. n \in Nat /\ \A k \in D : Len(q[k]) \in Nat
    BY <1>1 DEF Apart
<1>4. (\A i, j \in 0 .. n : N(i) = N(j) => i = j) /\ \A i \in 0 .. n : N(i) \in C
    <2>1. \A i, j \in 0 .. n : N(i) = N(j) => i = j
        BY <1>1, NodesDiffer
    <2>2. \A i \in 0 .. n + 1 : N(i) \in C
        BY <1>1, NodesAreCells
    <2> HIDE DEF n, N, C
    <2>3. QED
        BY <1>3, <2>1, <2>2
<1>5. n + 1 =< Cardinality(C) /\ Cardinality(C) \in Nat
    <2> DEFINE f == [i \in 0 .. n |-> N(i)]
    <2> HIDE DEF n, N, C
    <2>1. f \in [0 .. n -> C] /\ \A i, j \in 0 .. n : f[i] = f[j] => i = j
        BY <1>4
    <2> HIDE DEF f
    <2>2. QED
        BY <1>1, <1>3, <2>1, InjectedIn
<1>6. ASSUME NEW k \in D \ {l} PROVE n + Len(q[k]) + 1 =< Cardinality(C)
    <2> DEFINE e == Len(q[k])
               K(i) == NodeOf(q[k], k, i)
               f == [i \in 0 .. n + e |-> IF i =< n THEN N(i) ELSE K(i - n)]
    <2>1. e \in Nat
        BY <1>3
    <2>2. \A i, j \in 0 .. e : K(i) = K(j) => i = j
        BY <1>1, NodesDiffer
    <2>3. \A i \in 0 .. e + 1 : K(i) \in C
        BY <1>1, NodesAreCells
    <2>4. \A i \in 0 .. n + 1, j \in 0 .. e + 1 : N(i) # K(j)
        BY <1>1, <1>6, NodesDiffer
    <2> HIDE DEF n, N, e, K, C
    <2>5. ASSUME NEW i \in 0 .. n + e
          PROVE  /\ f[i] \in C
                 /\ (i =< n /\ i \in 0 .. n /\ i \in 0 .. n + 1 /\ f[i] = N(i))
                      \/ (i > n /\ i - n \in 0 .. e /\ i - n \in 0 .. e + 1 /\ f[i] = K(i - n))
        <3>1. CASE i =< n
            BY <1>3, <1>4, <2>1, <3>1
        <3>2. CASE i > n
            <4>1. i - n \in 0 .. e /\ i - n \in 0 .. e + 1 /\ ~ (i =< n)
                BY <1>3, <2>1, <3>2
            <4>2. QED
                BY <2>3, <3>2, <4>1
        <3>3. QED
            BY <1>3, <3>1, <3>2
    <2>6. f \in [0 .. n + e -> C]
        BY <2>5
    <2> HIDE DEF f
    <2>7. ASSUME NEW i \in 0 .. n + e, NEW j \in 0 .. n + e, f[i] = f[j] PROVE i = j
        <3>1. CASE i =< n /\ j =< n
            BY <1>3, <1>4, <2>1, <2>5, <2>7, <3>1
        <3>2. CASE i > n /\ j > n
            <4>1. f[i] = K(i - n) /\ f[j] = K(j - n) /\ i - n \in 0 .. e /\ j - n \in 0 .. e
                BY <1>3, <2>1, <2>5, <3>2
            <4>2. i - n = j - n
                BY <2>2, <2>7, <4>1
            <4>3. QED
                BY <1>3, <2>1, <4>2
        <3>3. CASE i =< n /\ j > n
            <4>1. f[i] = N(i) /\ i \in 0 .. n + 1 /\ f[j] = K(j - n) /\ j - n \in 0 .. e + 1
                BY <1>3, <2>1, <2>5, <3>3
            <4>2. QED
                BY <2>4, <2>7, <4>1
        <3>4. CASE i > n /\ j =< n
            <4>1. f[j] = N(j) /\ j \in 0 .. n + 1 /\ f[i] = K(i - n) /\ i - n \in 0 .. e + 1
                BY <1>3, <2>1, <2>5, <3>4
            <4>2. QED
                BY <2>4, <2>7, <4>1
        <3>5. QED
            BY <1>3, <3>1, <3>2, <3>3, <3>4
    <2>8. n + e \in Nat
        BY <1>3, <2>1
    <2>9. n + e + 1 =< Cardinality(C)
        BY <1>1, <2>6, <2>7, <2>8, InjectedIn
    <2>10. QED
        BY <2>9 DEF e
<1>7. QED
    BY <1>2, <1>5, <1>6

-----------------------------------------------------------------------------
(* Loops. A record names the loop and what it does not change; Step is one   *)
(* turn of it, the i-th.                                                     *)

Step(loop, i, c) ==
    IF loop.of = "advance" THEN List!At(loop.s, c, "next")
    ELSE IF loop.of = "remove" THEN List!RemoveTurn(c, loop.l, loop.unwanted)
    ELSE IF loop.of = "unique" THEN List!UniqueTurn(c, loop.l)
    ELSE IF loop.of = "reverse" THEN List!ReverseTurn(c, loop.first, loop.last)
    ELSE IF loop.of = "merge" THEN List!MergeTurn(c, loop.l, loop.x)
    ELSE IF loop.of = "split" THEN List!SplitTurn(c, loop.l, loop.left, loop.right)
    ELSE IF loop.of = "sort" THEN List!SortTurn(c)
    ELSE IF loop.q[i] \in loop.gone THEN c ELSE Append(c, loop.q[i])

Turned(f, n, loop, c) == f = [i \in 0 .. n |-> IF i = 0 THEN c ELSE Step(loop, i, f[i - 1])]
Turning(f, n, loop, c) == f[0] = c /\ \A i \in 0 .. n - 1 : f[i + 1] = Step(loop, i + 1, f[i])

\* The loops of the code are functions that satisfy their definitions.
LEMMA LoopsExist ==
    ASSUME NEW loop, NEW c, NEW n \in Nat
    PROVE  \E f : Turned(f, n, loop, c)
<1> DEFINE P == {k \in 0 .. n : \E f : Turned(f, k, loop, c)}
<1>1. 0 \in P
    <2>1. Turned([i \in 0 .. 0 |-> c], 0, loop, c)
        BY DEF Turned
    <2>2. QED
        BY <2>1
<1>2. ASSUME NEW k \in 0 .. n - 1, k \in P PROVE k + 1 \in P
    <2>1. PICK f : Turned(f, k, loop, c)
        BY <1>2
    <2>2. f = [i \in 0 .. k |-> IF i = 0 THEN c ELSE Step(loop, i, f[i - 1])]
        BY <2>1, Zenon DEF Turned
    <2> DEFINE longer == [i \in 0 .. k + 1 |-> IF i = 0 THEN c ELSE Step(loop, i, f[i - 1])]
    <2>3. ASSUME NEW i \in 0 .. k PROVE longer[i] = f[i]
        <3>1. i \in 0 .. k + 1
            BY <1>2
        <3>2. QED
            BY <2>2, <3>1, Zenon
    <2>4. ASSUME NEW i \in 0 .. k + 1, i # 0 PROVE longer[i - 1] = f[i - 1]
        <3>1. i - 1 \in 0 .. k
            BY <1>2, <2>4
        <3>2. QED
            BY <2>3, <3>1
    <2>5. longer = [i \in 0 .. k + 1 |-> IF i = 0 THEN c ELSE Step(loop, i, longer[i - 1])]
        BY <2>4
    <2> HIDE DEF longer
    <2>6. Turned(longer, k + 1, loop, c)
        BY <2>5, Zenon DEF Turned
    <2>7. k + 1 \in 0 .. n
        BY <1>2
    <2>8. QED
        BY <2>6, <2>7
<1> HIDE DEF P
<1>3. \A k \in 0 .. n : k \in P
    BY <1>1, <1>2, Induction, Zenon
<1>4. n \in P
    BY <1>3
<1>5. QED
    BY <1>4, Zenon DEF P

LEMMA TurnedTurns ==
    ASSUME NEW f, NEW n \in Nat, NEW loop, NEW c, Turned(f, n, loop, c)
    PROVE  Turning(f, n, loop, c)
<1>1. f = [i \in 0 .. n |-> IF i = 0 THEN c ELSE Step(loop, i, f[i - 1])]
    BY Zenon DEF Turned
<1>2. f[0] = c
    BY <1>1
<1>3. ASSUME NEW i \in 0 .. n - 1 PROVE f[i + 1] = Step(loop, i + 1, f[i])
    <2>1. i + 1 \in 0 .. n /\ i + 1 # 0 /\ (i + 1) - 1 = i
        OBVIOUS
    <2>2. QED
        BY <1>1, <2>1
<1>4. QED
    BY <1>2, <1>3 DEF Turning

LEMMA RemoveLoop ==
    ASSUME NEW s, NEW l, NEW unwanted, List!Turns(s) \in Nat
    PROVE  \E f : /\ Turning(f, List!Turns(s), [of |-> "remove", l |-> l, unwanted |-> unwanted],
                             [s |-> s, iter |-> List!Begin(s, l)])
                  /\ List!RemoveIf(s, l, unwanted) = f[List!Turns(s)].s
<1> DEFINE n == List!Turns(s)
           loop == [of |-> "remove", l |-> l, unwanted |-> unwanted]
           c == [s |-> s, iter |-> List!Begin(s, l)]
           g == CHOOSE f : f = [i \in 0 .. n |-> IF i = 0 THEN c ELSE List!RemoveTurn(f[i - 1], l, unwanted)]
<1>1. \A i, x : Step(loop, i, x) = List!RemoveTurn(x, l, unwanted)
    BY DEF Step
<1>2. List!RemoveIf(s, l, unwanted) = g[n].s
    BY DEF List!RemoveIf
<1> HIDE DEF loop, c, n
<1> DEFINE next(f) == [i \in 0 .. n |-> IF i = 0 THEN c ELSE List!RemoveTurn(f[i - 1], l, unwanted)]
<1>3. ASSUME NEW f PROVE next(f) = [i \in 0 .. n |-> IF i = 0 THEN c ELSE Step(loop, i, f[i - 1])]
    BY <1>1
<1>4. n \in Nat
    BY DEF n
<1>5. Turned(g, n, loop, c)
    <2>1. PICK f : Turned(f, n, loop, c)
        BY <1>4, LoopsExist
    <2>2. f = next(f)
        BY <1>3, <2>1, Zenon DEF Turned
    <2> HIDE DEF next
    <2>3. g = next(g)
        BY <2>2, Zenon DEF next
    <2>4. QED
        BY <1>3, <2>3, Zenon DEF Turned
<1> HIDE DEF g
<1>6. Turning(g, n, loop, c)
    BY <1>4, <1>5, TurnedTurns
<1>7. QED
    BY <1>2, <1>6 DEF loop, c, n

LEMMA AdvanceLoop ==
    ASSUME NEW s, NEW l, List!Turns(s) \in Nat
    PROVE  \E f : /\ Turning(f, List!Turns(s), [of |-> "advance", s |-> s],
                             List!Begin(s, l))
                  /\ List!Advanced(s, l) = f
<1> DEFINE n == List!Turns(s)
           loop == [of |-> "advance", s |-> s]
           c == List!Begin(s, l)
           next(f) == [i \in 0 .. n |-> IF i = 0 THEN c ELSE List!At(s, f[i - 1], "next")]
           g == CHOOSE f : f = [i \in 0 .. n |-> IF i = 0 THEN c ELSE List!At(s, f[i - 1], "next")]
<1>1. \A i, y : Step(loop, i, y) = List!At(s, y, "next")
    BY DEF Step
<1>2. List!Advanced(s, l) = g
    BY DEF List!Advanced
<1> HIDE DEF loop, c, n
<1>3. ASSUME NEW f PROVE next(f) = [i \in 0 .. n |-> IF i = 0 THEN c ELSE Step(loop, i, f[i - 1])]
    BY <1>1
<1>4. n \in Nat
    BY DEF n
<1>5. Turned(g, n, loop, c)
    <2>1. PICK f : Turned(f, n, loop, c)
        BY <1>4, LoopsExist
    <2>2. f = next(f)
        BY <1>3, <2>1, Zenon DEF Turned
    <2> HIDE DEF next
    <2>3. g = next(g)
        BY <2>2, Zenon DEF next
    <2>4. QED
        BY <1>3, <2>3, Zenon DEF Turned
<1> HIDE DEF g
<1>6. Turning(g, n, loop, c)
    BY <1>4, <1>5, TurnedTurns
<1>7. QED
    BY <1>2, <1>6 DEF loop, c, n

LEMMA UniqueLoop ==
    ASSUME NEW s, NEW l, List!Turns(s) \in Nat
    PROVE  \E f : /\ Turning(f, List!Turns(s), [of |-> "unique", l |-> l],
                             [s |-> s, iter |-> List!At(s, List!Begin(s, l), "next"), value |-> List!ValueOf(List!Begin(s, l))])
                  /\ List!Unique(s, l) = f[List!Turns(s)].s
<1> DEFINE n == List!Turns(s)
           loop == [of |-> "unique", l |-> l]
           c == [s |-> s, iter |-> List!At(s, List!Begin(s, l), "next"), value |-> List!ValueOf(List!Begin(s, l))]
           next(f) == [i \in 0 .. n |-> IF i = 0 THEN c ELSE List!UniqueTurn(f[i - 1], l)]
           g == CHOOSE f : f = [i \in 0 .. n |-> IF i = 0 THEN c ELSE List!UniqueTurn(f[i - 1], l)]
<1>1. \A i, y : Step(loop, i, y) = List!UniqueTurn(y, l)
    BY DEF Step
<1>2. List!Unique(s, l) = g[n].s
    BY DEF List!Unique
<1> HIDE DEF loop, c, n
<1>3. ASSUME NEW f PROVE next(f) = [i \in 0 .. n |-> IF i = 0 THEN c ELSE Step(loop, i, f[i - 1])]
    BY <1>1
<1>4. n \in Nat
    BY DEF n
<1>5. Turned(g, n, loop, c)
    <2>1. PICK f : Turned(f, n, loop, c)
        BY <1>4, LoopsExist
    <2>2. f = next(f)
        BY <1>3, <2>1, Zenon DEF Turned
    <2> HIDE DEF next
    <2>3. g = next(g)
        BY <2>2, Zenon DEF next
    <2>4. QED
        BY <1>3, <2>3, Zenon DEF Turned
<1> HIDE DEF g
<1>6. Turning(g, n, loop, c)
    BY <1>4, <1>5, TurnedTurns
<1>7. QED
    BY <1>2, <1>6 DEF loop, c, n

LEMMA ReverseLoop ==
    ASSUME NEW s, NEW first, NEW last, List!Turns(s) \in Nat
    PROVE  \E f : /\ Turning(f, List!Turns(s), [of |-> "reverse", first |-> first, last |-> last],
                             s)
                  /\ List!ReverseRange(s, first, last) = f[List!Turns(s)]
<1> DEFINE n == List!Turns(s)
           loop == [of |-> "reverse", first |-> first, last |-> last]
           c == s
           next(f) == [i \in 0 .. n |-> IF i = 0 THEN c ELSE List!ReverseTurn(f[i - 1], first, last)]
           g == CHOOSE f : f = [i \in 0 .. n |-> IF i = 0 THEN c ELSE List!ReverseTurn(f[i - 1], first, last)]
<1>1. \A i, y : Step(loop, i, y) = List!ReverseTurn(y, first, last)
    BY DEF Step
<1>2. List!ReverseRange(s, first, last) = g[n]
    BY DEF List!ReverseRange
<1> HIDE DEF loop, c, n
<1>3. ASSUME NEW f PROVE next(f) = [i \in 0 .. n |-> IF i = 0 THEN c ELSE Step(loop, i, f[i - 1])]
    BY <1>1
<1>4. n \in Nat
    BY DEF n
<1>5. Turned(g, n, loop, c)
    <2>1. PICK f : Turned(f, n, loop, c)
        BY <1>4, LoopsExist
    <2>2. f = next(f)
        BY <1>3, <2>1, Zenon DEF Turned
    <2> HIDE DEF next
    <2>3. g = next(g)
        BY <2>2, Zenon DEF next
    <2>4. QED
        BY <1>3, <2>3, Zenon DEF Turned
<1> HIDE DEF g
<1>6. Turning(g, n, loop, c)
    BY <1>4, <1>5, TurnedTurns
<1>7. QED
    BY <1>2, <1>6 DEF loop, c, n

LEMMA MergeLoop ==
    ASSUME NEW s, NEW l, NEW x, List!Turns(s) \in Nat
    PROVE  \E f : /\ Turning(f, List!Turns(s), [of |-> "merge", l |-> l, x |-> x],
                             [s |-> s, first1 |-> List!Begin(s, l), first2 |-> List!Begin(s, x)])
                  /\ List!Merge(s, l, x) = IF f[List!Turns(s)].first2 = x THEN f[List!Turns(s)].s
                                             ELSE List!Transfer(f[List!Turns(s)].s, l, f[List!Turns(s)].first2, x)
<1> DEFINE n == List!Turns(s)
           loop == [of |-> "merge", l |-> l, x |-> x]
           c == [s |-> s, first1 |-> List!Begin(s, l), first2 |-> List!Begin(s, x)]
           next(f) == [i \in 0 .. n |-> IF i = 0 THEN c ELSE List!MergeTurn(f[i - 1], l, x)]
           g == CHOOSE f : f = [i \in 0 .. n |-> IF i = 0 THEN c ELSE List!MergeTurn(f[i - 1], l, x)]
<1>1. \A i, y : Step(loop, i, y) = List!MergeTurn(y, l, x)
    BY DEF Step
<1>2. List!Merge(s, l, x) = IF g[n].first2 = x THEN g[n].s
                                             ELSE List!Transfer(g[n].s, l, g[n].first2, x)
    BY DEF List!Merge
<1> HIDE DEF loop, c, n
<1>3. ASSUME NEW f PROVE next(f) = [i \in 0 .. n |-> IF i = 0 THEN c ELSE Step(loop, i, f[i - 1])]
    BY <1>1
<1>4. n \in Nat
    BY DEF n
<1>5. Turned(g, n, loop, c)
    <2>1. PICK f : Turned(f, n, loop, c)
        BY <1>4, LoopsExist
    <2>2. f = next(f)
        BY <1>3, <2>1, Zenon DEF Turned
    <2> HIDE DEF next
    <2>3. g = next(g)
        BY <2>2, Zenon DEF next
    <2>4. QED
        BY <1>3, <2>3, Zenon DEF Turned
<1> HIDE DEF g
<1>6. Turning(g, n, loop, c)
    BY <1>4, <1>5, TurnedTurns
<1>7. QED
    BY <1>2, <1>6 DEF loop, c, n

LEMMA SplitLoop ==
    ASSUME NEW s, NEW l, NEW left, NEW right, List!Turns(s) \in Nat
    PROVE  \E f : /\ Turning(f, List!Turns(s), [of |-> "split", l |-> l, left |-> left, right |-> right],
                             [s |-> s, iter |-> List!At(s, List!Begin(s, l), "next")])
                  /\ List!Split(s, l, left, right) = f[List!Turns(s)].s
<1> DEFINE n == List!Turns(s)
           loop == [of |-> "split", l |-> l, left |-> left, right |-> right]
           c == [s |-> s, iter |-> List!At(s, List!Begin(s, l), "next")]
           next(f) == [i \in 0 .. n |-> IF i = 0 THEN c ELSE List!SplitTurn(f[i - 1], l, left, right)]
           g == CHOOSE f : f = [i \in 0 .. n |-> IF i = 0 THEN c ELSE List!SplitTurn(f[i - 1], l, left, right)]
<1>1. \A i, y : Step(loop, i, y) = List!SplitTurn(y, l, left, right)
    BY DEF Step
<1>2. List!Split(s, l, left, right) = g[n].s
    BY DEF List!Split
<1> HIDE DEF loop, c, n
<1>3. ASSUME NEW f PROVE next(f) = [i \in 0 .. n |-> IF i = 0 THEN c ELSE Step(loop, i, f[i - 1])]
    BY <1>1
<1>4. n \in Nat
    BY DEF n
<1>5. Turned(g, n, loop, c)
    <2>1. PICK f : Turned(f, n, loop, c)
        BY <1>4, LoopsExist
    <2>2. f = next(f)
        BY <1>3, <2>1, Zenon DEF Turned
    <2> HIDE DEF next
    <2>3. g = next(g)
        BY <2>2, Zenon DEF next
    <2>4. QED
        BY <1>3, <2>3, Zenon DEF Turned
<1> HIDE DEF g
<1>6. Turning(g, n, loop, c)
    BY <1>4, <1>5, TurnedTurns
<1>7. QED
    BY <1>2, <1>6 DEF loop, c, n

LEMMA SortLoop ==
    ASSUME NEW s, NEW l, 3 * List!Turns(s) \in Nat
    PROVE  \E f : /\ Turning(f, 3 * List!Turns(s), [of |-> "sort"],
                             [s |-> s, calls |-> <<List!Call(l, 1, FALSE)>>])
                  /\ List!Sort(s, l) = f[3 * List!Turns(s)].s
<1> DEFINE n == 3 * List!Turns(s)
           loop == [of |-> "sort"]
           c == [s |-> s, calls |-> <<List!Call(l, 1, FALSE)>>]
           next(f) == [i \in 0 .. n |-> IF i = 0 THEN c ELSE List!SortTurn(f[i - 1])]
           g == CHOOSE f : f = [i \in 0 .. n |-> IF i = 0 THEN c ELSE List!SortTurn(f[i - 1])]
<1>1. \A i, y : Step(loop, i, y) = List!SortTurn(y)
    BY DEF Step
<1>2. List!Sort(s, l) = g[n].s
    BY DEF List!Sort
<1> HIDE DEF loop, c, n
<1>3. ASSUME NEW f PROVE next(f) = [i \in 0 .. n |-> IF i = 0 THEN c ELSE Step(loop, i, f[i - 1])]
    BY <1>1
<1>4. n \in Nat
    BY DEF n
<1>5. Turned(g, n, loop, c)
    <2>1. PICK f : Turned(f, n, loop, c)
        BY <1>4, LoopsExist
    <2>2. f = next(f)
        BY <1>3, <2>1, Zenon DEF Turned
    <2> HIDE DEF next
    <2>3. g = next(g)
        BY <2>2, Zenon DEF next
    <2>4. QED
        BY <1>3, <2>3, Zenon DEF Turned
<1> HIDE DEF g
<1>6. Turning(g, n, loop, c)
    BY <1>4, <1>5, TurnedTurns
<1>7. QED
    BY <1>2, <1>6 DEF loop, c, n

LEMMA DroppingLoop ==
    ASSUME NEW q, NEW gone, Len(q) \in Nat
    PROVE  \E f : /\ Turning(f, Len(q), [of |-> "drop", q |-> q, gone |-> gone],
                             <<>>)
                  /\ List!Dropping(q, gone) = f[Len(q)]
<1> DEFINE n == Len(q)
           loop == [of |-> "drop", q |-> q, gone |-> gone]
           c == <<>>
           next(f) == [i \in 0 .. n |-> IF i = 0 THEN c ELSE (IF q[i] \in gone THEN f[i - 1] ELSE Append(f[i - 1], q[i]))]
           g == CHOOSE f : f = [i \in 0 .. n |-> IF i = 0 THEN c ELSE (IF q[i] \in gone THEN f[i - 1] ELSE Append(f[i - 1], q[i]))]
<1>1. \A i, y : Step(loop, i, y) = (IF q[i] \in gone THEN y ELSE Append(y, q[i]))
    BY DEF Step
<1>2. List!Dropping(q, gone) = g[n]
    BY DEF List!Dropping
<1> HIDE DEF loop, c, n
<1>3. ASSUME NEW f PROVE next(f) = [i \in 0 .. n |-> IF i = 0 THEN c ELSE Step(loop, i, f[i - 1])]
    BY <1>1
<1>4. n \in Nat
    BY DEF n
<1>5. Turned(g, n, loop, c)
    <2>1. PICK f : Turned(f, n, loop, c)
        BY <1>4, LoopsExist
    <2>2. f = next(f)
        BY <1>3, <2>1, Zenon DEF Turned
    <2> HIDE DEF next
    <2>3. g = next(g)
        BY <2>2, Zenon DEF next
    <2>4. QED
        BY <1>3, <2>3, Zenon DEF Turned
<1> HIDE DEF g
<1>6. Turning(g, n, loop, c)
    BY <1>4, <1>5, TurnedTurns
<1>7. QED
    BY <1>2, <1>6 DEF loop, c, n

-----------------------------------------------------------------------------
(* What its operations do to sequences. *)

\* u is w with the sequence run before its place i.
PutIs(w, u, i, run) ==
    /\ u \in Seq(Int) /\ Len(u) = Len(w) + Len(run)
    /\ \A p \in 1 .. Len(u) :
         u[p] = IF p < i THEN w[p] ELSE IF p < i + Len(run) THEN run[p - i + 1] ELSE w[p - Len(run)]

\* The functions on sequences, place by place.
LEMMA PutBeforeIs ==
    ASSUME NEW w \in Seq(Int), NEW i \in 1 .. Len(w) + 1, NEW run \in Seq(Int)
    PROVE  PutIs(w, List!PutBefore(w, i, run), i, run)
<1> DEFINE n == Len(w)
           m == Len(run)
           a == SubSeq(w, 1, i - 1)
           b == SubSeq(w, i, n)
           ar == a \o run
           u == ar \o b
<1>1. n \in Nat /\ m \in Nat /\ i \in Nat /\ 1 =< i /\ i =< n + 1 /\ i - 1 \in 0 .. n /\ (i - 1) + 1 = i
    OBVIOUS
<1>2. List!PutBefore(w, i, run) = u
    BY DEF List!PutBefore
<1>3. a \in Seq(Int) /\ Len(a) = i - 1 /\ \A p \in 1 .. i - 1 : a[p] = w[p]
    BY <1>1, PrefixIs
<1>4. b \in Seq(Int) /\ Len(b) = n - (i - 1) /\ \A p \in 1 .. n - (i - 1) : b[p] = w[(i - 1) + p]
    BY <1>1, SuffixIs
<1> HIDE DEF a, b
<1>5. /\ ar \in Seq(Int) /\ Len(ar) = Len(a) + m
      /\ \A p \in 1 .. Len(a) + m : ar[p] = IF p =< Len(a) THEN a[p] ELSE run[p - Len(a)]
    BY <1>3, ConcatProperties
<1> HIDE DEF ar
<1>6. /\ u \in Seq(Int) /\ Len(u) = Len(ar) + Len(b)
      /\ \A p \in 1 .. Len(ar) + Len(b) : u[p] = IF p =< Len(ar) THEN ar[p] ELSE b[p - Len(ar)]
    <2>1. ar \in Seq(Int) /\ b \in Seq(Int)
        BY <1>4, <1>5
    <2>2. QED
        BY <2>1, ConcatProperties
<1> HIDE DEF u, n, m
<1>7. Len(ar) = (i - 1) + m /\ Len(u) = n + m
    BY <1>1, <1>3, <1>4, <1>5, <1>6
<1>8. ASSUME NEW p \in 1 .. n + m
      PROVE  u[p] = IF p < i THEN w[p] ELSE IF p < i + m THEN run[p - i + 1] ELSE w[p - m]
    <2>1. p \in 1 .. Len(ar) + Len(b)
        BY <1>1, <1>4, <1>7, <1>8
    <2>2. CASE p < i
        <3>1. p =< Len(ar) /\ p \in 1 .. Len(a) + m /\ p =< Len(a) /\ p \in 1 .. i - 1
            BY <1>1, <1>3, <1>7, <2>2
        <3>2. u[p] = w[p]
            BY <1>3, <1>5, <1>6, <2>1, <3>1
        <3>3. QED
            BY <2>2, <3>2
    <2>3. CASE ~ (p < i) /\ p < i + m
        <3>1. p =< Len(ar) /\ p \in 1 .. Len(a) + m /\ ~ (p =< Len(a)) /\ p - Len(a) = p - i + 1
            BY <1>1, <1>3, <1>7, <2>3
        <3>2. u[p] = run[p - i + 1]
            BY <1>5, <1>6, <2>1, <3>1
        <3>3. QED
            BY <2>3, <3>2
    <2>4. CASE ~ (p < i) /\ ~ (p < i + m)
        <3> DEFINE g == p - Len(ar)
        <3>1. ~ (p =< Len(ar)) /\ g \in 1 .. n - (i - 1) /\ (i - 1) + g = p - m
            BY <1>1, <1>7, <2>4
        <3>2. u[p] = b[g]
            BY <1>6, <2>1, <3>1
        <3> HIDE DEF g
        <3>3. u[p] = w[p - m]
            BY <1>4, <3>1, <3>2
        <3>4. QED
            BY <2>4, <3>3
    <2>5. QED
        BY <2>2, <2>3, <2>4
<1>9. PutIs(w, u, i, run)
    BY <1>6, <1>7, <1>8 DEF PutIs, n, m
<1>10. QED
    BY <1>2, <1>9

LEMMA WithoutIs ==
    ASSUME NEW w \in Seq(Int), NEW i \in 1 .. Len(w) + 1, NEW j \in 1 .. Len(w) + 1, i < j
    PROVE  Reduced(w, List!Without(w, i, j), i - 1, j - 1) /\ Part(Len(w), i - 1, j - 1)
<1> DEFINE n == Len(w)
           a == SubSeq(w, 1, i - 1)
           b == SubSeq(w, j, n)
           v == a \o b
<1>1. n \in Nat /\ i \in Nat /\ 1 =< i /\ j \in Nat /\ j =< n + 1 /\ i - 1 \in 0 .. n /\ j - 1 \in 0 .. n /\ (j - 1) + 1 = j
    OBVIOUS
<1>2. List!Without(w, i, j) = v
    BY DEF List!Without
<1>3. a \in Seq(Int) /\ Len(a) = i - 1 /\ \A p \in 1 .. i - 1 : a[p] = w[p]
    BY <1>1, PrefixIs
<1>4. b \in Seq(Int) /\ Len(b) = n - (j - 1) /\ \A p \in 1 .. n - (j - 1) : b[p] = w[(j - 1) + p]
    BY <1>1, SuffixIs
<1> HIDE DEF a, b
<1>5. /\ v \in Seq(Int) /\ Len(v) = Len(a) + Len(b)
      /\ \A p \in 1 .. Len(a) + Len(b) : v[p] = IF p =< Len(a) THEN a[p] ELSE b[p - Len(a)]
    BY <1>3, <1>4, ConcatProperties
<1> HIDE DEF v, n
<1>6. Len(v) = n - ((j - 1) - (i - 1))
    BY <1>1, <1>3, <1>4, <1>5
<1>7. ASSUME NEW p \in 1 .. Len(v)
      PROVE  v[p] = w[IF p =< i - 1 THEN p ELSE p + ((j - 1) - (i - 1))]
    <2>1. p \in 1 .. Len(a) + Len(b)
        BY <1>5
    <2>2. CASE p =< i - 1
        BY <1>3, <1>5, <2>1, <2>2
    <2>3. CASE ~ (p =< i - 1)
        <3> DEFINE g == p - Len(a)
        <3>1. ~ (p =< Len(a)) /\ g \in 1 .. n - (j - 1) /\ (j - 1) + g = p + ((j - 1) - (i - 1))
            BY <1>1, <1>3, <1>4, <2>1, <2>3
        <3>2. v[p] = b[g]
            BY <1>5, <2>1, <3>1
        <3> HIDE DEF g
        <3>3. v[p] = w[p + ((j - 1) - (i - 1))]
            BY <1>4, <3>1, <3>2
        <3>4. QED
            BY <2>3, <3>3
    <2>4. QED
        BY <2>2, <2>3
<1>8. Reduced(w, v, i - 1, j - 1)
    BY <1>5, <1>6, <1>7 DEF Reduced, n
<1>9. Part(n, i - 1, j - 1)
    BY <1>1 DEF Part
<1>10. QED
    BY <1>2, <1>8, <1>9 DEF n

LEMMA RunIs ==
    ASSUME NEW w \in Seq(Int), NEW i \in 1 .. Len(w) + 1, NEW j \in 1 .. Len(w) + 1, i =< j
    PROVE  /\ SubSeq(w, i, j - 1) \in Seq(Int) /\ Len(SubSeq(w, i, j - 1)) = j - i
           /\ \A p \in 1 .. j - i : SubSeq(w, i, j - 1)[p] = w[p + i - 1]
<1>1. /\ Len(w) \in Nat /\ i \in Nat /\ j \in Nat /\ 1 =< i /\ j - 1 =< Len(w) /\ j - 1 \in Int
      /\ (j - 1) - i + 1 = j - i /\ j - i \in Nat
    OBVIOUS
<1>2. \A p \in i .. j - 1 : w[p] \in Int
    BY <1>1
<1>3. SubSeq(w, i, j - 1) \in Seq(Int)
    BY <1>1, <1>2
<1>4. Len(SubSeq(w, i, j - 1)) = j - i
    BY <1>1
<1>5. ASSUME NEW p \in 1 .. j - i PROVE SubSeq(w, i, j - 1)[p] = w[p + i - 1]
    BY <1>1
<1>6. QED
    BY <1>3, <1>4, <1>5

\* What goes from one list into another.
LEMMA MovedAcross ==
    ASSUME NEW w \in Seq(Int), NEW y \in Seq(Int), NEW i \in 1 .. Len(w) + 1, NEW j \in 1 .. Len(w) + 1, i < j,
           NEW k \in 1 .. Len(y) + 1
    PROVE  Given(y, List!PutBefore(y, k, SubSeq(w, i, j - 1)), k - 1, w, i - 1, j - 1)
<1> DEFINE run == SubSeq(w, i, j - 1)
           u == List!PutBefore(y, k, run)
           n == Len(w)
           m == Len(y)
<1>1. n \in Nat /\ m \in Nat /\ i \in Nat /\ 1 =< i /\ j \in Nat /\ j =< n + 1 /\ k \in Nat /\ 1 =< k /\ k =< m + 1
    OBVIOUS
<1>2. run \in Seq(Int) /\ Len(run) = j - i /\ \A p \in 1 .. j - i : run[p] = w[p + i - 1]
    BY RunIs
<1> HIDE DEF run
<1>3. PutIs(y, u, k, run)
    BY <1>2, PutBeforeIs
<1> HIDE DEF u
<1>4. /\ u \in Seq(Int) /\ Len(u) = m + (j - i)
      /\ \A p \in 1 .. Len(u) :
           u[p] = IF p < k THEN y[p] ELSE IF p < k + (j - i) THEN run[p - k + 1] ELSE y[p - (j - i)]
    BY <1>2, <1>3 DEF PutIs
<1> HIDE DEF n, m
<1>5. Len(u) = m + ((j - 1) - (i - 1))
    BY <1>1, <1>4
<1>6. ASSUME NEW p \in 1 .. Len(u)
      PROVE  u[p] = IF p =< k - 1 THEN y[p] ELSE IF p =< (k - 1) + ((j - 1) - (i - 1)) THEN w[p - (k - 1) + (i - 1)]
                    ELSE y[p - ((j - 1) - (i - 1))]
    <2>0. p \in Nat /\ (j - 1) - (i - 1) = j - i
        BY <1>1, <1>4
    <2>1. CASE p < k
        <3>1. p =< k - 1
            BY <1>1, <2>0, <2>1
        <3>2. QED
            BY <1>4, <2>1, <3>1
    <2>2. CASE ~ (p < k) /\ p < k + (j - i)
        <3> DEFINE g == p - k + 1
        <3>1. ~ (p =< k - 1) /\ p =< (k - 1) + ((j - 1) - (i - 1)) /\ g \in 1 .. j - i /\ g + i - 1 = p - (k - 1) + (i - 1)
            BY <1>1, <2>0, <2>2
        <3>2. u[p] = run[g]
            BY <1>4, <2>2
        <3> HIDE DEF g
        <3>3. u[p] = w[p - (k - 1) + (i - 1)]
            BY <1>2, <3>1, <3>2
        <3>4. QED
            BY <3>1, <3>3
    <2>3. CASE ~ (p < k) /\ ~ (p < k + (j - i))
        <3>1. ~ (p =< k - 1) /\ ~ (p =< (k - 1) + ((j - 1) - (i - 1)))
            BY <1>1, <2>0, <2>3
        <3>2. QED
            BY <1>4, <2>0, <2>3, <3>1
    <2>4. QED
        BY <2>1, <2>2, <2>3
<1>7. QED
    BY <1>4, <1>5, <1>6 DEF Given, u, run, m

\* What changes its place in a list.
Shifted(w, i, j, k) ==
    List!PutBefore(List!Without(w, i, j), IF k >= j THEN k - (j - i) ELSE k, SubSeq(w, i, j - 1))

LEMMA MovedWithin ==
    ASSUME NEW w \in Seq(Int), NEW i \in 1 .. Len(w) + 1, NEW j \in 1 .. Len(w) + 1, i < j,
           NEW k \in 1 .. Len(w) + 1, k < i \/ k >= j
    PROVE  /\ k < i => Exchanged(w, Shifted(w, i, j, k), k - 1, i - 1, j - 1)
           /\ k > j => Exchanged(w, Shifted(w, i, j, k), i - 1, j - 1, k - 1)
           /\ k = j => Shifted(w, i, j, k) = w
<1> DEFINE n == Len(w)
           x == List!Without(w, i, j)
           run == SubSeq(w, i, j - 1)
           to == IF k >= j THEN k - (j - i) ELSE k
           v == List!PutBefore(x, to, run)
<1>1. n \in Nat /\ i \in Nat /\ 1 =< i /\ i < j /\ j \in Nat /\ j =< n + 1 /\ k \in Nat /\ 1 =< k /\ k =< n + 1
    OBVIOUS
<1>2. run \in Seq(Int) /\ Len(run) = j - i /\ \A p \in 1 .. j - i : run[p] = w[p + i - 1]
    BY RunIs
<1>3. Reduced(w, x, i - 1, j - 1)
    BY WithoutIs
<1> HIDE DEF run, x
<1>4. /\ x \in Seq(Int) /\ Len(x) = n - ((j - 1) - (i - 1))
      /\ \A p \in 1 .. Len(x) : x[p] = w[IF p =< i - 1 THEN p ELSE p + ((j - 1) - (i - 1))]
    BY <1>3 DEF Reduced
<1>5. to \in 1 .. Len(x) + 1
    <2> HIDE DEF n
    <2>1. QED
        BY <1>1, <1>4
<1> HIDE DEF to
<1>6. PutIs(x, v, to, run)
    BY <1>2, <1>4, <1>5, PutBeforeIs
<1> HIDE DEF v
<1>7. /\ v \in Seq(Int) /\ Len(v) = Len(x) + (j - i)
      /\ \A p \in 1 .. Len(v) :
           v[p] = IF p < to THEN x[p] ELSE IF p < to + (j - i) THEN run[p - to + 1] ELSE x[p - (j - i)]
    BY <1>2, <1>6 DEF PutIs
<1> HIDE DEF n
<1>8. Len(v) = n /\ Len(x) = n - (j - i)
    BY <1>1, <1>4, <1>7
<1>9. ASSUME NEW p \in 1 .. n - (j - i)
      PROVE  /\ p < i => x[p] = w[p]
             /\ p >= i => x[p] = w[p + (j - i)]
    <2>1. p \in 1 .. Len(x) /\ (j - 1) - (i - 1) = j - i
        BY <1>1, <1>8
    <2>2. CASE p < i
        <3>1. p =< i - 1
            BY <1>1, <2>2
        <3>2. QED
            BY <1>1, <1>4, <2>1, <2>2, <3>1
    <2>3. CASE p >= i
        <3>1. ~ (p =< i - 1)
            BY <1>1, <2>3
        <3>2. QED
            BY <1>1, <1>4, <2>1, <2>3, <3>1
    <2>4. QED
        BY <1>1, <2>2, <2>3
<1>10. ASSUME NEW p \in 1 .. n
       PROVE  /\ p < to /\ p < i => v[p] = w[p]
              /\ p < to /\ p >= i => v[p] = w[p + (j - i)]
              /\ p >= to /\ p < to + (j - i) => v[p] = w[p - to + i]
              /\ p >= to + (j - i) /\ p < j => v[p] = w[p - (j - i)]
              /\ p >= to + (j - i) /\ p >= j => v[p] = w[p]
    <2>1. p \in 1 .. Len(v) /\ to \in Nat /\ 1 =< to /\ to =< n - (j - i) + 1
        BY <1>1, <1>5, <1>8
    <2>2. CASE p < to
        <3>1. p \in 1 .. n - (j - i) /\ ~ (p >= to) /\ ~ (p >= to + (j - i))
            BY <1>1, <2>1, <2>2
        <3>2. v[p] = x[p]
            BY <1>7, <2>1, <2>2
        <3>3. QED
            BY <1>9, <2>2, <3>1, <3>2
    <2>3. CASE p >= to /\ p < to + (j - i)
        <3> DEFINE g == p - to + 1
        <3>1. ~ (p < to) /\ ~ (p >= to + (j - i)) /\ g \in 1 .. j - i /\ g + i - 1 = p - to + i
            BY <1>1, <2>1, <2>3
        <3>2. v[p] = run[g]
            BY <1>7, <2>1, <2>3
        <3> HIDE DEF g
        <3>3. v[p] = w[p - to + i]
            BY <1>2, <3>1, <3>2
        <3>4. QED
            BY <2>3, <3>1, <3>3
    <2>4. CASE p >= to + (j - i)
        <3> DEFINE g == p - (j - i)
        <3>1. ~ (p < to) /\ ~ (p < to + (j - i)) /\ g \in 1 .. n - (j - i) /\ g + (j - i) = p
              /\ (p < j => g < i) /\ (p >= j => g >= i)
            BY <1>1, <2>1, <2>4
        <3>2. v[p] = x[g]
            BY <1>7, <2>1, <3>1
        <3> HIDE DEF g
        <3>3. (p < j => v[p] = w[g]) /\ (p >= j => v[p] = w[p])
            BY <1>9, <3>1, <3>2
        <3>4. QED
            BY <2>4, <3>1, <3>3 DEF g
    <2>5. QED
        BY <1>1, <2>1, <2>2, <2>3, <2>4
<1>11. Shifted(w, i, j, k) = v
    BY DEF Shifted, v, x, run, to
<1>12. CASE k < i
    <2>1. to = k
        BY <1>1, <1>12 DEF to
    <2>2. ASSUME NEW p \in 1 .. n PROVE v[p] = w[Source(k - 1, i - 1, j - 1, p)]
        <3>1. CASE p < k
            <4>1. Source(k - 1, i - 1, j - 1, p) = p /\ p < i
                BY <1>1, <1>12, <3>1 DEF Source
            <4>2. QED
                BY <1>10, <2>1, <3>1, <4>1
        <3>2. CASE p >= k /\ p < k + (j - i)
            <4>1. Source(k - 1, i - 1, j - 1, p) = p - k + i
                BY <1>1, <1>12, <3>2 DEF Source
            <4>2. QED
                BY <1>10, <2>1, <3>2, <4>1
        <3>3. CASE p >= k + (j - i) /\ p < j
            <4>1. Source(k - 1, i - 1, j - 1, p) = p - (j - i)
                BY <1>1, <1>12, <3>3 DEF Source
            <4>2. QED
                BY <1>10, <2>1, <3>3, <4>1
        <3>4. CASE p >= j
            <4>1. Source(k - 1, i - 1, j - 1, p) = p /\ p >= k + (j - i)
                BY <1>1, <1>12, <3>4 DEF Source
            <4>2. QED
                BY <1>10, <2>1, <3>4, <4>1
        <3>5. QED
            BY <1>1, <3>1, <3>2, <3>3, <3>4
    <2>3. Exchanged(w, v, k - 1, i - 1, j - 1)
        BY <1>7, <1>8, <2>2 DEF Exchanged, n
    <2>4. ~ (k > j) /\ k # j
        BY <1>1, <1>12
    <2>5. QED
        BY <1>11, <2>3, <2>4
<1>13. CASE k > j
    <2>1. to = k - (j - i)
        BY <1>1, <1>13 DEF to
    <2>2. ASSUME NEW p \in 1 .. n PROVE v[p] = w[Source(i - 1, j - 1, k - 1, p)]
        <3>1. CASE p < i
            <4>1. Source(i - 1, j - 1, k - 1, p) = p /\ p < to
                BY <1>1, <1>13, <2>1, <3>1 DEF Source
            <4>2. QED
                BY <1>10, <3>1, <4>1
        <3>2. CASE p >= i /\ p < to
            <4>1. Source(i - 1, j - 1, k - 1, p) = p + (j - i)
                BY <1>1, <1>13, <2>1, <3>2 DEF Source
            <4>2. QED
                BY <1>10, <3>2, <4>1
        <3>3. CASE p >= to /\ p < k
            <4>1. Source(i - 1, j - 1, k - 1, p) = p - to + i /\ p < to + (j - i)
                BY <1>1, <1>13, <2>1, <3>3 DEF Source
            <4>2. QED
                BY <1>10, <3>3, <4>1
        <3>4. CASE p >= k
            <4>1. Source(i - 1, j - 1, k - 1, p) = p /\ p >= to + (j - i) /\ p >= j
                BY <1>1, <1>13, <2>1, <3>4 DEF Source
            <4>2. QED
                BY <1>10, <4>1
        <3>5. QED
            BY <1>1, <2>1, <3>1, <3>2, <3>3, <3>4
    <2>3. Exchanged(w, v, i - 1, j - 1, k - 1)
        BY <1>7, <1>8, <2>2 DEF Exchanged, n
    <2>4. ~ (k < i) /\ k # j
        BY <1>1, <1>13
    <2>5. QED
        BY <1>11, <2>3, <2>4
<1>14. CASE k = j
    <2>1. to = i /\ to + (j - i) = j
        BY <1>1, <1>14 DEF to
    <2>2. ASSUME NEW p \in 1 .. n PROVE v[p] = w[p]
        <3>1. CASE p < i
            BY <1>10, <2>1, <3>1
        <3>2. CASE p >= i /\ p < j
            <4>1. p - to + i = p /\ p >= to /\ p < to + (j - i)
                BY <1>1, <2>1, <3>2
            <4>2. QED
                BY <1>10, <4>1
        <3>3. CASE p >= j
            BY <1>10, <2>1, <3>3
        <3>4. QED
            BY <1>1, <3>1, <3>2, <3>3
    <2>3. v = w
        <3>1. Len(v) = Len(w) /\ \A p \in 1 .. Len(v) : v[p] = w[p]
            BY <1>8, <2>2 DEF n
        <3>2. QED
            BY <1>7, <3>1, SeqEqual
    <2>4. ~ (k < i) /\ ~ (k > j)
        BY <1>1, <1>14
    <2>5. QED
        BY <1>11, <2>3, <2>4
<1>15. QED
    BY <1>1, <1>12, <1>13, <1>14

-----------------------------------------------------------------------------
(* What a loop and a call of an operation start from and leave. *)

Positive(q, D) == \A l \in D : \A i \in 1 .. Len(q[l]) : q[l][i] > 0
Sound(s, q, D) == Ringed(s, q, D) /\ Positive(q, D)

LEMMA PositiveKept ==
    ASSUME NEW D, NEW q, NEW r, Apart(q, D), Apart(r, D), Positive(q, D), NEW x, x > 0,
           Cells(r, D) \subseteq Cells(q, D) \cup {x}
    PROVE  Positive(r, D)
<1> SUFFICES ASSUME NEW l \in D, NEW i \in 1 .. Len(r[l]) PROVE r[l][i] > 0
    BY DEF Positive
<1>1. r[l][i] \in Int /\ r[l][i] \notin D
    BY DEF Apart
<1>2. r[l][i] \in Cells(r, D)
    BY <1>1 DEF Cells
<1>3. r[l][i] = x \/ \E k \in D : \E j \in 1 .. Len(q[k]) : q[k][j] = r[l][i]
    BY <1>1, <1>2 DEF Cells
<1>4. QED
    BY <1>3 DEF Positive

\* A part of a ring that goes behind the next part keeps memory sound.
LEMMA ForthSound ==
    ASSUME NEW D, NEW q, NEW s, Sound(s, q, D), NEW l \in D, NEW v, NEW a, NEW b, NEW c,
           Cuts(Len(q[l]), a, b, c), Exchanged(q[l], v, a, b, c)
    PROVE  Sound(List!Transfer(s, NodeOf(q[l], l, a + 1), NodeOf(q[l], l, b + 1), NodeOf(q[l], l, c + 1)),
                  [q EXCEPT ![l] = v], D)
<1>1. a \in Nat /\ b \in Nat /\ c \in Nat /\ a < b /\ b < c /\ c =< Len(q[l]) /\ Ringed(s, q, D) /\ Positive(q, D)
    BY DEF Cuts, Sound
<1>2. Ringed(List!Transfer(s, NodeOf(q[l], l, a + 1), NodeOf(q[l], l, b + 1), NodeOf(q[l], l, c + 1)),
                  [q EXCEPT ![l] = v], D)
    BY <1>1, TransferForth
<1>3. Apart(q, D) /\ Apart([q EXCEPT ![l] = v], D)
    BY <1>1, <1>2 DEF Ringed
<1>4. Cells([q EXCEPT ![l] = v], D) = Cells(q, D)
    BY <1>1, <1>3, ExchangedApart
<1>5. Cells([q EXCEPT ![l] = v], D) \subseteq Cells(q, D) \cup {1} /\ 1 > 0
    BY <1>4
<1>6. Positive([q EXCEPT ![l] = v], D)
    BY <1>1, <1>3, <1>5, PositiveKept, Zenon
<1>7. QED
    BY <1>2, <1>6 DEF Sound

\* So does one that goes before the part ahead of it.
LEMMA BackSound ==
    ASSUME NEW D, NEW q, NEW s, Sound(s, q, D), NEW l \in D, NEW v, NEW a, NEW b, NEW c,
           Cuts(Len(q[l]), a, b, c), Exchanged(q[l], v, a, b, c)
    PROVE  Sound(List!Transfer(s, NodeOf(q[l], l, c + 1), NodeOf(q[l], l, a + 1), NodeOf(q[l], l, b + 1)),
                  [q EXCEPT ![l] = v], D)
<1>1. a \in Nat /\ b \in Nat /\ c \in Nat /\ a < b /\ b < c /\ c =< Len(q[l]) /\ Ringed(s, q, D) /\ Positive(q, D)
    BY DEF Cuts, Sound
<1>2. Ringed(List!Transfer(s, NodeOf(q[l], l, c + 1), NodeOf(q[l], l, a + 1), NodeOf(q[l], l, b + 1)),
                  [q EXCEPT ![l] = v], D)
    BY <1>1, TransferBack
<1>3. Apart(q, D) /\ Apart([q EXCEPT ![l] = v], D)
    BY <1>1, <1>2 DEF Ringed
<1>4. Cells([q EXCEPT ![l] = v], D) = Cells(q, D)
    BY <1>1, <1>3, ExchangedApart
<1>5. Cells([q EXCEPT ![l] = v], D) \subseteq Cells(q, D) \cup {1} /\ 1 > 0
    BY <1>4
<1>6. Positive([q EXCEPT ![l] = v], D)
    BY <1>1, <1>3, <1>5, PositiveKept, Zenon
<1>7. QED
    BY <1>2, <1>6 DEF Sound

\* So does one that goes to another ring.
LEMMA AcrossSound ==
    ASSUME NEW D, NEW q, NEW s, Sound(s, q, D), NEW l \in D, NEW k \in D, NEW v, NEW u, NEW a, NEW b, NEW c,
           Passes(q, l, k, v, u, a, b, c)
    PROVE  Sound(List!Transfer(s, NodeOf(q[k], k, c + 1), NodeOf(q[l], l, a + 1), NodeOf(q[l], l, b + 1)),
                  [[q EXCEPT ![l] = v] EXCEPT ![k] = u], D)
<1> DEFINE r == [[q EXCEPT ![l] = v] EXCEPT ![k] = u]
<1>1. Ringed(s, q, D) /\ Positive(q, D) /\ Apart(q, D)
    BY DEF Sound, Ringed
<1>2. Ringed(List!Transfer(s, NodeOf(q[k], k, c + 1), NodeOf(q[l], l, a + 1), NodeOf(q[l], l, b + 1)), r, D)
    BY <1>1, TransferAcross
<1>3. Apart(r, D) /\ Cells(r, D) = Cells(q, D)
    BY <1>1, AcrossApart
<1> HIDE DEF r
<1>4. Cells(r, D) \subseteq Cells(q, D) \cup {1} /\ 1 > 0
    BY <1>3
<1>5. Positive(r, D)
    BY <1>1, <1>3, <1>4, PositiveKept, Zenon
<1>6. QED
    BY <1>2, <1>5 DEF Sound, r

LEMMA EraseSound ==
    ASSUME NEW D, NEW q, NEW s, Sound(s, q, D), NEW l \in D, NEW a, NEW v, Loses(q[l], v, a)
    PROVE  Sound(List!Erase(s, q[l][a + 1]), [q EXCEPT ![l] = v], D)
<1> DEFINE r == [q EXCEPT ![l] = v]
<1>1. Ringed(s, q, D) /\ Positive(q, D) /\ Apart(q, D)
    BY DEF Sound, Ringed
<1>2. Ringed(List!Erase(s, q[l][a + 1]), r, D) /\ Cells(r, D) = Cells(q, D) \ {q[l][a + 1]}
    <2>1. Ringed(s, q, D) /\ Loses(q[l], v, a)
        BY <1>1
    <2>2. Ringed(List!Erase(s, q[l][a + 1]), [q EXCEPT ![l] = v], D)
        BY <2>1, EraseRing
    <2>3. Cells([q EXCEPT ![l] = v], D) = Cells(q, D) \ {q[l][a + 1]}
        BY <2>1, EraseRing
    <2>4. QED
        BY <2>2, <2>3
<1> HIDE DEF r
<1>3. Apart(r, D)
    BY <1>2 DEF Ringed
<1>4. Cells(r, D) \subseteq Cells(q, D) \cup {1} /\ 1 > 0
    BY <1>2
<1>5. Positive(r, D)
    BY <1>1, <1>3, <1>4, PositiveKept, Zenon
<1>6. QED
    BY <1>2, <1>5 DEF Sound, r

LEMMA InsertSound ==
    ASSUME NEW D, NEW q, NEW s, Sound(s, q, D), NEW k \in D, NEW c,
           NEW x \in Int, x > 0, x \notin Cells(q, D), NEW u, Adds(q[k], u, c, x)
    PROVE  Sound(List!Insert(s, NodeOf(q[k], k, c + 1), x), [q EXCEPT ![k] = u], D)
<1> DEFINE r == [q EXCEPT ![k] = u]
<1>1. Ringed(s, q, D) /\ Positive(q, D) /\ Apart(q, D)
    BY DEF Sound, Ringed
<1>2. Ringed(List!Insert(s, NodeOf(q[k], k, c + 1), x), r, D) /\ \A y \in Cells(r, D) : y = x \/ y \in Cells(q, D)
    <2>1. Ringed(s, q, D) /\ Adds(q[k], u, c, x)
        BY <1>1
    <2>2. Ringed(List!Insert(s, NodeOf(q[k], k, c + 1), x), [q EXCEPT ![k] = u], D)
        BY <2>1, InsertRing
    <2>3. \A y \in Cells([q EXCEPT ![k] = u], D) : y = x \/ y \in Cells(q, D)
        BY <2>1, InsertRing
    <2>4. QED
        BY <2>2, <2>3
<1> HIDE DEF r
<1>3. Apart(r, D)
    BY <1>2 DEF Ringed
<1>4. Cells(r, D) \subseteq Cells(q, D) \cup {x}
    BY <1>2
<1>5. Positive(r, D)
    BY <1>1, <1>3, <1>4, PositiveKept, Zenon
<1>6. QED
    BY <1>2, <1>5 DEF Sound, r

\* What an iterator reads.
LEMMA Neighbours ==
    ASSUME NEW D, NEW q, NEW s, Sound(s, q, D), NEW l \in D
    PROVE  /\ q[l] \in Seq(Int) /\ Len(q[l]) \in Nat /\ l \in Int /\ q \in [D -> Seq(Int)]
           /\ \A i \in 0 .. Len(q[l]) :
                /\ List!At(s, NodeOf(q[l], l, i), "next") = NodeOf(q[l], l, i + 1)
                /\ List!At(s, NodeOf(q[l], l, i + 1), "prev") = NodeOf(q[l], l, i)
           /\ List!Begin(s, l) = NodeOf(q[l], l, 1)
           /\ \A i \in 0 .. Len(q[l]) + 1 : NodeOf(q[l], l, i) = l <=> i = 0 \/ i = Len(q[l]) + 1
<1> DEFINE n == Len(q[l])
           N(i) == NodeOf(q[l], l, i)
           C == Cells(q, D)
<1>1. Apart(q, D) /\ s \in Memory(C) /\ Linked(s, q[l], l)
    BY DEF Sound, Ringed
<1>2. q[l] \in Seq(Int) /\ n \in Nat /\ l \in Int /\ q \in [D -> Seq(Int)]
    BY <1>1 DEF Apart
<1>3. \A i \in 0 .. n + 1 : N(i) \in C
    BY <1>1, NodesAreCells
<1>4. N(0) = l /\ N(n + 1) = l
    BY <1>2, NodesAre
<1>5. \A i \in 0 .. n : s.m[N(i)].next = N(i + 1) /\ s.m[N(i + 1)].prev = N(i)
    BY <1>1 DEF Linked
<1>6. \A i, j \in 0 .. n : N(i) = N(j) => i = j
    BY <1>1, NodesDiffer
<1> HIDE DEF n, N, C
<1>7. ASSUME NEW i \in 0 .. n PROVE List!At(s, N(i), "next") = N(i + 1) /\ List!At(s, N(i + 1), "prev") = N(i)
    <2>1. i \in 0 .. n + 1 /\ i + 1 \in 0 .. n + 1
        BY <1>2
    <2>2. N(i) \in C /\ N(i + 1) \in C
        BY <1>3, <2>1
    <2>3. QED
        BY <1>1, <1>5, <2>2, AtIs
<1>8. List!Begin(s, l) = N(1)
    <2>1. 0 \in 0 .. n /\ 0 + 1 = 1
        BY <1>2
    <2>2. List!At(s, N(0), "next") = N(1)
        BY <1>7, <2>1
    <2>3. QED
        BY <1>4, <2>2 DEF List!Begin
<1>9. ASSUME NEW i \in 0 .. n + 1 PROVE N(i) = l <=> i = 0 \/ i = n + 1
    <2>1. i = n + 1 \/ i \in 0 .. n
        BY <1>2
    <2>2. 0 \in 0 .. n
        BY <1>2
    <2>3. QED
        BY <1>2, <1>4, <1>6, <2>1, <2>2
<1>10. QED
    BY <1>2, <1>7, <1>8, <1>9 DEF n, N

-----------------------------------------------------------------------------
(* Splice. *)

Spliced(q, l, i, j, p) == [q EXCEPT ![l] = Shifted(q[l], i, j, p)]
Given2(q, l, k, i, j, p) ==
    [[q EXCEPT ![l] = List!Without(q[l], i, j)]
       EXCEPT ![k] = List!PutBefore(q[k], p, SubSeq(q[l], i, j - 1))]

LEMMA RangeWithin ==
    ASSUME NEW D, NEW q, NEW s, Sound(s, q, D), NEW l \in D,
           NEW i \in 1 .. Len(q[l]) + 1, NEW j \in 1 .. Len(q[l]) + 1, i < j,
           NEW p \in 1 .. Len(q[l]) + 1, p < i \/ p >= j
    PROVE  Sound(List!Transfer(s, NodeOf(q[l], l, p), NodeOf(q[l], l, i), NodeOf(q[l], l, j)),
                  Spliced(q, l, i, j, p), D)
<1> DEFINE n == Len(q[l])
           v == Shifted(q[l], i, j, p)
<1>1. q[l] \in Seq(Int) /\ q \in [D -> Seq(Int)]
    BY Neighbours
<1>2. n \in Nat /\ i \in Nat /\ 1 =< i /\ j \in Nat /\ j =< n + 1 /\ p \in Nat /\ 1 =< p /\ p =< n + 1 /\ i < j
    BY <1>1
<1>3. /\ p < i => Exchanged(q[l], v, p - 1, i - 1, j - 1)
      /\ p > j => Exchanged(q[l], v, i - 1, j - 1, p - 1)
      /\ p = j => v = q[l]
    BY <1>1, MovedWithin
<1> HIDE DEF v
<1>4. /\ i - 1 \in Nat /\ j - 1 \in Nat /\ p - 1 \in Nat
      /\ (i - 1) + 1 = i /\ (j - 1) + 1 = j /\ (p - 1) + 1 = p
      /\ p < i => p - 1 < i - 1 /\ i - 1 < j - 1
      /\ p > j => i - 1 < j - 1 /\ j - 1 < p - 1
      /\ j - 1 =< Len(q[l]) /\ p - 1 =< Len(q[l])
    <2>1. n = Len(q[l])
        OBVIOUS
    <2> HIDE DEF n
    <2>2. /\ i - 1 \in Nat /\ j - 1 \in Nat /\ p - 1 \in Nat
          /\ (i - 1) + 1 = i /\ (j - 1) + 1 = j /\ (p - 1) + 1 = p
          /\ p < i => p - 1 < i - 1 /\ i - 1 < j - 1
          /\ p > j => i - 1 < j - 1 /\ j - 1 < p - 1
          /\ j - 1 =< n /\ p - 1 =< n
        BY <1>2
    <2>3. QED
        BY <2>1, <2>2
<1>5. CASE p < i
    <2> DEFINE a == p - 1
               b == i - 1
               c == j - 1
    <2>1. Cuts(Len(q[l]), a, b, c) /\ Exchanged(q[l], v, a, b, c)
        BY <1>1, <1>3, <1>4, <1>5 DEF Cuts
    <2>2. a + 1 = p /\ b + 1 = i /\ c + 1 = j
        BY <1>4
    <2> HIDE DEF a, b, c
    <2>3. Sound(List!Transfer(s, NodeOf(q[l], l, a + 1), NodeOf(q[l], l, b + 1), NodeOf(q[l], l, c + 1)),
                  [q EXCEPT ![l] = v], D)
        BY <2>1, ForthSound
    <2>4. QED
        BY <2>2, <2>3 DEF Spliced, v
<1>6. CASE p > j
    <2> DEFINE a == i - 1
               b == j - 1
               c == p - 1
    <2>1. Cuts(Len(q[l]), a, b, c) /\ Exchanged(q[l], v, a, b, c)
        BY <1>1, <1>3, <1>4, <1>6 DEF Cuts
    <2>2. a + 1 = i /\ b + 1 = j /\ c + 1 = p
        BY <1>4
    <2> HIDE DEF a, b, c
    <2>3. Sound(List!Transfer(s, NodeOf(q[l], l, c + 1), NodeOf(q[l], l, a + 1), NodeOf(q[l], l, b + 1)),
                  [q EXCEPT ![l] = v], D)
        BY <2>1, BackSound
    <2>4. QED
        BY <2>2, <2>3 DEF Spliced, v
<1>7. CASE p = j
    <2>1. List!Transfer(s, NodeOf(q[l], l, p), NodeOf(q[l], l, i), NodeOf(q[l], l, j)) = s
        BY <1>7 DEF List!Transfer
    <2>2. [q EXCEPT ![l] = v] = q
        BY <1>1, <1>3, <1>7
    <2>3. QED
        BY <2>1, <2>2 DEF Spliced, v
<1>8. QED
    BY <1>2, <1>5, <1>6, <1>7

LEMMA RangeAcross ==
    ASSUME NEW D, NEW q, NEW s, Sound(s, q, D), NEW l \in D, NEW k \in D, k # l,
           NEW i \in 1 .. Len(q[l]) + 1, NEW j \in 1 .. Len(q[l]) + 1, i < j,
           NEW p \in 1 .. Len(q[k]) + 1
    PROVE  Sound(List!Transfer(s, NodeOf(q[k], k, p), NodeOf(q[l], l, i), NodeOf(q[l], l, j)),
                  Given2(q, l, k, i, j, p), D)
<1> DEFINE v == List!Without(q[l], i, j)
           u == List!PutBefore(q[k], p, SubSeq(q[l], i, j - 1))
           a == i - 1
           b == j - 1
           c == p - 1
<1>1. q[l] \in Seq(Int) /\ q[k] \in Seq(Int)
    BY Neighbours
<1>2. Reduced(q[l], v, a, b) /\ Part(Len(q[l]), a, b)
    BY <1>1, WithoutIs
<1>3. Given(q[k], u, c, q[l], a, b)
    BY <1>1, MovedAcross
<1>4. c \in 0 .. Len(q[k]) /\ c + 1 = p
    <2>1. Len(q[k]) \in Nat
        BY <1>1
    <2>2. QED
        BY <2>1
<1>5. a + 1 = i /\ b + 1 = j
    <2>1. Len(q[l]) \in Nat
        BY <1>1
    <2>2. QED
        BY <2>1
<1> HIDE DEF v, u, a, b, c
<1>6. Passes(q, l, k, v, u, a, b, c)
    BY <1>2, <1>3, <1>4 DEF Passes
<1>7. Sound(List!Transfer(s, NodeOf(q[k], k, c + 1), NodeOf(q[l], l, a + 1), NodeOf(q[l], l, b + 1)),
                  [[q EXCEPT ![l] = v] EXCEPT ![k] = u], D)
    BY <1>6, AcrossSound
<1>8. QED
    BY <1>4, <1>5, <1>7 DEF Given2, v, u

\* Nothing taken, nothing put.
LEMMA NoRun ==
    ASSUME NEW w \in Seq(Int), NEW i \in 1 .. Len(w) + 1, NEW y \in Seq(Int), NEW p \in 1 .. Len(y) + 1
    PROVE  List!Without(w, i, i) = w /\ List!PutBefore(y, p, SubSeq(w, i, i - 1)) = y
<1> DEFINE n == Len(w)
           m == Len(y)
           run == SubSeq(w, i, i - 1)
           u == List!PutBefore(y, p, run)
           a == SubSeq(w, 1, i - 1)
           b == SubSeq(w, i, n)
           v == a \o b
<1>1. n \in Nat /\ m \in Nat /\ i \in Nat /\ 1 =< i /\ i =< n + 1 /\ p \in Nat /\ 1 =< p /\ p =< m + 1
      /\ i - 1 \in 0 .. n /\ (i - 1) + 1 = i
    OBVIOUS
<1>2. run \in Seq(Int) /\ Len(run) = i - i
    BY RunIs
<1>3. PutIs(y, u, p, run)
    BY <1>2, PutBeforeIs
<1> HIDE DEF run, u
<1>4. u \in Seq(Int) /\ Len(u) = m /\ \A g \in 1 .. m : u[g] = y[g]
    <2>1. u \in Seq(Int) /\ Len(u) = m + Len(run)
          /\ \A g \in 1 .. Len(u) : u[g] = IF g < p THEN y[g] ELSE IF g < p + Len(run) THEN run[g - p + 1] ELSE y[g - Len(run)]
        BY <1>3 DEF PutIs
    <2> HIDE DEF m
    <2>2. Len(run) = 0 /\ Len(u) = m
        BY <1>1, <1>2, <2>1
    <2>3. ASSUME NEW g \in 1 .. m PROVE u[g] = y[g]
        <3>1. g - 0 = g /\ p + 0 = p /\ (g < p \/ ~ (g < p))
            BY <1>1
        <3>2. QED
            BY <2>1, <2>2, <3>1
    <2>4. QED
        BY <2>1, <2>2, <2>3
<1>5. u = y
    BY <1>4, SeqEqual DEF m
<1>6. a \in Seq(Int) /\ Len(a) = i - 1 /\ \A g \in 1 .. i - 1 : a[g] = w[g]
    BY <1>1, PrefixIs
<1>7. b \in Seq(Int) /\ Len(b) = n - (i - 1) /\ \A g \in 1 .. n - (i - 1) : b[g] = w[(i - 1) + g]
    BY <1>1, SuffixIs
<1> HIDE DEF a, b
<1>8. /\ v \in Seq(Int) /\ Len(v) = Len(a) + Len(b)
      /\ \A g \in 1 .. Len(a) + Len(b) : v[g] = IF g =< Len(a) THEN a[g] ELSE b[g - Len(a)]
    BY <1>6, <1>7, ConcatProperties
<1> HIDE DEF v
<1>9. List!Without(w, i, i) = v
    BY DEF List!Without, v, a, b, n
<1>10. v = w
    <2>1. Len(v) = n
        <3> HIDE DEF n
        <3>1. QED
            BY <1>1, <1>6, <1>7, <1>8
    <2>2. ASSUME NEW g \in 1 .. n PROVE v[g] = w[g]
        <3> HIDE DEF n
        <3>0. g \in 1 .. Len(a) + Len(b)
            BY <1>8, <2>1
        <3>1. CASE g =< i - 1
            <4>1. g =< Len(a) /\ g \in 1 .. i - 1
                BY <1>1, <1>6, <3>1
            <4>2. v[g] = a[g]
                BY <1>8, <3>0, <4>1
            <4>3. QED
                BY <1>6, <4>1, <4>2
        <3>2. CASE ~ (g =< i - 1)
            <4> DEFINE h == g - (i - 1)
            <4>1. h \in 1 .. n - (i - 1) /\ (i - 1) + h = g
                BY <1>1, <3>2
            <4>2. v[g] = b[h]
                BY <1>6, <1>8, <2>1, <3>2
            <4> HIDE DEF h
            <4>3. QED
                BY <1>7, <4>1, <4>2
        <3>3. QED
            BY <3>1, <3>2
    <2>3. Len(v) = Len(w) /\ \A g \in 1 .. Len(v) : v[g] = w[g]
        BY <2>1, <2>2 DEF n
    <2>4. QED
        BY <1>8, <2>3, SeqEqual
<1>11. QED
    BY <1>5, <1>9, <1>10 DEF u, run

\* A range, empty or not, goes before a place of its list or of another.
Move(q, l, i, j, k, p) == IF k = l THEN Spliced(q, l, i, j, p) ELSE Given2(q, l, k, i, j, p)

\* Transfer and SpliceRange of a range, to a place that is not inside it.
LEMMA RangeMoves ==
    ASSUME NEW D, NEW q, NEW s, Sound(s, q, D), NEW l \in D, NEW k \in D,
           NEW i \in 1 .. Len(q[l]) + 1, NEW j \in 1 .. Len(q[l]) + 1, i =< j,
           NEW p \in 1 .. Len(q[k]) + 1, k = l => p < i \/ p >= j
    PROVE  /\ i < j => Sound(List!Transfer(s, NodeOf(q[k], k, p), NodeOf(q[l], l, i), NodeOf(q[l], l, j)),
                             Move(q, l, i, j, k, p), D)
           /\ i = j => Sound(s, Move(q, l, i, j, k, p), D)
           /\ Sound(List!SpliceRange(s, NodeOf(q[k], k, p), NodeOf(q[l], l, i), NodeOf(q[l], l, j)),
                    Move(q, l, i, j, k, p), D)
<1> DEFINE t == List!Transfer(s, NodeOf(q[k], k, p), NodeOf(q[l], l, i), NodeOf(q[l], l, j))
           u == List!SpliceRange(s, NodeOf(q[k], k, p), NodeOf(q[l], l, i), NodeOf(q[l], l, j))
           r == Move(q, l, i, j, k, p)
<1>1. q[l] \in Seq(Int) /\ q[k] \in Seq(Int) /\ Len(q[l]) \in Nat /\ Len(q[k]) \in Nat /\ q \in [D -> Seq(Int)]
    BY Neighbours
<1>2. ASSUME i < j PROVE Sound(t, r, D)
    <2>1. CASE k = l
        BY <1>2, <2>1, RangeWithin DEF Move
    <2>2. CASE k # l
        BY <1>2, <2>2, RangeAcross DEF Move
    <2>3. QED
        BY <2>1, <2>2
<1>3. ASSUME i = j PROVE r = q
    <2>1. CASE k = l
        <3> DEFINE g == IF p >= j THEN p - (j - i) ELSE p
        <3>1. g = p
            BY <1>1, <1>3
        <3>2. Shifted(q[l], i, j, p) = List!PutBefore(List!Without(q[l], i, j), g, SubSeq(q[l], i, j - 1))
            BY DEF Shifted
        <3> HIDE DEF g
        <3>3. List!Without(q[l], i, i) = q[l] /\ List!PutBefore(q[l], p, SubSeq(q[l], i, i - 1)) = q[l]
            BY <1>1, <2>1, NoRun
        <3>4. Shifted(q[l], i, j, p) = q[l]
            BY <1>3, <3>1, <3>2, <3>3
        <3>5. QED
            BY <1>1, <2>1, <3>4 DEF Move, Spliced
    <2>2. CASE k # l
        <3>1. List!Without(q[l], i, i) = q[l] /\ List!PutBefore(q[k], p, SubSeq(q[l], i, i - 1)) = q[k]
            BY <1>1, NoRun
        <3>2. Given2(q, l, k, i, j, p) = [[q EXCEPT ![l] = q[l]] EXCEPT ![k] = q[k]]
            BY <1>3, <3>1 DEF Given2
        <3>3. QED
            BY <1>1, <2>2, <3>2 DEF Move
    <2>3. QED
        BY <2>1, <2>2
<1>4. (i = j => u = s) /\ (i < j => u = t \/ u = s)
    BY DEF List!SpliceRange
<1>5. i < j => u = t
    <2>1. i < j => NodeOf(q[l], l, i) # NodeOf(q[l], l, j)
        <3>1. Apart(q, D)
            BY DEF Sound, Ringed
        <3>2. QED
            BY <1>1, <3>1, NodesDiffer
    <2>2. QED
        BY <2>1 DEF List!SpliceRange
<1> HIDE DEF t, u, r
<1>6. i = j \/ i < j
    BY <1>1
<1>7. /\ i < j => Sound(t, r, D)
      /\ i = j => Sound(s, r, D)
      /\ Sound(u, r, D)
    BY <1>2, <1>3, <1>4, <1>5, <1>6
<1>8. QED
    BY <1>7 DEF t, u, r

-----------------------------------------------------------------------------
(* The loops that erase. *)

\* A loop that has ended stays as it is.
LEMMA Ended ==
    ASSUME NEW f, NEW m \in Nat, NEW loop, NEW c, Turning(f, m, loop, c), NEW n \in 0 .. m,
           \A i \in 1 .. m : Step(loop, i, f[n]) = f[n]
    PROVE  f[m] = f[n]
<1> DEFINE P == {i \in 0 .. m : i >= n => f[i] = f[n]}
<1>1. 0 \in P
    OBVIOUS
<1>2. ASSUME NEW i \in 0 .. m - 1, i \in P PROVE i + 1 \in P
    <2>1. f[i + 1] = Step(loop, i + 1, f[i]) /\ i + 1 \in 1 .. m
        BY DEF Turning
    <2>2. CASE i >= n
        <3>1. f[i] = f[n]
            BY <1>2, <2>2
        <3>2. f[i + 1] = f[n]
            BY <2>1, <3>1
        <3>3. QED
            BY <3>2
    <2>3. CASE i < n
        <3>1. i + 1 = n \/ ~ (i + 1 >= n)
            BY <2>3
        <3>2. QED
            BY <2>1, <3>1
    <2>4. QED
        BY <2>2, <2>3
<1>3. \A i \in 0 .. m : i \in P
    <2> HIDE DEF P
    <2>1. QED
        BY <1>1, <1>2, Induction
<1>4. QED
    BY <1>3

\* v is kept and, behind it, w from place k + 1 on.
Remains(v, kept, w, k) ==
    /\ v \in Seq(Int) /\ kept \in Seq(Int) /\ Len(v) = Len(kept) + (Len(w) - k)
    /\ \A p \in 1 .. Len(v) : v[p] = IF p =< Len(kept) THEN kept[p] ELSE w[p - Len(kept) + k]

LEMMA RemainingNodes ==
    ASSUME NEW w \in Seq(Int), NEW l \in Int, NEW v, NEW kept, NEW k \in 0 .. Len(w), Remains(v, kept, w, k)
    PROVE  \A p \in 1 .. Len(w) - k + 1 : NodeOf(v, l, p + Len(kept)) = NodeOf(w, l, p + k)
<1> DEFINE n == Len(w)
           e == Len(kept)
           m == Len(v)
<1>1. v \in Seq(Int) /\ n \in Nat /\ m \in Nat /\ e \in Nat /\ k \in Nat /\ k =< n
    BY DEF Remains
<1>2. m = e + (n - k) /\ \A p \in 1 .. m : v[p] = IF p =< e THEN kept[p] ELSE w[p - e + k]
    BY DEF Remains
<1>3. NodeOf(v, l, m + 1) = l /\ \A p \in 1 .. m : NodeOf(v, l, p) = v[p]
    BY <1>1, NodesAre
<1>4. NodeOf(w, l, n + 1) = l /\ \A p \in 1 .. n : NodeOf(w, l, p) = w[p]
    BY NodesAre
<1> HIDE DEF n, e, m
<1>5. ASSUME NEW p \in 1 .. n - k + 1 PROVE NodeOf(v, l, p + e) = NodeOf(w, l, p + k)
    <2>1. CASE p = n - k + 1
        <3>1. p + e = m + 1 /\ p + k = n + 1
            BY <1>1, <1>2, <2>1
        <3>2. QED
            BY <1>3, <1>4, <3>1
    <2>2. CASE p # n - k + 1
        <3> DEFINE g == p + e
                   h == p + k
        <3>1. g \in 1 .. m /\ ~ (g =< e) /\ g - e + k = h /\ h \in 1 .. n
            BY <1>1, <1>2, <2>2
        <3> HIDE DEF g, h
        <3>2. v[g] = w[h]
            BY <1>2, <3>1
        <3>3. NodeOf(v, l, g) = NodeOf(w, l, h)
            BY <1>3, <1>4, <3>1, <3>2
        <3>4. QED
            BY <3>3 DEF g, h
    <2>3. QED
        BY <2>1, <2>2
<1>6. QED
    BY <1>5 DEF n, e

LEMMA KeptIs ==
    ASSUME NEW w \in Seq(Int), NEW v, NEW kept, NEW k \in 0 .. Len(w) - 1, Remains(v, kept, w, k)
    PROVE  /\ Remains(v, Append(kept, w[k + 1]), w, k + 1)
           /\ v[Len(kept) + 1] = w[k + 1]
           /\ \E u : Loses(v, u, Len(kept)) /\ Remains(u, kept, w, k + 1)
<1> DEFINE n == Len(w)
           e == Len(kept)
           m == Len(v)
           x == w[k + 1]
           longer == Append(kept, x)
           u == [p \in 1 .. m - 1 |-> IF p =< e THEN v[p] ELSE v[p + 1]]
<1>1. v \in Seq(Int) /\ kept \in Seq(Int) /\ n \in Nat /\ m \in Nat /\ e \in Nat /\ k \in Nat /\ k < n /\ x \in Int
    BY DEF Remains
<1>2. m = e + (n - k) /\ \A p \in 1 .. m : v[p] = IF p =< e THEN kept[p] ELSE w[p - e + k]
    BY DEF Remains
<1>3. longer \in Seq(Int) /\ Len(longer) = e + 1 /\ longer[e + 1] = x /\ \A p \in 1 .. e : longer[p] = kept[p]
    BY <1>1
<1>4. DOMAIN v = 1 .. m
    BY <1>1
<1> HIDE DEF n, e, m, x, longer
<1>5. v[e + 1] = x
    <2> DEFINE g == e + 1
    <2>1. g \in 1 .. m /\ ~ (g =< e) /\ g - e + k = k + 1
        BY <1>1, <1>2
    <2> HIDE DEF g
    <2>2. v[g] = w[k + 1]
        BY <1>2, <2>1
    <2>3. QED
        BY <2>2 DEF g, x
<1>6. Remains(v, longer, w, k + 1)
    <2>1. m = (e + 1) + (n - (k + 1))
        BY <1>1, <1>2
    <2>2. ASSUME NEW p \in 1 .. m PROVE v[p] = IF p =< e + 1 THEN longer[p] ELSE w[p - (e + 1) + (k + 1)]
        <3>1. CASE p =< e
            <4>1. p \in 1 .. e /\ p =< e + 1
                BY <1>1, <3>1
            <4>2. QED
                BY <1>2, <1>3, <3>1, <4>1
        <3>2. CASE p = e + 1
            BY <1>1, <1>3, <1>5, <3>2
        <3>3. CASE p > e + 1
            <4>1. ~ (p =< e) /\ ~ (p =< e + 1) /\ p - (e + 1) + (k + 1) = p - e + k
                BY <1>1, <3>3
            <4>2. QED
                BY <1>2, <4>1
        <3>4. QED
            BY <1>1, <3>1, <3>2, <3>3
    <2>3. QED
        BY <1>1, <1>3, <2>1, <2>2 DEF Remains, m, n
<1>7. m - 1 \in Nat /\ m - 1 = m - ((e + 1) - e) /\ m - 1 = e + (n - (k + 1)) /\ e + 1 =< m
    BY <1>1, <1>2
<1>8. ASSUME NEW p \in 1 .. m - 1 PROVE (p =< e => v[p] \in Int) /\ (~ (p =< e) => v[p + 1] \in Int)
    <2>1. p \in 1 .. m /\ p + 1 \in 1 .. m
        BY <1>1
    <2>2. QED
        BY <1>1, <1>4, <2>1
<1>9. u \in Seq(Int) /\ Len(u) = m - 1
    BY <1>7, <1>8
<1>10. \A p \in 1 .. m - 1 : u[p] = IF p =< e THEN v[p] ELSE v[p + 1]
    OBVIOUS
<1> HIDE DEF u
<1>11. Reduced(v, u, e, e + 1)
    <2>1. \A p : p + ((e + 1) - e) = p + 1 \/ p \notin 1 .. m - 1
        BY <1>1
    <2>2. ASSUME NEW p \in 1 .. m - 1 PROVE u[p] = v[IF p =< e THEN p ELSE p + ((e + 1) - e)]
        <3>1. CASE p =< e
            BY <1>10, <3>1
        <3>2. CASE ~ (p =< e)
            BY <1>10, <2>1, <3>2
        <3>3. QED
            BY <3>1, <3>2
    <2>3. QED
        BY <1>7, <1>9, <2>2 DEF Reduced, m
<1>12. Part(m, e, e + 1)
    BY <1>1, <1>7 DEF Part
<1>13. Remains(u, kept, w, k + 1)
    <2>1. ASSUME NEW p \in 1 .. m - 1 PROVE u[p] = IF p =< e THEN kept[p] ELSE w[p - e + (k + 1)]
        <3>1. CASE p =< e
            <4>1. p \in 1 .. m
                BY <1>1
            <4>2. QED
                BY <1>2, <1>10, <3>1, <4>1
        <3>2. CASE ~ (p =< e)
            <4> DEFINE g == p + 1
            <4>1. g \in 1 .. m /\ ~ (g =< e) /\ g - e + k = p - e + (k + 1)
                BY <1>1, <3>2
            <4>2. u[p] = v[g]
                BY <1>10, <3>2
            <4> HIDE DEF g
            <4>3. QED
                BY <1>2, <3>2, <4>1, <4>2
        <3>3. QED
            BY <3>1, <3>2
    <2>2. QED
        BY <1>1, <1>7, <1>9, <2>1 DEF Remains, n, e
<1>14. QED
    BY <1>5, <1>6, <1>11, <1>12, <1>13 DEF Loses, e, m, x, longer

\* The iterator at place k + 1 of w moves on, and the node may go.
LEMMA KeptTurn ==
    ASSUME NEW D, NEW q, q \in [D -> Seq(Int)], NEW s, NEW l \in D, NEW w \in Seq(Int), NEW v, NEW kept, NEW k \in 0 .. Len(w) - 1,
           Sound(s, [q EXCEPT ![l] = v], D), Remains(v, kept, w, k)
    PROVE  /\ w[k + 1] # l
           /\ List!At(s, w[k + 1], "next") = NodeOf(w, l, k + 2)
           /\ Remains(v, Append(kept, w[k + 1]), w, k + 1)
           /\ \E u : Remains(u, kept, w, k + 1) /\ Sound(List!Erase(s, w[k + 1]), [q EXCEPT ![l] = u], D)
<1> DEFINE r == [q EXCEPT ![l] = v]
           a == Len(kept)
<1>1. r[l] = v
    OBVIOUS
<1>2. v \in Seq(Int) /\ a \in Nat /\ Len(v) = a + (Len(w) - k) /\ Len(w) \in Nat /\ Len(v) \in Nat
    BY DEF Remains
<1>3. /\ Remains(v, Append(kept, w[k + 1]), w, k + 1)
      /\ v[a + 1] = w[k + 1]
    BY KeptIs
<1>4. PICK u : Loses(v, u, a) /\ Remains(u, kept, w, k + 1)
    BY KeptIs
<1> HIDE DEF r
<1>5. Sound(s, r, D)
    BY DEF r
<1>6. Sound(List!Erase(s, r[l][a + 1]), [r EXCEPT ![l] = u], D)
    <2>1. Loses(r[l], u, a)
        BY <1>1, <1>4
    <2>2. QED
        BY <1>5, <2>1, EraseSound
<1>7. [r EXCEPT ![l] = u] = [q EXCEPT ![l] = u]
    BY DEF r
<1>8. l \in Int /\ a + 1 \in 0 .. Len(v) /\ a + 1 \in 0 .. Len(v) + 1 /\ a + 1 \in 1 .. Len(v) /\ a + 1 # 0 /\ a + 1 # Len(v) + 1
    <2>1. l \in Int
        BY <1>5, Neighbours
    <2>2. QED
        BY <1>2, <2>1
<1>9. NodeOf(v, l, a + 1) = w[k + 1]
    BY <1>2, <1>3, <1>8, NodesAre
<1>10. List!At(s, NodeOf(v, l, a + 1), "next") = NodeOf(v, l, (a + 1) + 1)
    BY <1>1, <1>5, <1>8, Neighbours
<1>11. NodeOf(v, l, 2 + a) = NodeOf(w, l, 2 + k)
    <2>1. 2 \in 1 .. Len(w) - k + 1 /\ k \in 0 .. Len(w)
        BY <1>2
    <2>2. QED
        BY <1>8, <2>1, RemainingNodes
<1>12. (a + 1) + 1 = 2 + a /\ k + 2 = 2 + k
    BY <1>2
<1>13. w[k + 1] # l
    <2> DEFINE g == a + 1
    <2>1. g \in 0 .. Len(r[l]) + 1 /\ g # 0 /\ g # Len(r[l]) + 1
        BY <1>1, <1>8
    <2> HIDE DEF g
    <2>2. NodeOf(r[l], l, g) # l
        BY <1>5, <2>1, Neighbours
    <2>3. QED
        BY <1>1, <1>9, <2>2 DEF g
<1>14. QED
    BY <1>3, <1>4, <1>6, <1>7, <1>9, <1>10, <1>11, <1>12, <1>13, <1>1

LEMMA RemainsStarts ==
    ASSUME NEW w \in Seq(Int)
    PROVE  Remains(w, <<>>, w, 0)
<1> DEFINE none == <<>>
           n == Len(w)
<1>1. none \in Seq(Int) /\ Len(none) = 0 /\ n \in Nat
    OBVIOUS
<1> HIDE DEF none, n
<1>2. n = Len(none) + (n - 0)
    BY <1>1
<1>3. ASSUME NEW p \in 1 .. n PROVE w[p] = IF p =< Len(none) THEN none[p] ELSE w[p - Len(none) + 0]
    <2>1. ~ (p =< Len(none)) /\ p - Len(none) + 0 = p
        BY <1>1
    <2>2. QED
        BY <2>1
<1>4. Remains(w, none, w, 0)
    BY <1>1, <1>2, <1>3 DEF Remains, n
<1>5. QED
    BY <1>4 DEF none

LEMMA RemainsEnds ==
    ASSUME NEW w \in Seq(Int), NEW v, NEW kept, Remains(v, kept, w, Len(w))
    PROVE  v = kept
<1> DEFINE n == Len(w)
<1>1. /\ v \in Seq(Int) /\ kept \in Seq(Int) /\ Len(v) = Len(kept) + (n - n) /\ n \in Nat /\ Len(kept) \in Nat
      /\ \A p \in 1 .. Len(v) : v[p] = IF p =< Len(kept) THEN kept[p] ELSE w[p - Len(kept) + n]
    BY DEF Remains
<1> HIDE DEF n
<1>2. Len(v) = Len(kept) /\ \A p \in 1 .. Len(v) : v[p] = kept[p]
    <2>1. Len(v) = Len(kept)
        BY <1>1
    <2>2. ASSUME NEW p \in 1 .. Len(v) PROVE v[p] = kept[p]
        <3>1. p =< Len(kept)
            BY <2>1
        <3>2. QED
            BY <1>1, <3>1
    <2>3. QED
        BY <2>1, <2>2
<1>3. QED
    BY <1>1, <1>2, SeqEqual

\* After k turns the first k nodes have been looked at.
Removing(q, D, l, c, kept, k) ==
    /\ c.iter = NodeOf(q[l], l, k + 1)
    /\ \E v : Sound(c.s, [q EXCEPT ![l] = v], D) /\ Remains(v, kept, q[l], k)

\* remove and remove_if keep the elements of other values, in order.
LEMMA RemoveIfIs ==
    ASSUME NEW D, NEW q, NEW s, Sound(s, q, D), NEW l \in D, NEW unwanted, NEW gone,
           \A i \in 1 .. Len(q[l]) : q[l][i] \in gone <=> List!ValueOf(q[l][i]) \in unwanted
    PROVE  Sound(List!RemoveIf(s, l, unwanted), [q EXCEPT ![l] = List!Dropping(q[l], gone)], D)
<1> DEFINE w == q[l]
           n == Len(w)
           m == List!Turns(s)
           loop == [of |-> "remove", l |-> l, unwanted |-> unwanted]
           drop == [of |-> "drop", q |-> w, gone |-> gone]
<1>1. /\ w \in Seq(Int) /\ n \in Nat /\ l \in Int /\ q \in [D -> Seq(Int)]
      /\ List!Begin(s, l) = NodeOf(w, l, 1)
      /\ \A i \in 0 .. n + 1 : NodeOf(w, l, i) = l <=> i = 0 \/ i = n + 1
    BY Neighbours
<1>2. m \in Nat /\ n + 1 =< m
    BY TurnsAreEnough DEF Sound
<1>3. PICK f : /\ Turning(f, m, loop, [s |-> s, iter |-> List!Begin(s, l)])
               /\ List!RemoveIf(s, l, unwanted) = f[m].s
    BY <1>2, RemoveLoop
<1>4. PICK h : Turning(h, n, drop, <<>>) /\ List!Dropping(w, gone) = h[n]
    BY <1>1, DroppingLoop
<1>5. \A i, c : Step(loop, i, c) = List!RemoveTurn(c, l, unwanted)
    BY DEF Step
<1>6. \A i, c : Step(drop, i, c) = IF w[i] \in gone THEN c ELSE Append(c, w[i])
    BY DEF Step
<1>7. n \in 0 .. m /\ \A k \in 0 .. n - 1 : k \in 0 .. m - 1
    <2> HIDE DEF n, m
    <2>1. QED
        BY <1>1, <1>2
<1> HIDE DEF loop, drop, m
<1> DEFINE P == {k \in 0 .. n : Removing(q, D, l, f[k], h[k], k)}
<1>8. 0 \in P
    <2>1. f[0] = [s |-> s, iter |-> List!Begin(s, l)] /\ h[0] = <<>>
        BY <1>3, <1>4 DEF Turning
    <2>2. f[0].s = s /\ f[0].iter = NodeOf(w, l, 1)
        BY <1>1, <2>1
    <2>3. [q EXCEPT ![l] = w] = q
        BY <1>1
    <2>4. Remains(w, h[0], w, 0)
        BY <1>1, <2>1, RemainsStarts
    <2>5. Sound(f[0].s, [q EXCEPT ![l] = w], D)
        BY <2>2, <2>3
    <2> HIDE DEF w
    <2>6. Removing(q, D, l, f[0], h[0], 0)
        BY <2>2, <2>4, <2>5 DEF Removing, w
    <2>7. QED
        BY <1>1, <2>6
<1>9. ASSUME NEW k \in 0 .. n - 1, k \in P PROVE k + 1 \in P
    <2> DEFINE x == w[k + 1]
               c == f[k]
    <2>1. Removing(q, D, l, c, h[k], k)
        BY <1>9
    <2>2. PICK v : Sound(c.s, [q EXCEPT ![l] = v], D) /\ Remains(v, h[k], w, k)
        BY <2>1 DEF Removing
    <2>3. k + 1 \in 1 .. n /\ (k + 1) + 1 = k + 2 /\ k + 1 \in 0 .. n
        BY <1>1
    <2>4. c.iter = x
        BY <1>1, <2>1, <2>3, NodesAre DEF Removing
    <2>5. f[k + 1] = List!RemoveTurn(c, l, unwanted)
        <3>1. f[k + 1] = Step(loop, k + 1, c)
            BY <1>3, <1>7 DEF Turning
        <3>2. QED
            BY <1>5, <3>1
    <2>6. h[k + 1] = IF x \in gone THEN h[k] ELSE Append(h[k], x)
        <3>1. h[k + 1] = Step(drop, k + 1, h[k])
            BY <1>4 DEF Turning
        <3>2. QED
            BY <1>6, <3>1
    <2>7. /\ x # l
          /\ List!At(c.s, x, "next") = NodeOf(w, l, k + 2)
          /\ Remains(v, Append(h[k], x), w, k + 1)
          /\ \E u : Remains(u, h[k], w, k + 1) /\ Sound(List!Erase(c.s, x), [q EXCEPT ![l] = u], D)
        BY <1>1, <2>2, KeptTurn
    <2>8. x \in gone <=> List!ValueOf(x) \in unwanted
        BY <2>3
    <2> HIDE DEF x, c
    <2>9. f[k + 1] = [s |-> IF List!ValueOf(x) \in unwanted THEN List!Erase(c.s, x) ELSE c.s,
                      iter |-> NodeOf(w, l, k + 2)]
        BY <2>4, <2>5, <2>7 DEF List!RemoveTurn
    <2>10. f[k + 1].iter = NodeOf(w, l, (k + 1) + 1)
        BY <2>3, <2>9
    <2>11. \E u : Sound(f[k + 1].s, [q EXCEPT ![l] = u], D) /\ Remains(u, h[k + 1], w, k + 1)
        <3>1. CASE x \in gone
            <4>1. f[k + 1].s = List!Erase(c.s, x) /\ h[k + 1] = h[k]
                BY <2>6, <2>8, <2>9, <3>1
            <4>2. QED
                BY <2>7, <4>1
        <3>2. CASE x \notin gone
            <4>1. f[k + 1].s = c.s /\ h[k + 1] = Append(h[k], x)
                BY <2>6, <2>8, <2>9, <3>2
            <4>2. QED
                BY <2>2, <2>7, <4>1
        <3>3. QED
            BY <3>1, <3>2
    <2>12. Removing(q, D, l, f[k + 1], h[k + 1], k + 1)
        BY <2>10, <2>11 DEF Removing
    <2>13. QED
        BY <2>3, <2>12
<1>10. Removing(q, D, l, f[n], h[n], n)
    <2> HIDE DEF P
    <2>1. \A k \in 0 .. n : k \in P
        BY <1>1, <1>8, <1>9, Induction
    <2>2. n \in P
        BY <1>1, <2>1
    <2>3. QED
        BY <2>2 DEF P
<1>11. PICK v : Sound(f[n].s, [q EXCEPT ![l] = v], D) /\ Remains(v, h[n], w, n)
    BY <1>10 DEF Removing
<1>12. v = h[n]
    BY <1>1, <1>11, RemainsEnds
<1>13. f[m] = f[n]
    <2>1. n + 1 \in 0 .. n + 1
        BY <1>1
    <2>2. f[n].iter = l
        BY <1>1, <1>10, <2>1 DEF Removing
    <2>3. \A i \in 1 .. m : Step(loop, i, f[n]) = f[n]
        BY <1>5, <2>2 DEF List!RemoveTurn
    <2>4. QED
        BY <1>2, <1>3, <1>7, <2>3, Ended
<1>14. QED
    BY <1>3, <1>4, <1>11, <1>12, <1>13

\* After k turns the first k + 1 nodes have been looked at.
Uniting(q, D, l, c, kept, k) ==
    /\ Removing(q, D, l, c, kept, k + 1)
    /\ c.value = List!ValueOf(q[l][k + 1])

\* unique drops what equals its neighbour, however long the run of equals.
LEMMA UniquedIs ==
    ASSUME NEW D, NEW q, NEW s, Sound(s, q, D), NEW l \in D, NEW gone,
           \A i \in 1 .. Len(q[l]) :
             q[l][i] \in gone <=> i # 1 /\ List!ValueOf(q[l][i]) = List!ValueOf(q[l][i - 1])
    PROVE  Sound(List!Unique(s, l), [q EXCEPT ![l] = List!Dropping(q[l], gone)], D)
<1> DEFINE w == q[l]
           n == Len(w)
           m == List!Turns(s)
           loop == [of |-> "unique", l |-> l]
           drop == [of |-> "drop", q |-> w, gone |-> gone]
           first == List!Begin(s, l)
           start == [s |-> s, iter |-> List!At(s, first, "next"), value |-> List!ValueOf(first)]
<1>1. /\ w \in Seq(Int) /\ n \in Nat /\ l \in Int /\ q \in [D -> Seq(Int)]
      /\ first = NodeOf(w, l, 1)
      /\ \A i \in 0 .. n + 1 : NodeOf(w, l, i) = l <=> i = 0 \/ i = n + 1
      /\ \A i \in 0 .. n : List!At(s, NodeOf(w, l, i), "next") = NodeOf(w, l, i + 1)
    BY Neighbours
<1>2. m \in Nat /\ n + 1 =< m
    BY TurnsAreEnough DEF Sound
<1>3. PICK f : Turning(f, m, loop, start) /\ List!Unique(s, l) = f[m].s
    BY <1>2, UniqueLoop
<1>4. PICK h : Turning(h, n, drop, <<>>) /\ List!Dropping(w, gone) = h[n]
    BY <1>1, DroppingLoop
<1>5. \A i, c : Step(loop, i, c) = List!UniqueTurn(c, l)
    BY DEF Step
<1>6. \A i, c : Step(drop, i, c) = IF w[i] \in gone THEN c ELSE Append(c, w[i])
    BY DEF Step
<1>7. 0 \in 0 .. m /\ n \in 0 .. m /\ (n > 0 => n - 1 \in 0 .. m /\ n - 1 \in Nat) /\ \A k \in 0 .. n - 1 : k \in 0 .. m - 1
    <2> HIDE DEF n, m
    <2>1. QED
        BY <1>1, <1>2
<1>8. f[0] = start /\ h[0] = <<>>
    BY <1>3, <1>4 DEF Turning
<1> HIDE DEF loop, drop, m, first
<1>9. [q EXCEPT ![l] = w] = q
    BY <1>1
<1>10. \A i, c : c.iter = l => Step(loop, i, c) = c
    BY <1>5 DEF List!UniqueTurn
<1>11. CASE n = 0
    <2>1. NodeOf(w, l, 0) = l /\ NodeOf(w, l, 1) = l
        BY <1>1, <1>11
    <2>2. f[0].iter = l
        BY <1>1, <1>8, <1>11, <2>1
    <2>3. f[m] = f[0]
        BY <1>2, <1>3, <1>7, <1>10, <2>2, Ended
    <2>4. f[0].s = s
        BY <1>8
    <2>5. Remains(w, h[n], w, n)
        BY <1>1, <1>8, <1>11, RemainsStarts
    <2>6. w = h[n]
        BY <1>1, <2>5, RemainsEnds
    <2>7. QED
        BY <1>3, <1>4, <1>9, <2>3, <2>4, <2>6
<1>12. CASE n > 0
    <2> DEFINE o == n - 1
               P == {k \in 0 .. o : Uniting(q, D, l, f[k], h[k + 1], k)}
    <2>1. o \in Nat /\ o + 1 = n /\ o \in 0 .. m /\ o \in 0 .. o /\ 0 \in 0 .. o
        BY <1>1, <1>7, <1>12
    <2>2. 0 \in P
        <3>1. f[0].s = s /\ f[0].iter = NodeOf(w, l, 2) /\ f[0].value = List!ValueOf(w[1])
            <4>1. NodeOf(w, l, 1) = w[1] /\ 1 \in 0 .. n /\ 1 + 1 = 2
                BY <1>1, <1>12, NodesAre
            <4>2. List!At(s, first, "next") = NodeOf(w, l, 2)
                BY <1>1, <4>1
            <4>3. QED
                BY <1>1, <1>8, <4>1, <4>2
        <3>2. Remains(w, <<>>, w, 0)
            BY <1>1, RemainsStarts
        <3> DEFINE none == <<>>
        <3>3. Remains(w, Append(none, w[0 + 1]), w, 0 + 1)
            <4>1. 0 \in 0 .. Len(w) - 1 /\ Remains(w, none, w, 0)
                BY <1>1, <1>12, <3>2
            <4> HIDE DEF none
            <4>2. QED
                BY <1>1, <4>1, KeptIs
        <3>4. h[0 + 1] = Append(none, w[0 + 1])
            <4>1. h[0 + 1] = Step(drop, 0 + 1, h[0])
                BY <1>4, <1>7, <2>1 DEF Turning
            <4>2. w[1] \notin gone
                BY <1>1, <1>12
            <4>3. h[0 + 1] = Append(h[0], w[0 + 1])
                BY <1>6, <4>1, <4>2
            <4>4. QED
                BY <1>8, <4>3
        <3>5. Remains(w, h[0 + 1], w, 0 + 1)
            <4> HIDE DEF none
            <4>1. QED
                BY <3>3, <3>4
        <3>6. Sound(f[0].s, [q EXCEPT ![l] = w], D)
            BY <1>9, <3>1
        <3>7. f[0].iter = NodeOf(w, l, (0 + 1) + 1) /\ f[0].value = List!ValueOf(w[0 + 1])
            BY <3>1
        <3> HIDE DEF w
        <3>8. Uniting(q, D, l, f[0], h[0 + 1], 0)
            BY <3>5, <3>6, <3>7 DEF Uniting, Removing, w
        <3>9. QED
            BY <2>1, <3>8
    <2>3. ASSUME NEW k \in 0 .. o - 1, k \in P PROVE k + 1 \in P
        <3> DEFINE e == k + 1
                   x == w[e + 1]
                   c == f[k]
        <3>1. Uniting(q, D, l, c, h[e], k)
            BY <2>3
        <3>2. PICK v : Sound(c.s, [q EXCEPT ![l] = v], D) /\ Remains(v, h[e], w, e)
            BY <3>1 DEF Uniting, Removing
        <3>3. /\ e + 1 \in 1 .. n /\ e + 1 # 1 /\ (e + 1) - 1 = e /\ (e + 1) + 1 = e + 2 /\ e \in 0 .. o /\ e \in 0 .. n - 1
              /\ k \in 0 .. m - 1
            <4> HIDE DEF n
            <4>1. QED
                BY <1>1, <1>7, <2>1
        <3>4. c.iter = x /\ c.value = List!ValueOf(w[e])
            BY <1>1, <3>1, <3>3, NodesAre DEF Uniting, Removing
        <3>5. f[k + 1] = List!UniqueTurn(c, l)
            <4>1. f[k + 1] = Step(loop, k + 1, c)
                BY <1>3, <3>3 DEF Turning
            <4>2. QED
                BY <1>5, <4>1
        <3> HIDE DEF e
        <3>6. h[e + 1] = IF x \in gone THEN h[e] ELSE Append(h[e], x)
            <4>1. h[e + 1] = Step(drop, e + 1, h[e])
                BY <1>4, <3>3 DEF Turning
            <4>2. QED
                BY <1>6, <4>1
        <3>7. /\ x # l
              /\ List!At(c.s, x, "next") = NodeOf(w, l, e + 2)
              /\ Remains(v, Append(h[e], x), w, e + 1)
              /\ \E u : Remains(u, h[e], w, e + 1) /\ Sound(List!Erase(c.s, x), [q EXCEPT ![l] = u], D)
            BY <1>1, <3>2, <3>3, KeptTurn
        <3>8. x \in gone <=> List!ValueOf(x) = List!ValueOf(w[e])
            BY <3>3
        <3> HIDE DEF x, c
        <3>9. f[k + 1] = [s |-> IF List!ValueOf(x) = List!ValueOf(w[e]) THEN List!Erase(c.s, x) ELSE c.s,
                          iter |-> NodeOf(w, l, e + 2), value |-> List!ValueOf(x)]
            BY <3>4, <3>5, <3>7 DEF List!UniqueTurn
        <3>10. f[k + 1].iter = NodeOf(w, l, (e + 1) + 1) /\ f[k + 1].value = List!ValueOf(x)
            BY <3>3, <3>9
        <3>11. \E u : Sound(f[k + 1].s, [q EXCEPT ![l] = u], D) /\ Remains(u, h[e + 1], w, e + 1)
            <4>1. CASE x \in gone
                <5>1. f[k + 1].s = List!Erase(c.s, x) /\ h[e + 1] = h[e]
                    BY <3>6, <3>8, <3>9, <4>1
                <5>2. QED
                    BY <3>7, <5>1
            <4>2. CASE x \notin gone
                <5>1. f[k + 1].s = c.s /\ h[e + 1] = Append(h[e], x)
                    BY <3>6, <3>8, <3>9, <4>2
                <5>2. QED
                    BY <3>2, <3>7, <5>1
            <4>3. QED
                BY <4>1, <4>2
        <3>12. Uniting(q, D, l, f[k + 1], h[(k + 1) + 1], k + 1)
            BY <3>10, <3>11 DEF Uniting, Removing, x, e
        <3>13. k + 1 \in 0 .. o
            BY <2>1
        <3>14. QED
            BY <3>12, <3>13
    <2>4. Uniting(q, D, l, f[o], h[n], o)
        <3>1. \A k \in 0 .. o : k \in P
            <4> HIDE DEF P, o
            <4>1. QED
                BY <2>1, <2>2, <2>3, Induction
        <3>2. o \in P
            BY <2>1, <3>1
        <3>3. Uniting(q, D, l, f[o], h[o + 1], o)
            <4> HIDE DEF o
            <4>1. QED
                BY <3>2
        <3>4. QED
            BY <2>1, <3>3
    <2> HIDE DEF P, o
    <2>5. PICK v : Sound(f[o].s, [q EXCEPT ![l] = v], D) /\ Remains(v, h[n], w, n)
        BY <2>1, <2>4 DEF Uniting, Removing
    <2>6. v = h[n]
        BY <1>1, <2>5, RemainsEnds
    <2>7. f[m] = f[o]
        <3>1. n + 1 \in 0 .. n + 1
            BY <1>1
        <3>2. f[o].iter = l
            BY <1>1, <2>1, <2>4, <3>1 DEF Uniting, Removing
        <3>3. \A i \in 1 .. m : Step(loop, i, f[o]) = f[o]
            BY <1>10, <3>2
        <3>4. QED
            BY <1>2, <1>3, <2>1, <3>3, Ended
    <2>8. QED
        BY <1>3, <1>4, <2>5, <2>6, <2>7
<1>13. QED
    BY <1>1, <1>11, <1>12

-----------------------------------------------------------------------------
(* Reverse. *)

\* After k turns the last k places before j are turned to the front of the
\* range from i.
Back(i, j, k, p) == IF i =< p /\ p < i + k THEN j - 1 - (p - i) ELSE IF i + k =< p /\ p < j THEN p - k ELSE p
Backed(w, i, j, k) == [p \in 1 .. Len(w) |-> w[Back(i, j, k, p)]]
Stretch(w, i, j) == Len(w) \in Nat /\ i \in Nat /\ j \in Nat /\ 1 =< i /\ i < j /\ j =< Len(w) + 1

LEMMA BackedIs ==
    ASSUME NEW w \in Seq(Int), NEW i, NEW j, Stretch(w, i, j), NEW k \in 0 .. j - 1 - i
    PROVE  /\ Backed(w, i, j, k) \in Seq(Int) /\ Len(Backed(w, i, j, k)) = Len(w)
           /\ \A p \in 1 .. Len(w) : Backed(w, i, j, k)[p] = w[Back(i, j, k, p)]
           /\ \A p \in 1 .. Len(w) : Back(i, j, k, p) \in 1 .. Len(w)
<1> DEFINE n == Len(w)
<1>1. n \in Nat /\ i \in Nat /\ j \in Nat /\ 1 =< i /\ i < j /\ j =< n + 1 /\ \A p \in 1 .. n : w[p] \in Int
    BY DEF Stretch
<1>2. \A p \in 1 .. n : Back(i, j, k, p) \in 1 .. n
    <2> HIDE DEF n
    <2>1. QED
        BY <1>1 DEF Back
<1>3. \A p \in 1 .. n : w[Back(i, j, k, p)] \in Int
    BY <1>1, <1>2
<1>4. QED
    BY <1>1, <1>2, <1>3 DEF Backed

LEMMA BackedTurn ==
    ASSUME NEW w \in Seq(Int), NEW i, NEW j, Stretch(w, i, j), NEW k \in 0 .. j - 2 - i
    PROVE  /\ Cuts(Len(w), i + k - 1, j - 2, j - 1)
           /\ Exchanged(Backed(w, i, j, k), Backed(w, i, j, k + 1), i + k - 1, j - 2, j - 1)
<1> DEFINE n == Len(w)
           v == Backed(w, i, j, k)
           u == Backed(w, i, j, k + 1)
<1>1. n \in Nat /\ i \in Nat /\ j \in Nat /\ 1 =< i /\ i < j /\ j =< n + 1
    BY DEF Stretch
<1>2. k \in 0 .. j - 1 - i /\ k + 1 \in 0 .. j - 1 - i /\ k \in Nat /\ i + k + 1 < j
    BY <1>1
<1>3. /\ v \in Seq(Int) /\ Len(v) = n
      /\ \A p \in 1 .. n : v[p] = w[Back(i, j, k, p)]
    BY <1>2, BackedIs
<1>4. /\ u \in Seq(Int) /\ Len(u) = n
      /\ \A p \in 1 .. n : u[p] = w[Back(i, j, k + 1, p)]
    BY <1>2, BackedIs
<1> HIDE DEF n, u, v
<1>5. Cuts(n, i + k - 1, j - 2, j - 1)
    BY <1>1, <1>2 DEF Cuts
<1>6. ASSUME NEW p \in 1 .. n PROVE u[p] = v[Source(i + k - 1, j - 2, j - 1, p)]
    <2> DEFINE g == Source(i + k - 1, j - 2, j - 1, p)
    <2>1. g \in 1 .. n /\ Back(i, j, k, g) = Back(i, j, k + 1, p)
        <3>1. CASE p =< i + k - 1 \/ p > j - 1
            <4>1. g = p
                BY <1>1, <1>2, <3>1 DEF Source
            <4> HIDE DEF g
            <4>2. Back(i, j, k, p) = Back(i, j, k + 1, p)
                BY <1>1, <1>2, <3>1 DEF Back
            <4>3. QED
                BY <4>1, <4>2
        <3>2. CASE p = i + k
            <4>1. g = j - 1
                BY <1>1, <1>2, <3>2 DEF Source
            <4> HIDE DEF g
            <4>2. Back(i, j, k, j - 1) = Back(i, j, k + 1, p)
                BY <1>1, <1>2, <3>2 DEF Back
            <4>3. j - 1 \in 1 .. n
                BY <1>1
            <4>4. QED
                BY <4>1, <4>2, <4>3
        <3>3. CASE i + k < p /\ p =< j - 1
            <4>1. g = p - 1
                BY <1>1, <1>2, <3>3 DEF Source
            <4> HIDE DEF g
            <4>2. Back(i, j, k, p - 1) = Back(i, j, k + 1, p)
                BY <1>1, <1>2, <3>3 DEF Back
            <4>3. p - 1 \in 1 .. n
                BY <1>1, <1>2, <3>3
            <4>4. QED
                BY <4>1, <4>2, <4>3
        <3>4. QED
            BY <1>1, <1>2, <3>1, <3>2, <3>3
    <2> HIDE DEF g
    <2>2. u[p] = v[g]
        BY <1>3, <1>4, <2>1
    <2>3. QED
        BY <2>2 DEF g
<1>7. QED
    BY <1>3, <1>4, <1>5, <1>6 DEF Exchanged, n, u, v

LEMMA BackedNodes ==
    ASSUME NEW w \in Seq(Int), NEW l \in Int, NEW i, NEW j, Stretch(w, i, j), NEW k \in 0 .. j - 1 - i
    PROVE  /\ NodeOf(Backed(w, i, j, k), l, i + k) = NodeOf(w, l, i)
           /\ NodeOf(Backed(w, i, j, k), l, j) = NodeOf(w, l, j)
<1> DEFINE n == Len(w)
           v == Backed(w, i, j, k)
<1>1. n \in Nat /\ i \in Nat /\ j \in Nat /\ 1 =< i /\ i < j /\ j =< n + 1 /\ k \in Nat /\ i + k < j
    BY DEF Stretch
<1>2. /\ v \in Seq(Int) /\ Len(v) = n
      /\ \A p \in 1 .. n : v[p] = w[Back(i, j, k, p)]
    BY BackedIs
<1>3. NodeOf(w, l, n + 1) = l /\ \A p \in 1 .. n : NodeOf(w, l, p) = w[p]
    BY NodesAre
<1>4. NodeOf(v, l, n + 1) = l /\ \A p \in 1 .. n : NodeOf(v, l, p) = v[p]
    BY <1>2, NodesAre
<1> HIDE DEF n, v
<1>5. Back(i, j, k, i + k) = i /\ i + k \in 1 .. n /\ i \in 1 .. n
    BY <1>1 DEF Back
<1>6. Back(i, j, k, j) = j /\ (j = n + 1 \/ j \in 1 .. n)
    BY <1>1 DEF Back
<1>7. NodeOf(v, l, i + k) = NodeOf(w, l, i)
    BY <1>2, <1>3, <1>4, <1>5
<1>8. NodeOf(v, l, j) = NodeOf(w, l, j)
    BY <1>2, <1>3, <1>4, <1>6
<1>9. QED
    BY <1>7, <1>8 DEF v

\* reverse of a range from i up to j.
LEMMA ReverseRangeIs ==
    ASSUME NEW D, NEW q, NEW s, Sound(s, q, D), NEW l \in D, NEW i, NEW j, Stretch(q[l], i, j)
    PROVE  Sound(List!ReverseRange(s, NodeOf(q[l], l, i), NodeOf(q[l], l, j)),
                 [q EXCEPT ![l] = Backed(q[l], i, j, j - 1 - i)], D)
<1> DEFINE w == q[l]
           n == Len(w)
           m == List!Turns(s)
           first == NodeOf(w, l, i)
           last == NodeOf(w, l, j)
           loop == [of |-> "reverse", first |-> first, last |-> last]
           e == j - 1 - i
           v(k) == Backed(w, i, j, k)
           r(k) == [q EXCEPT ![l] = v(k)]
<1>1. /\ w \in Seq(Int) /\ n \in Nat /\ l \in Int /\ q \in [D -> Seq(Int)]
    BY Neighbours
<1>2. m \in Nat /\ n + 1 =< m
    BY TurnsAreEnough DEF Sound
<1>3. PICK f : Turning(f, m, loop, s) /\ List!ReverseRange(s, first, last) = f[m]
    BY <1>2, ReverseLoop
<1>4. \A p, c : Step(loop, p, c) = List!ReverseTurn(c, first, last)
    BY DEF Step
<1>5. /\ i \in Nat /\ j \in Nat /\ 1 =< i /\ i < j /\ j =< n + 1 /\ e \in Nat /\ e \in 0 .. m /\ 0 \in 0 .. e
      /\ e \in 0 .. e /\ \A k \in 0 .. e - 1 : k \in 0 .. j - 2 - i /\ k \in 0 .. e /\ k + 1 \in 0 .. e /\ k \in 0 .. m - 1
      /\ \A k \in 0 .. e : k \in 0 .. j - 1 - i
    <2>1. Stretch(w, i, j)
        OBVIOUS
    <2>2. i \in Nat /\ j \in Nat /\ 1 =< i /\ i < j /\ j =< n + 1
        BY <2>1 DEF Stretch
    <2> HIDE DEF n, m, w
    <2>3. QED
        BY <1>1, <1>2, <2>2
<1>7. \A k : r(k)[l] = v(k)
    BY <1>1
<1>8. ASSUME NEW k \in 0 .. e
      PROVE  Len(v(k)) = n /\ NodeOf(v(k), l, i + k) = first /\ NodeOf(v(k), l, j) = last
    <2>1. k \in 0 .. j - 1 - i
        OBVIOUS
    <2> HIDE DEF e
    <2>2. Len(v(k)) = n
        BY <1>1, <2>1, BackedIs
    <2>3. NodeOf(v(k), l, i + k) = first /\ NodeOf(v(k), l, j) = last
        BY <1>1, <2>1, BackedNodes
    <2>4. QED
        BY <2>2, <2>3
<1> DEFINE Q == {k \in 0 .. e : Sound(f[k], r(k), D)}
<1>9. 0 \in Q
    <2>1. v(0) = w
        <3>1. \A p \in 1 .. n : Back(i, j, 0, p) = p
            <4> HIDE DEF n
            <4>1. QED
                BY <1>5 DEF Back
        <3>2. 0 \in 0 .. j - 1 - i
            BY <1>5
        <3>3. v(0) \in Seq(Int) /\ Len(v(0)) = n /\ \A p \in 1 .. n : v(0)[p] = w[Back(i, j, 0, p)]
            BY <1>1, <3>2, BackedIs
        <3>4. Len(v(0)) = Len(w) /\ \A p \in 1 .. Len(v(0)) : v(0)[p] = w[p]
            BY <3>1, <3>3
        <3>5. QED
            BY <1>1, <3>3, <3>4, SeqEqual
    <2>2. r(0) = q
        BY <1>1, <2>1
    <2>3. f[0] = s
        BY <1>3 DEF Turning
    <2>4. Sound(f[0], r(0), D)
        BY <2>2, <2>3
    <2>5. QED
        BY <1>5, <2>4
<1>10. ASSUME NEW k \in 0 .. e - 1, k \in Q PROVE k + 1 \in Q
    <2> DEFINE c == f[k]
               x == i + k - 1
               y == j - 2
               z == j - 1
    <2>1. Sound(c, r(k), D) /\ r(k)[l] = v(k) /\ Len(v(k)) = n
        BY <1>5, <1>7, <1>8, <1>10
    <2>2. Cuts(n, x, y, z) /\ Exchanged(v(k), v(k + 1), x, y, z)
        BY <1>1, <1>5, BackedTurn
    <2>3. x + 1 = i + k /\ y + 1 = j - 1 /\ z + 1 = j
        BY <1>5
    <2>4. NodeOf(v(k), l, i + k) = first /\ NodeOf(v(k), l, j) = last
        BY <1>5, <1>8
    <2>5. /\ List!At(c, last, "prev") = NodeOf(v(k), l, j - 1)
          /\ List!At(c, first, "next") = NodeOf(v(k), l, i + k + 1)
          /\ NodeOf(v(k), l, i + k + 1) # NodeOf(v(k), l, j)
        <3> DEFINE a == i + k
                   b == j - 1
        <3>1. a \in 0 .. n /\ b \in 0 .. n /\ b + 1 = j /\ a + 1 \in 1 .. n + 1 /\ j \in 1 .. n + 1 /\ a + 1 # j
            <4> HIDE DEF n
            <4>1. QED
                BY <1>1, <1>5
        <3> HIDE DEF r, v, a, b, n, first, last, c
        <3>2. \A p \in 0 .. Len(r(k)[l]) :
                /\ List!At(c, NodeOf(r(k)[l], l, p), "next") = NodeOf(r(k)[l], l, p + 1)
                /\ List!At(c, NodeOf(r(k)[l], l, p + 1), "prev") = NodeOf(r(k)[l], l, p)
            BY <2>1, Neighbours
        <3>3. List!At(c, NodeOf(v(k), l, a), "next") = NodeOf(v(k), l, a + 1)
            BY <2>1, <3>1, <3>2
        <3>4. List!At(c, NodeOf(v(k), l, j), "prev") = NodeOf(v(k), l, b)
            BY <2>1, <3>1, <3>2
        <3>5. NodeOf(v(k), l, a + 1) # NodeOf(v(k), l, j)
            <4>1. Apart(r(k), D)
                BY <2>1 DEF Sound, Ringed
            <4>2. \A o \in 1 .. Len(r(k)[l]) + 1, p \in 1 .. Len(r(k)[l]) + 1 :
                    NodeOf(r(k)[l], l, o) = NodeOf(r(k)[l], l, p) => o = p
                BY <4>1, NodesDiffer
            <4>3. QED
                BY <2>1, <3>1, <4>2
        <3>6. QED
            BY <2>4, <3>3, <3>4, <3>5 DEF a, b
    <2>6. f[k + 1] = List!Transfer(c, first, NodeOf(v(k), l, j - 1), last)
        <3>1. f[k + 1] = Step(loop, k + 1, c)
            BY <1>3, <1>5 DEF Turning
        <3>2. f[k + 1] = List!ReverseTurn(c, first, last)
            BY <1>4, <3>1
        <3> HIDE DEF v, first, last, c
        <3>3. QED
            BY <2>4, <2>5, <3>2 DEF List!ReverseTurn
    <2> HIDE DEF r, v, first, last, c, x, y, z, n
    <2>7. Sound(List!Transfer(c, NodeOf(r(k)[l], l, x + 1), NodeOf(r(k)[l], l, y + 1), NodeOf(r(k)[l], l, z + 1)),
                [r(k) EXCEPT ![l] = v(k + 1)], D)
        <3> DEFINE old == r(k)
                   new == v(k + 1)
        <3>1. Sound(c, old, D) /\ Cuts(Len(old[l]), x, y, z) /\ Exchanged(old[l], new, x, y, z)
            BY <2>1, <2>2
        <3> HIDE DEF old, new
        <3>2. Sound(List!Transfer(c, NodeOf(old[l], l, x + 1), NodeOf(old[l], l, y + 1), NodeOf(old[l], l, z + 1)),
                [old EXCEPT ![l] = new], D)
            BY <3>1, ForthSound
        <3>3. QED
            BY <3>2 DEF old, new
    <2>8. [r(k) EXCEPT ![l] = v(k + 1)] = r(k + 1)
        BY DEF r
    <2>9. Sound(f[k + 1], r(k + 1), D)
        BY <2>1, <2>3, <2>4, <2>6, <2>7, <2>8
    <2>10. QED
        BY <1>5, <2>9
<1> HIDE DEF e
<1>11. Sound(f[e], r(e), D)
    <2> HIDE DEF Q
    <2>1. \A k \in 0 .. e : k \in Q
        BY <1>5, <1>9, <1>10, Induction
    <2>2. e \in Q
        BY <1>5, <2>1
    <2>3. QED
        BY <2>2 DEF Q
<1>12. f[m] = f[e]
    <2>1. List!At(f[e], first, "next") = last
        <3> DEFINE a == i + e
                   c == f[e]
        <3>1. a \in 0 .. n /\ a + 1 = j
            <4> HIDE DEF n
            <4>1. QED
                BY <1>1, <1>5 DEF e
        <3>2. r(e)[l] = v(e) /\ Len(v(e)) = n /\ NodeOf(v(e), l, a) = first /\ NodeOf(v(e), l, j) = last
            BY <1>5, <1>7, <1>8
        <3> HIDE DEF r, v, a, n, first, last, c
        <3>3. \A p \in 0 .. Len(r(e)[l]) : List!At(c, NodeOf(r(e)[l], l, p), "next") = NodeOf(r(e)[l], l, p + 1)
            BY <1>11, Neighbours DEF c
        <3>4. QED
            BY <3>1, <3>2, <3>3 DEF c
    <2> HIDE DEF first, last, m, loop
    <2>2. \A p \in 1 .. m : Step(loop, p, f[e]) = f[e]
        BY <1>4, <2>1 DEF List!ReverseTurn
    <2>3. QED
        BY <1>2, <1>3, <1>5, <2>2, Ended
<1>13. QED
    BY <1>3, <1>11, <1>12 DEF e

LEMMA ThreeParts ==
    ASSUME NEW a \in Seq(Int), NEW b \in Seq(Int), NEW c \in Seq(Int)
    PROVE  /\ a \o b \o c \in Seq(Int) /\ Len(a \o b \o c) = Len(a) + Len(b) + Len(c)
           /\ \A p \in 1 .. Len(a \o b \o c) :
                (a \o b \o c)[p] = IF p =< Len(a) THEN a[p] ELSE IF p =< Len(a) + Len(b) THEN b[p - Len(a)]
                                   ELSE c[p - (Len(a) + Len(b))]
<1> DEFINE ab == a \o b
           u == ab \o c
<1>1. /\ ab \in Seq(Int) /\ Len(ab) = Len(a) + Len(b)
      /\ \A p \in 1 .. Len(a) + Len(b) : ab[p] = IF p =< Len(a) THEN a[p] ELSE b[p - Len(a)]
    BY ConcatProperties
<1> HIDE DEF ab
<1>2. /\ u \in Seq(Int) /\ Len(u) = Len(ab) + Len(c)
      /\ \A p \in 1 .. Len(ab) + Len(c) : u[p] = IF p =< Len(ab) THEN ab[p] ELSE c[p - Len(ab)]
    <2>1. ab \in Seq(Int) /\ c \in Seq(Int)
        BY <1>1
    <2>2. QED
        BY <2>1, ConcatProperties
<1> HIDE DEF u
<1>3. Len(a) \in Nat /\ Len(b) \in Nat /\ Len(c) \in Nat
    OBVIOUS
<1>4. ASSUME NEW p \in 1 .. Len(u)
      PROVE  u[p] = IF p =< Len(a) THEN a[p] ELSE IF p =< Len(a) + Len(b) THEN b[p - Len(a)]
                    ELSE c[p - (Len(a) + Len(b))]
    <2>1. p \in 1 .. Len(ab) + Len(c)
        BY <1>2
    <2>2. CASE p =< Len(a)
        <3>1. p =< Len(ab) /\ p \in 1 .. Len(a) + Len(b)
            BY <1>1, <1>3, <2>1, <2>2
        <3>2. QED
            BY <1>1, <1>2, <2>1, <2>2, <3>1
    <2>3. CASE ~ (p =< Len(a)) /\ p =< Len(a) + Len(b)
        <3>1. p =< Len(ab) /\ p \in 1 .. Len(a) + Len(b)
            BY <1>1, <1>3, <2>1, <2>3
        <3>2. QED
            BY <1>1, <1>2, <2>1, <2>3, <3>1
    <2>4. CASE ~ (p =< Len(a)) /\ ~ (p =< Len(a) + Len(b))
        <3>1. ~ (p =< Len(ab))
            BY <1>1, <2>4
        <3>2. u[p] = c[p - Len(ab)]
            BY <1>2, <2>1, <3>1
        <3>3. QED
            BY <1>1, <2>4, <3>2
    <2>5. QED
        BY <2>2, <2>3, <2>4
<1>5. Len(u) = Len(a) + Len(b) + Len(c)
    BY <1>1, <1>2
<1>6. QED
    BY <1>2, <1>4, <1>5 DEF u, ab

\* What Reverse puts at place p.
LEMMA ReversedIs ==
    ASSUME NEW w \in Seq(Int)
    PROVE  /\ List!Reverse(w) \in Seq(Int) /\ Len(List!Reverse(w)) = Len(w)
           /\ \A p \in 1 .. Len(w) : List!Reverse(w)[p] = w[(Len(w) - p) + 1]
<1> DEFINE n == Len(w)
<1>1. n \in Nat /\ \A p \in 1 .. n : w[p] \in Int
    OBVIOUS
<1>2. \A p \in 1 .. n : (n - p) + 1 \in 1 .. n
    <2> HIDE DEF n
    <2>1. QED
        BY <1>1
<1>3. \A p \in 1 .. n : w[(n - p) + 1] \in Int
    BY <1>1, <1>2
<1>4. QED
    BY <1>1, <1>3 DEF List!Reverse

\* A range is reversed in the end, and so is a list.
LEMMA BackedRange ==
    ASSUME NEW w \in Seq(Int), NEW i, NEW j, Stretch(w, i, j)
    PROVE  Backed(w, i, j, j - 1 - i)
             = SubSeq(w, 1, i - 1) \o List!Reverse(SubSeq(w, i, j - 1)) \o SubSeq(w, j, Len(w))
<1> DEFINE n == Len(w)
           e == j - 1 - i
           v == Backed(w, i, j, e)
           a == SubSeq(w, 1, i - 1)
           mid == SubSeq(w, i, j - 1)
           b == List!Reverse(mid)
           c == SubSeq(w, j, n)
           u == a \o b \o c
<1>1. n \in Nat /\ i \in Nat /\ j \in Nat /\ 1 =< i /\ i < j /\ j =< n + 1
    BY DEF Stretch
<1>2. i - 1 \in 0 .. n /\ j - 1 \in 0 .. n /\ (j - 1) + 1 = j /\ i \in 1 .. n + 1 /\ j \in 1 .. n + 1 /\ i =< j /\ e \in 0 .. j - 1 - i
    <2> HIDE DEF n
    <2>1. QED
        BY <1>1
<1>3. /\ v \in Seq(Int) /\ Len(v) = n
      /\ \A p \in 1 .. n : v[p] = w[Back(i, j, e, p)]
    BY <1>2, BackedIs
<1>4. a \in Seq(Int) /\ Len(a) = i - 1 /\ \A p \in 1 .. i - 1 : a[p] = w[p]
    BY <1>2, PrefixIs
<1>5. mid \in Seq(Int) /\ Len(mid) = j - i /\ \A p \in 1 .. j - i : mid[p] = w[p + i - 1]
    BY <1>2, RunIs
<1>6. c \in Seq(Int) /\ Len(c) = n - (j - 1) /\ \A p \in 1 .. n - (j - 1) : c[p] = w[(j - 1) + p]
    BY <1>2, SuffixIs
<1> HIDE DEF v, a, mid, c
<1>7. b \in Seq(Int) /\ Len(b) = j - i /\ \A p \in 1 .. j - i : b[p] = mid[((j - i) - p) + 1]
    BY <1>5, ReversedIs
<1> HIDE DEF b
<1>8. /\ u \in Seq(Int) /\ Len(u) = Len(a) + Len(b) + Len(c)
      /\ \A p \in 1 .. Len(u) : u[p] = IF p =< Len(a) THEN a[p] ELSE IF p =< Len(a) + Len(b) THEN b[p - Len(a)]
                                       ELSE c[p - (Len(a) + Len(b))]
    BY <1>4, <1>6, <1>7, ThreeParts
<1> HIDE DEF u, n
<1>9. Len(u) = n
    BY <1>1, <1>4, <1>6, <1>7, <1>8
<1>10. ASSUME NEW p \in 1 .. n PROVE v[p] = u[p]
    <2>1. CASE p < i
        <3>1. Back(i, j, e, p) = p /\ p =< Len(a) /\ p \in 1 .. i - 1
            BY <1>1, <1>4, <2>1 DEF Back
        <3>2. QED
            BY <1>3, <1>4, <1>8, <1>9, <3>1
    <2>2. CASE i =< p /\ p < j
        <3> DEFINE g == p - Len(a)
                   h == ((j - i) - g) + 1
        <3>1. Back(i, j, e, p) = j - 1 - (p - i)
            <4>1. p < i + e \/ p = j - 1
                BY <1>1, <2>2
            <4>2. QED
                BY <1>1, <2>2, <4>1 DEF Back
        <3>2. ~ (p =< Len(a)) /\ p =< Len(a) + Len(b) /\ g \in 1 .. j - i /\ h \in 1 .. j - i /\ h + i - 1 = j - 1 - (p - i)
            BY <1>1, <1>4, <1>7, <2>2
        <3>3. u[p] = b[g]
            BY <1>8, <1>9, <3>2
        <3>4. b[g] = mid[h]
            BY <1>7, <3>2
        <3> HIDE DEF g, h
        <3>5. mid[h] = w[j - 1 - (p - i)]
            BY <1>5, <3>2
        <3>6. QED
            BY <1>3, <3>1, <3>3, <3>4, <3>5
    <2>3. CASE j =< p
        <3> DEFINE g == p - (Len(a) + Len(b))
        <3>1. Back(i, j, e, p) = p
            BY <1>1, <2>3 DEF Back
        <3>2. ~ (p =< Len(a)) /\ ~ (p =< Len(a) + Len(b)) /\ g \in 1 .. n - (j - 1) /\ (j - 1) + g = p
            BY <1>1, <1>4, <1>7, <2>3
        <3>3. u[p] = c[g]
            BY <1>8, <1>9, <3>2
        <3> HIDE DEF g
        <3>4. c[g] = w[p]
            BY <1>6, <3>2
        <3>5. QED
            BY <1>3, <3>1, <3>3, <3>4
    <2>4. QED
        BY <1>1, <2>1, <2>2, <2>3
<1>11. v = u
    BY <1>3, <1>8, <1>9, <1>10, SeqEqual
<1>12. QED
    BY <1>11 DEF v, u, a, b, mid, c, n

LEMMA BackedList ==
    ASSUME NEW w \in Seq(Int), Stretch(w, 1, Len(w) + 1)
    PROVE  Backed(w, 1, Len(w) + 1, (Len(w) + 1) - 1 - 1) = List!Reverse(w)
<1> DEFINE n == Len(w)
           i == 1
           j == n + 1
           e == j - 1 - i
           v == Backed(w, i, j, e)
           b == List!Reverse(w)
<1>1. n \in Nat /\ j \in Nat /\ i < j
    BY DEF Stretch
<1>2. e \in 0 .. j - 1 - i
    <2> HIDE DEF n
    <2>1. QED
        BY <1>1
<1> HIDE DEF i, j, e
<1>3. /\ v \in Seq(Int) /\ Len(v) = n
      /\ \A p \in 1 .. n : v[p] = w[Back(i, j, e, p)]
    <2>1. Stretch(w, i, j)
        BY DEF i, j
    <2>2. QED
        BY <1>2, <2>1, BackedIs
<1>4. b \in Seq(Int) /\ Len(b) = n /\ \A p \in 1 .. n : b[p] = w[(n - p) + 1]
    BY ReversedIs
<1> HIDE DEF v, b, n
<1>5. ASSUME NEW p \in 1 .. n PROVE v[p] = b[p]
    <2>1. Back(i, j, e, p) = (n - p) + 1
        BY <1>1 DEF Back, i, j, e
    <2>2. QED
        BY <1>3, <1>4, <2>1
<1>6. v = b
    BY <1>3, <1>4, <1>5, SeqEqual
<1>7. QED
    BY <1>6 DEF v, b, i, j, e, n

LEMMA ShortIs ==
    ASSUME NEW D, NEW q, NEW s, Sound(s, q, D), NEW l \in D
    PROVE  List!Short(s, l) <=> Len(q[l]) =< 1
<1> DEFINE n == Len(q[l])
           N(i) == NodeOf(q[l], l, i)
<1>1. /\ n \in Nat
      /\ List!Begin(s, l) = N(1)
      /\ \A i \in 0 .. n : List!At(s, N(i), "next") = N(i + 1)
      /\ \A i \in 0 .. n + 1 : N(i) = l <=> i = 0 \/ i = n + 1
    BY Neighbours
<1> HIDE DEF n, N
<1>2. CASE n = 0
    <2>1. N(1) = l
        BY <1>1, <1>2
    <2>2. QED
        BY <1>1, <1>2, <2>1 DEF List!Short, n
<1>3. CASE n >= 1
    <2>1. List!At(s, N(1), "next") = N(2)
        <3>1. 1 \in 0 .. n /\ 1 + 1 = 2
            BY <1>1, <1>3
        <3>2. QED
            BY <1>1, <3>1
    <2>2. 1 \in 0 .. n + 1 /\ 2 \in 0 .. n + 1
        BY <1>1, <1>3
    <2>3. N(1) # l /\ (N(2) = l <=> n = 1)
        BY <1>1, <1>3, <2>2
    <2>4. List!Short(s, l) <=> n = 1
        BY <1>1, <2>1, <2>3 DEF List!Short
    <2>5. n =< 1 <=> n = 1
        BY <1>1, <1>3
    <2>6. QED
        BY <2>4, <2>5 DEF n
<1>4. QED
    BY <1>1, <1>2, <1>3

\* reverse of a list.
LEMMA ReverseListIs ==
    ASSUME NEW D, NEW q, NEW s, Sound(s, q, D), NEW l \in D
    PROVE  Sound(List!ReverseList(s, l), [q EXCEPT ![l] = List!Reverse(q[l])], D)
<1> DEFINE w == q[l]
           n == Len(w)
<1>1. w \in Seq(Int) /\ n \in Nat /\ l \in Int /\ q \in [D -> Seq(Int)] /\ List!Begin(s, l) = NodeOf(w, l, 1)
    BY Neighbours
<1>2. CASE n =< 1
    <2>1. List!ReverseList(s, l) = s
        BY <1>2, ShortIs DEF List!ReverseList
    <2>2. List!Reverse(w) \in Seq(Int) /\ Len(List!Reverse(w)) = n /\ \A p \in 1 .. n : List!Reverse(w)[p] = w[(n - p) + 1]
        BY <1>1, ReversedIs
    <2>3. \A p \in 1 .. n : (n - p) + 1 = p
        <3> HIDE DEF n
        <3>1. QED
            BY <1>1, <1>2
    <2>4. Len(List!Reverse(w)) = Len(w) /\ \A p \in 1 .. Len(List!Reverse(w)) : List!Reverse(w)[p] = w[p]
        BY <2>2, <2>3
    <2>5. List!Reverse(w) = w
        BY <1>1, <2>2, <2>4, SeqEqual
    <2>6. QED
        BY <1>1, <2>1, <2>5
<1>3. CASE n > 1
    <2>1. List!ReverseList(s, l) = List!ReverseRange(s, NodeOf(w, l, 1), NodeOf(w, l, n + 1))
        <3>1. ~ List!Short(s, l)
            BY <1>1, <1>3, ShortIs
        <3>2. NodeOf(w, l, n + 1) = l
            BY <1>1, NodesAre
        <3>3. QED
            BY <1>1, <3>1, <3>2 DEF List!ReverseList
    <2>2. Stretch(w, 1, n + 1)
        BY <1>1, <1>3 DEF Stretch
    <2>3. Sound(List!ReverseRange(s, NodeOf(w, l, 1), NodeOf(w, l, n + 1)), [q EXCEPT ![l] = Backed(w, 1, n + 1, (n + 1) - 1 - 1)], D)
        <3> DEFINE i == 1
                   j == n + 1
        <3>1. Stretch(q[l], i, j)
            BY <2>2
        <3> HIDE DEF i, j
        <3>2. Sound(List!ReverseRange(s, NodeOf(w, l, i), NodeOf(w, l, j)), [q EXCEPT ![l] = Backed(w, i, j, j - 1 - i)], D)
            BY <3>1, ReverseRangeIs
        <3>3. QED
            BY <3>2 DEF i, j
    <2>4. Backed(w, 1, n + 1, (n + 1) - 1 - 1) = List!Reverse(w)
        BY <1>1, <2>2, BackedList
    <2>5. QED
        BY <2>1, <2>3, <2>4
<1>4. QED
    BY <1>1, <1>2, <1>3

-----------------------------------------------------------------------------
(* Rotate. *)

\* An iterator that is advanced n times is at place n + 1.
LEMMA AdvancedIs ==
    ASSUME NEW D, NEW q, NEW s, Sound(s, q, D), NEW l \in D
    PROVE  /\ \A k \in 0 .. Len(q[l]) : List!Advanced(s, l)[k] = NodeOf(q[l], l, k + 1)
           /\ List!Size(s, l) = Len(q[l])
<1> DEFINE n == Len(q[l])
           m == List!Turns(s)
           N(i) == NodeOf(q[l], l, i)
           f == List!Advanced(s, l)
           loop == [of |-> "advance", s |-> s]
<1>1. /\ n \in Nat
      /\ List!Begin(s, l) = N(1)
      /\ \A i \in 0 .. n : List!At(s, N(i), "next") = N(i + 1)
      /\ \A i \in 0 .. n + 1 : N(i) = l <=> i = 0 \/ i = n + 1
    BY Neighbours
<1>2. m \in Nat /\ n + 1 =< m
    BY TurnsAreEnough DEF Sound
<1>3. Turning(f, m, loop, N(1))
    <2>1. PICK g : Turning(g, m, loop, List!Begin(s, l)) /\ List!Advanced(s, l) = g
        BY <1>2, AdvanceLoop
    <2>2. QED
        BY <1>1, <2>1
<1>4. \A i, c : Step(loop, i, c) = List!At(s, c, "next")
    BY DEF Step
<1>5. List!Size(s, l) = CHOOSE k \in 0 .. m : f[k] = l /\ \A i \in 0 .. k - 1 : f[i] # l
    BY DEF List!Size
<1> HIDE DEF n, m, N, f, loop
<1> DEFINE P == {k \in 0 .. n : f[k] = N(k + 1)}
<1>6. 0 \in P
    <2>1. f[0] = N(0 + 1)
        BY <1>3 DEF Turning
    <2>2. QED
        BY <1>1, <2>1
<1>7. ASSUME NEW k \in 0 .. n - 1, k \in P PROVE k + 1 \in P
    <2>1. f[k] = N(k + 1)
        BY <1>7
    <2>2. k \in 0 .. m - 1 /\ k + 1 \in 0 .. n
        BY <1>1, <1>2
    <2>3. f[k + 1] = List!At(s, f[k], "next")
        BY <1>3, <1>4, <2>2 DEF Turning
    <2>4. f[k + 1] = N((k + 1) + 1)
        BY <1>1, <2>1, <2>2, <2>3
    <2>5. QED
        BY <2>2, <2>4
<1>8. \A k \in 0 .. n : f[k] = N(k + 1)
    <2> HIDE DEF P
    <2>1. \A k \in 0 .. n : k \in P
        BY <1>1, <1>6, <1>7, Induction
    <2>2. QED
        BY <2>1 DEF P
<1>9. n \in 0 .. m /\ f[n] = l /\ \A i \in 0 .. n - 1 : f[i] # l
    <2>1. n \in 0 .. m /\ n \in 0 .. n /\ n + 1 \in 0 .. n + 1
        BY <1>1, <1>2
    <2>2. f[n] = l
        BY <1>1, <1>8, <2>1
    <2>3. ASSUME NEW i \in 0 .. n - 1 PROVE f[i] # l
        <3>1. i \in 0 .. n /\ i + 1 \in 0 .. n + 1 /\ i + 1 # 0 /\ i + 1 # n + 1
            BY <1>1
        <3>2. QED
            BY <1>1, <1>8, <3>1
    <2>4. QED
        BY <2>1, <2>2, <2>3
<1>10. ASSUME NEW k \in 0 .. m, f[k] = l, \A i \in 0 .. k - 1 : f[i] # l PROVE k = n
    <2>1. ~ (k < n)
        <3>1. k < n => k \in 0 .. n - 1
            BY <1>1
        <3>2. QED
            BY <1>9, <1>10, <3>1
    <2>2. ~ (n < k)
        <3>1. n < k => n \in 0 .. k - 1
            BY <1>1
        <3>2. QED
            BY <1>9, <1>10, <3>1
    <2>3. QED
        BY <1>1, <2>1, <2>2
<1>11. (CHOOSE k \in 0 .. m : f[k] = l /\ \A i \in 0 .. k - 1 : f[i] # l) = n
    <2> DEFINE Arrives(k) == f[k] = l /\ \A i \in 0 .. k - 1 : f[i] # l
    <2>1. Arrives(n) /\ n \in 0 .. m /\ \A k \in 0 .. m : Arrives(k) => k = n
        BY <1>9, <1>10
    <2> HIDE DEF Arrives
    <2>2. (CHOOSE k \in 0 .. m : Arrives(k)) = n
        BY <2>1
    <2>3. QED
        BY <2>2 DEF Arrives
<1>12. QED
    BY <1>5, <1>8, <1>11 DEF f, N, n

LEMMA RemainderIs ==
    ASSUME NEW x \in Int, NEW n \in Nat, n > 0
    PROVE  (x % n) \in 0 .. n - 1 /\ (x \div n) \in Int /\ x = n * (x \div n) + (x % n)
OBVIOUS

LEMMA IsRemainder ==
    ASSUME NEW x \in Int, NEW n \in Nat, n > 0, NEW r \in 0 .. n - 1, NEW m \in Int, x = n * m + r
    PROVE  x % n = r
OBVIOUS

\* What rotate by k puts at place i comes from ...
LEMMA RotatedIs ==
    ASSUME NEW n \in Nat, n > 0, NEW k \in Nat, NEW i \in 1 .. n
    PROVE  /\ i =< k % n => ((i - 1 - k) % n) + 1 = i + (n - (k % n))
           /\ ~ (i =< k % n) => ((i - 1 - k) % n) + 1 = i - (k % n)
<1> DEFINE t == k % n
           d == k \div n
<1>1. t \in 0 .. n - 1 /\ d \in Int /\ k = n * d + t
    BY RemainderIs
<1> HIDE DEF t, d
<1>2. ASSUME i =< t PROVE (i - 1 - k) % n = i - 1 - t + n
    <2> DEFINE r == i - 1 - t + n
               m == 0 - d - 1
               x == i - 1 - k
    <2>1. n * m = 0 - n * d - n
        BY <1>1
    <2>2. r \in 0 .. n - 1 /\ m \in Int /\ x \in Int
        BY <1>1, <1>2
    <2>3. x = n * m + r
        <3> DEFINE nd == n * d
        <3>1. nd \in Int /\ k = nd + t /\ n * m = 0 - nd - n
            BY <1>1, <2>1
        <3> HIDE DEF nd, m
        <3>2. QED
            BY <1>1, <3>1
    <2> HIDE DEF r, m, x
    <2>4. x % n = r
        BY <2>2, <2>3, IsRemainder
    <2>5. QED
        BY <2>4 DEF x, r
<1>3. ASSUME ~ (i =< t) PROVE (i - 1 - k) % n = i - 1 - t
    <2> DEFINE r == i - 1 - t
               m == 0 - d
               x == i - 1 - k
    <2>1. n * m = 0 - n * d
        BY <1>1
    <2>2. r \in 0 .. n - 1 /\ m \in Int /\ x \in Int
        BY <1>1, <1>3
    <2>3. x = n * m + r
        <3> DEFINE nd == n * d
        <3>1. nd \in Int /\ k = nd + t /\ n * m = 0 - nd
            BY <1>1, <2>1
        <3> HIDE DEF nd, m
        <3>2. QED
            BY <1>1, <3>1
    <2> HIDE DEF r, m, x
    <2>4. x % n = r
        BY <2>2, <2>3, IsRemainder
    <2>5. QED
        BY <2>4 DEF x, r
<1>4. ASSUME i =< t PROVE ((i - 1 - k) % n) + 1 = i + (n - t)
    BY <1>1, <1>2, <1>4
<1>5. ASSUME ~ (i =< t) PROVE ((i - 1 - k) % n) + 1 = i - t
    BY <1>1, <1>3, <1>5
<1>6. QED
    BY <1>4, <1>5 DEF t

Rotated(w, k) == [i \in DOMAIN w |-> w[((i - 1 - k) % Len(w)) + 1]]

\* rotate by k modulo the length.
LEMMA RotateIs ==
    ASSUME NEW D, NEW q, NEW s, Sound(s, q, D), NEW l \in D, q[l] # <<>>, NEW k \in Nat
    PROVE  Sound(List!Rotate(s, l, k), [q EXCEPT ![l] = Rotated(q[l], k)], D)
<1> DEFINE w == q[l]
           n == Len(w)
           t == k % n
           v == Rotated(w, k)
<1>1. w \in Seq(Int) /\ n \in Nat /\ l \in Int /\ q \in [D -> Seq(Int)] /\ List!Begin(s, l) = NodeOf(w, l, 1)
    BY Neighbours
<1>2. n > 0
    <2>1. w # <<>>
        OBVIOUS
    <2> HIDE DEF w
    <2>2. QED
        BY <1>1, <2>1
<1>3. t \in 0 .. n - 1
    BY <1>1, <1>2, RemainderIs
<1>4. List!Size(s, l) = n /\ \A i \in 0 .. n : List!Advanced(s, l)[i] = NodeOf(w, l, i + 1)
    BY AdvancedIs
<1>5. DOMAIN w = 1 .. n /\ \A i \in 1 .. n : w[i] \in Int
    BY <1>1
<1>6. ASSUME NEW i \in 1 .. n
      PROVE  /\ i =< t => ((i - 1 - k) % n) + 1 = i + (n - t) /\ i + (n - t) \in 1 .. n
             /\ ~ (i =< t) => ((i - 1 - k) % n) + 1 = i - t /\ i - t \in 1 .. n
    <2>1. /\ i =< t => ((i - 1 - k) % n) + 1 = i + (n - t)
          /\ ~ (i =< t) => ((i - 1 - k) % n) + 1 = i - t
        BY <1>1, <1>2, RotatedIs
    <2> HIDE DEF t, n
    <2>2. /\ i =< t => i + (n - t) \in 1 .. n
          /\ ~ (i =< t) => i - t \in 1 .. n
        BY <1>1, <1>2, <1>3
    <2>3. QED
        BY <2>1, <2>2
<1>7. v = [i \in 1 .. n |-> w[((i - 1 - k) % n) + 1]]
    BY <1>5 DEF Rotated
<1>8. ASSUME NEW i \in 1 .. n
      PROVE  v[i] = w[IF i =< t THEN i + (n - t) ELSE i - t] /\ v[i] \in Int
    <2> DEFINE g == ((i - 1 - k) % n) + 1
    <2>1. v[i] = w[g]
        BY <1>7
    <2>2. g = (IF i =< t THEN i + (n - t) ELSE i - t) /\ g \in 1 .. n
        BY <1>6
    <2> HIDE DEF g, t, n, v, w
    <2>3. QED
        BY <1>5, <2>1, <2>2
<1> HIDE DEF v
<1>9. v \in Seq(Int) /\ Len(v) = n
    <2> DEFINE F(i) == w[((i - 1 - k) % n) + 1]
    <2>1. \A i \in 1 .. n : F(i) \in Int
        BY <1>7, <1>8
    <2> HIDE DEF F
    <2>2. v = [i \in 1 .. n |-> F(i)]
        BY <1>7 DEF F
    <2> HIDE DEF n, w
    <2>3. QED
        BY <1>1, <2>1, <2>2
<1> HIDE DEF t, n
<1>10. CASE t = 0
    <2>1. List!Rotate(s, l, k) = s
        BY <1>4, <1>10 DEF List!Rotate, t
    <2>2. \A i \in 1 .. n : v[i] = w[i]
        <3>1. \A i \in 1 .. n : ~ (i =< t) /\ i - t = i
            BY <1>1, <1>10
        <3>2. QED
            BY <1>8, <3>1
    <2>3. v = w
        <3>1. Len(v) = Len(w) /\ \A i \in 1 .. Len(v) : v[i] = w[i]
            BY <1>9, <2>2 DEF n
        <3>2. QED
            BY <1>1, <1>9, <3>1, SeqEqual
    <2>4. [q EXCEPT ![l] = v] = q
        BY <1>1, <2>3
    <2>5. QED
        BY <2>1, <2>4 DEF v
<1>11. CASE t # 0
    <2> DEFINE a == 0
               b == n - t
               c == n
    <2>1. Cuts(n, a, b, c)
        BY <1>1, <1>2, <1>3, <1>11 DEF Cuts
    <2>2. ASSUME NEW i \in 1 .. n PROVE v[i] = w[Source(a, b, c, i)]
        <3>1. Source(a, b, c, i) = IF i =< t THEN i + (n - t) ELSE i - t
            BY <1>1, <1>2, <1>3, <1>11 DEF Source
        <3>2. QED
            BY <1>8, <3>1
    <2>3. Exchanged(w, v, a, b, c)
        BY <1>9, <2>2 DEF Exchanged, n
    <2>4. a + 1 = 1 /\ c + 1 = n + 1 /\ b \in 0 .. n
        BY <1>1, <1>3
    <2>5. NodeOf(w, l, n + 1) = l
        BY <1>1, NodesAre DEF n
    <2>6. List!Rotate(s, l, k) = List!Transfer(s, NodeOf(w, l, 1), NodeOf(w, l, b + 1), NodeOf(w, l, n + 1))
        <3>1. List!Rotate(s, l, k) = List!Transfer(s, NodeOf(w, l, 1), List!Advanced(s, l)[n - t], l)
            <4>1. k % List!Size(s, l) = t
                BY <1>4 DEF t
            <4>2. QED
                BY <1>1, <1>4, <1>11, <4>1 DEF List!Rotate
        <3>2. List!Advanced(s, l)[n - t] = NodeOf(w, l, b + 1)
            BY <1>4, <2>4
        <3>3. QED
            BY <2>5, <3>1, <3>2
    <2> HIDE DEF a, b, c
    <2>7. Sound(List!Transfer(s, NodeOf(w, l, a + 1), NodeOf(w, l, b + 1), NodeOf(w, l, c + 1)), [q EXCEPT ![l] = v], D)
        <3>1. Cuts(Len(q[l]), a, b, c) /\ Exchanged(q[l], v, a, b, c)
            BY <2>1, <2>3 DEF n
        <3>2. QED
            BY <3>1, ForthSound
    <2>8. QED
        BY <2>4, <2>6, <2>7 DEF v
<1>12. QED
    BY <1>10, <1>11

-----------------------------------------------------------------------------
(* Order. *)

EachOnce(p) == p \in Seq(Int) /\ \A i, j \in 1 .. Len(p) : p[i] = p[j] => i = j
Among(z, v) == \E i \in 1 .. Len(v) : v[i] = z
Sorted(p, v) == \A i, j \in 1 .. Len(v) : i < j => List!Sooner(p, v[i], v[j])

\* Values and the order of equal ones are comparable, in any sequence.
LEMMA ValueIs ==
    ASSUME NEW x \in Int
    PROVE  List!ValueOf(x) \in Int
BY DEF List!ValueOf

LEMMA PrecedesIs ==
    ASSUME NEW p, EachOnce(p)
    PROVE  /\ \A a, b, c \in Int : List!Precedes(p, a, b) /\ List!Precedes(p, b, c) => List!Precedes(p, a, c)
           /\ \A a, b \in Int : ~ (List!Precedes(p, a, b) /\ List!Precedes(p, b, a))
<1>1. DOMAIN p = 1 .. Len(p) /\ Len(p) \in Nat /\ \A i, j \in 1 .. Len(p) : p[i] = p[j] => i = j
    BY DEF EachOnce
<1>2. ASSUME NEW a \in Int, NEW b \in Int, NEW c \in Int, List!Precedes(p, a, b), List!Precedes(p, b, c)
      PROVE  List!Precedes(p, a, c)
    <2>1. PICK i \in 1 .. Len(p), j \in 1 .. Len(p) : i < j /\ p[i] = a /\ p[j] = b
        BY <1>1, <1>2 DEF List!Precedes
    <2>2. PICK k \in 1 .. Len(p), m \in 1 .. Len(p) : k < m /\ p[k] = b /\ p[m] = c
        BY <1>1, <1>2 DEF List!Precedes
    <2>3. j = k
        BY <1>1, <2>1, <2>2
    <2>4. i < m
        BY <2>1, <2>2, <2>3
    <2>5. QED
        BY <1>1, <2>1, <2>2, <2>4 DEF List!Precedes
<1>3. ASSUME NEW a \in Int, NEW b \in Int, List!Precedes(p, a, b), List!Precedes(p, b, a)
      PROVE  FALSE
    <2>1. PICK i \in 1 .. Len(p), j \in 1 .. Len(p) : i < j /\ p[i] = a /\ p[j] = b
        BY <1>1, <1>3 DEF List!Precedes
    <2>2. PICK k \in 1 .. Len(p), m \in 1 .. Len(p) : k < m /\ p[k] = b /\ p[m] = a
        BY <1>1, <1>3 DEF List!Precedes
    <2>3. j = k /\ i = m
        BY <1>1, <2>1, <2>2
    <2>4. QED
        BY <2>1, <2>2, <2>3
<1>4. QED
    BY <1>2, <1>3

LEMMA SoonerIs ==
    ASSUME NEW p, EachOnce(p)
    PROVE  /\ \A a, b, c \in Int : List!Sooner(p, a, b) /\ List!Sooner(p, b, c) => List!Sooner(p, a, c)
           /\ \A a, b \in Int : ~ (List!Sooner(p, a, b) /\ List!Sooner(p, b, a))
<1>1. ASSUME NEW a \in Int, NEW b \in Int, NEW c \in Int, List!Sooner(p, a, b), List!Sooner(p, b, c)
      PROVE  List!Sooner(p, a, c)
    <2>1. List!ValueOf(a) \in Int /\ List!ValueOf(b) \in Int /\ List!ValueOf(c) \in Int
        BY ValueIs
    <2>2. List!Precedes(p, a, b) /\ List!Precedes(p, b, c) => List!Precedes(p, a, c)
        BY PrecedesIs
    <2>3. QED
        BY <1>1, <2>1, <2>2 DEF List!Sooner
<1>2. ASSUME NEW a \in Int, NEW b \in Int, List!Sooner(p, a, b), List!Sooner(p, b, a)
      PROVE  FALSE
    <2>1. List!ValueOf(a) \in Int /\ List!ValueOf(b) \in Int
        BY ValueIs
    <2>2. ~ (List!Precedes(p, a, b) /\ List!Precedes(p, b, a))
        BY PrecedesIs
    <2>3. QED
        BY <1>2, <2>1, <2>2 DEF List!Sooner
<1>3. QED
    BY <1>1, <1>2

\* There is one way to sort a sequence of nodes and keep equal values in
\* their order.
Sorting(p, r) ==
    /\ EachOnce(r) /\ Len(r) = Len(p)
    /\ \A z \in Int : Among(z, r) <=> Among(z, p)
    /\ Sorted(p, r)

\* Two sortings of one sequence that keep equal values in order are equal.
LEMMA OneSorting ==
    ASSUME NEW p, EachOnce(p), NEW r, Sorting(p, r), NEW t, Sorting(p, t)
    PROVE  r = t
<1> DEFINE n == Len(p)
           S == {i \in 1 .. n : r[i] # t[i]}
<1>1. /\ n \in Nat /\ r \in Seq(Int) /\ t \in Seq(Int) /\ Len(r) = n /\ Len(t) = n
      /\ \A i, j \in 1 .. n : r[i] = r[j] => i = j
      /\ \A i, j \in 1 .. n : t[i] = t[j] => i = j
      /\ \A i, j \in 1 .. n : i < j => List!Sooner(p, r[i], r[j])
      /\ \A i, j \in 1 .. n : i < j => List!Sooner(p, t[i], t[j])
    BY DEF Sorting, EachOnce, Sorted
<1>2. \A i \in 1 .. n : r[i] \in Int /\ t[i] \in Int
    BY <1>1
<1>3. \A z \in Int : Among(z, r) <=> Among(z, t)
    BY DEF Sorting
<1> HIDE DEF n
<1>4. ASSUME NEW m \in S PROVE FALSE
    <2>1. S \in SUBSET Nat
        BY <1>1
    <2>2. PICK i \in S : \A k \in S : i <= k
        BY <1>4, <2>1, LeastElement
    <2>3. i \in 1 .. n /\ r[i] # t[i] /\ \A k \in 1 .. n : k < i => r[k] = t[k]
        <3>1. ASSUME NEW k \in 1 .. n, k < i PROVE r[k] = t[k]
            <4>1. k \notin S
                BY <2>1, <2>2, <3>1
            <4>2. QED
                BY <4>1
        <3>2. QED
            BY <3>1
    <2> HIDE DEF S
    <2>4. PICK j \in 1 .. n : t[j] = r[i]
        <3>1. Among(r[i], r)
            BY <1>1, <2>3 DEF Among
        <3>2. Among(r[i], t)
            BY <1>2, <1>3, <2>3, <3>1
        <3>3. QED
            BY <1>1, <3>2 DEF Among
    <2>5. PICK k \in 1 .. n : r[k] = t[i]
        <3>1. Among(t[i], t)
            BY <1>1, <2>3 DEF Among
        <3>2. Among(t[i], r)
            BY <1>2, <1>3, <2>3, <3>1
        <3>3. QED
            BY <1>1, <3>2 DEF Among
    <2>6. i < j
        <3>1. j # i
            BY <2>3, <2>4
        <3>2. ~ (j < i)
            BY <1>1, <2>3, <2>4
        <3>3. QED
            BY <1>1, <2>3, <3>1, <3>2
    <2>7. i < k
        <3>1. k # i
            BY <2>3, <2>5
        <3>2. ~ (k < i)
            BY <1>1, <2>3, <2>5
        <3>3. QED
            BY <1>1, <2>3, <3>1, <3>2
    <2>8. List!Sooner(p, r[i], t[i]) /\ List!Sooner(p, t[i], r[i])
        BY <1>1, <2>3, <2>4, <2>5, <2>6, <2>7
    <2>9. QED
        BY <1>2, <2>3, <2>8, SoonerIs
<1>5. Len(r) = Len(t) /\ \A i \in 1 .. Len(r) : r[i] = t[i]
    BY <1>1, <1>4
<1>6. QED
    BY <1>1, <1>5, SeqEqual

\* So StablySorted is any sorting that was found.
LEMMA StablySortedIs ==
    ASSUME NEW p, EachOnce(p), NEW r, Sorting(p, r)
    PROVE  List!StablySorted(p) = r
<1> DEFINE n == Len(p)
           S == [DOMAIN p -> List!ToSet(p)]
<1>1. n \in Nat /\ p \in Seq(Int) /\ DOMAIN p = 1 .. n /\ \A i \in 1 .. n : p[i] \in Int
    BY DEF EachOnce
<1>2. \A z : z \in List!ToSet(p) <=> Among(z, p)
    BY <1>1 DEF List!ToSet, Among
<1>3. ASSUME NEW t \in S, List!IsSorting(p, t) PROVE Sorting(p, t)
    <2>1. t \in [1 .. n -> Int]
        BY <1>1 DEF List!ToSet
    <2>2. t \in Seq(Int) /\ Len(t) = n /\ DOMAIN t = 1 .. n
        BY <1>1, <2>1
    <2>3. \A i, j \in 1 .. n : t[i] = t[j] => i = j
        BY <1>3, <2>2 DEF List!IsSorting, List!IsInjective
    <2>4. \A z : Among(z, t) <=> z \in List!ToSet(t)
        BY <2>2 DEF List!ToSet, Among
    <2>5. \A z \in Int : Among(z, t) <=> Among(z, p)
        BY <1>2, <1>3, <2>4 DEF List!IsSorting
    <2>6. Sorted(p, t)
        BY <1>3, <2>2 DEF List!IsSorting, Sorted
    <2>7. QED
        BY <2>2, <2>3, <2>5, <2>6 DEF Sorting, EachOnce
<1>4. r \in S /\ List!IsSorting(p, r)
    <2>1. /\ r \in Seq(Int) /\ Len(r) = n /\ DOMAIN r = 1 .. n
          /\ \A i, j \in 1 .. n : r[i] = r[j] => i = j
        BY DEF Sorting, EachOnce
    <2>2. \A z : z \in List!ToSet(r) <=> Among(z, r)
        BY <2>1 DEF List!ToSet, Among
    <2>3. \A z : Among(z, r) \/ Among(z, p) => z \in Int
        BY <1>1, <2>1 DEF Among
    <2>4. List!ToSet(r) = List!ToSet(p)
        BY <1>2, <2>2, <2>3 DEF Sorting
    <2>5. List!IsInjective(r)
        BY <2>1 DEF List!IsInjective
    <2>6. \A i, j \in DOMAIN r : i < j => List!Sooner(p, r[i], r[j])
        BY <2>1 DEF Sorting, Sorted
    <2>7. r \in [1 .. n -> List!ToSet(r)]
        BY <2>1 DEF List!ToSet
    <2>8. QED
        BY <1>1, <2>4, <2>5, <2>6, <2>7 DEF List!IsSorting
<1>5. List!StablySorted(p) = CHOOSE t \in S : List!IsSorting(p, t)
    BY DEF List!StablySorted
<1> HIDE DEF S
<1>6. \E t \in S : List!IsSorting(p, t)
    BY <1>4
<1>7. List!StablySorted(p) \in S /\ List!IsSorting(p, List!StablySorted(p))
    BY <1>5, <1>6, Zenon
<1>8. QED
    BY <1>3, <1>7, OneSorting

-----------------------------------------------------------------------------
(* Merge. *)

\* The first i - 1 elements of v are in place, the others and those of u
\* compare as they should.
Merges(p, v, u, i) ==
    /\ v \in Seq(Int) /\ u \in Seq(Int) /\ i \in 1 .. Len(v) + 1
    /\ Sorted(p, v) /\ Sorted(p, u)
    /\ \A j \in 1 .. Len(v), k \in 1 .. Len(u) :
         /\ j < i => List!Sooner(p, v[j], u[k])
         /\ j >= i /\ List!ValueOf(v[j]) =< List!ValueOf(u[k]) => List!Sooner(p, v[j], u[k])

LEMMA MergeAdvances ==
    ASSUME NEW p, EachOnce(p), NEW v, NEW u, NEW i, Merges(p, v, u, i), i =< Len(v), Len(u) >= 1,
           List!ValueOf(v[i]) =< List!ValueOf(u[1])
    PROVE  Merges(p, v, u, i + 1)
<1> DEFINE n == Len(v)
           e == Len(u)
<1>1. /\ n \in Nat /\ e \in Nat /\ i \in 1 .. n /\ 1 \in 1 .. e /\ i + 1 \in 1 .. n + 1
      /\ \A j \in 1 .. n : v[j] \in Int
      /\ \A k \in 1 .. e : u[k] \in Int
    BY DEF Merges
<1>2. List!Sooner(p, v[i], u[1])
    <2>1. i >= i
        BY <1>1
    <2>2. QED
        BY <1>1, <2>1 DEF Merges
<1>3. ASSUME NEW k \in 1 .. e PROVE List!Sooner(p, v[i], u[k])
    <2>1. CASE k = 1
        BY <1>2, <2>1
    <2>2. CASE k # 1
        <3>1. List!Sooner(p, u[1], u[k])
            BY <1>1, <2>2 DEF Merges, Sorted
        <3>2. QED
            BY <1>1, <1>2, <3>1, SoonerIs
    <2>3. QED
        BY <2>1, <2>2
<1>4. ASSUME NEW j \in 1 .. n, NEW k \in 1 .. e
      PROVE  /\ j < i + 1 => List!Sooner(p, v[j], u[k])
             /\ j >= i + 1 /\ List!ValueOf(v[j]) =< List!ValueOf(u[k]) => List!Sooner(p, v[j], u[k])
    <2>1. CASE j < i
        BY <2>1 DEF Merges
    <2>2. CASE j = i
        BY <1>1, <1>3, <2>2
    <2>3. CASE j > i
        <3>1. j >= i /\ ~ (j < i + 1)
            BY <1>1, <2>3
        <3>2. QED
            BY <3>1 DEF Merges
    <2>4. QED
        BY <1>1, <2>1, <2>2, <2>3
<1>5. QED
    BY <1>1, <1>4 DEF Merges

\* The first of u goes before place i of v.
LEMMA MergeGives ==
    ASSUME NEW p, EachOnce(p), NEW v, NEW u, NEW i, Merges(p, v, u, i), i =< Len(v), Len(u) >= 1,
           ~ (List!ValueOf(v[i]) =< List!ValueOf(u[1])),
           NEW x, Given(v, x, i - 1, u, 0, 1), NEW y, Reduced(u, y, 0, 1)
    PROVE  Merges(p, x, y, i + 1)
<1> DEFINE n == Len(v)
           e == Len(u)
           g == u[1]
<1>1. /\ n \in Nat /\ e \in Nat /\ i \in 1 .. n /\ 1 \in 1 .. e
      /\ \A j \in 1 .. n : v[j] \in Int
      /\ \A k \in 1 .. e : u[k] \in Int
    BY DEF Merges
<1>2. /\ x \in Seq(Int) /\ Len(x) = n + 1
      /\ \A j \in 1 .. n + 1 : x[j] = IF j < i THEN v[j] ELSE IF j = i THEN g ELSE v[j - 1]
    <2>1. /\ x \in Seq(Int) /\ Len(x) = n + (1 - 0)
          /\ \A j \in 1 .. Len(x) : x[j] = IF j =< i - 1 THEN v[j] ELSE IF j =< (i - 1) + (1 - 0) THEN u[j - (i - 1) + 0]
                                           ELSE v[j - (1 - 0)]
        BY DEF Given
    <2> HIDE DEF n
    <2>2. Len(x) = n + 1
        BY <1>1, <2>1
    <2>3. ASSUME NEW j \in 1 .. n + 1 PROVE x[j] = IF j < i THEN v[j] ELSE IF j = i THEN g ELSE v[j - 1]
        <3>1. CASE j < i
            <4>1. j =< i - 1
                BY <1>1, <3>1
            <4>2. QED
                BY <2>1, <2>2, <3>1, <4>1
        <3>2. CASE j = i
            <4>1. ~ (j =< i - 1) /\ j =< (i - 1) + (1 - 0) /\ j - (i - 1) + 0 = 1 /\ ~ (j < i)
                BY <1>1, <3>2
            <4>2. QED
                BY <2>1, <2>2, <3>2, <4>1
        <3>3. CASE j > i
            <4>1. ~ (j =< i - 1) /\ ~ (j =< (i - 1) + (1 - 0)) /\ j - (1 - 0) = j - 1 /\ ~ (j < i) /\ j # i
                BY <1>1, <3>3
            <4>2. QED
                BY <2>1, <2>2, <4>1
        <3>4. QED
            BY <1>1, <3>1, <3>2, <3>3
    <2>4. QED
        BY <2>1, <2>2, <2>3
<1>3. /\ y \in Seq(Int) /\ Len(y) = e - 1
      /\ \A k \in 1 .. e - 1 : y[k] = u[k + 1]
    <2>1. /\ y \in Seq(Int) /\ Len(y) = e - (1 - 0)
          /\ \A k \in 1 .. Len(y) : y[k] = u[IF k =< 0 THEN k ELSE k + (1 - 0)]
        BY DEF Reduced
    <2> HIDE DEF e
    <2>2. Len(y) = e - 1
        BY <1>1, <2>1
    <2>3. ASSUME NEW k \in 1 .. e - 1 PROVE y[k] = u[k + 1]
        <3>1. ~ (k =< 0) /\ k + (1 - 0) = k + 1
            BY <1>1
        <3>2. QED
            BY <2>1, <2>2, <3>1
    <2>4. QED
        BY <2>1, <2>2, <2>3
<1>4. /\ \A j, k \in 1 .. n : j < k => List!Sooner(p, v[j], v[k])
      /\ \A j, k \in 1 .. e : j < k => List!Sooner(p, u[j], u[k])
      /\ \A j \in 1 .. n, k \in 1 .. e :
           /\ j < i => List!Sooner(p, v[j], u[k])
           /\ j >= i /\ List!ValueOf(v[j]) =< List!ValueOf(u[k]) => List!Sooner(p, v[j], u[k])
    BY DEF Merges, Sorted
<1>5. g \in Int /\ List!Sooner(p, g, v[i])
    <2>1. List!ValueOf(v[i]) \in Int /\ List!ValueOf(g) \in Int
        BY <1>1, ValueIs
    <2>2. QED
        BY <1>1, <2>1 DEF List!Sooner
<1> HIDE DEF n, e, g
<1>6. ASSUME NEW k \in 1 .. n, k >= i PROVE List!Sooner(p, g, v[k])
    <2>1. CASE k = i
        BY <1>5, <2>1
    <2>2. CASE k # i
        <3>1. List!Sooner(p, v[i], v[k])
            BY <1>1, <1>4, <1>6, <2>2
        <3>2. QED
            BY <1>1, <1>5, <3>1, SoonerIs
    <2>3. QED
        BY <2>1, <2>2
<1>7. Sorted(p, x)
    <2> SUFFICES ASSUME NEW j \in 1 .. n + 1, NEW k \in 1 .. n + 1, j < k
                 PROVE  List!Sooner(p, x[j], x[k])
        BY <1>2 DEF Sorted
    <2>1. CASE k < i
        <3>1. x[j] = v[j] /\ x[k] = v[k] /\ j \in 1 .. n /\ k \in 1 .. n
            BY <1>1, <1>2, <2>1
        <3>2. QED
            BY <1>4, <3>1
    <2>2. CASE k = i
        <3>1. x[j] = v[j] /\ x[k] = g /\ j \in 1 .. n /\ j < i
            BY <1>1, <1>2, <2>2
        <3>2. QED
            BY <1>1, <1>4, <3>1 DEF g
    <2>3. CASE k > i /\ j < i
        <3>1. j \in 1 .. n /\ k - 1 \in 1 .. n /\ j < k - 1 /\ ~ (k < i) /\ k # i
            BY <1>1, <2>3
        <3>2. x[j] = v[j] /\ x[k] = v[k - 1]
            BY <1>2, <2>3, <3>1
        <3>3. QED
            BY <1>4, <3>1, <3>2
    <2>4. CASE k > i /\ j = i
        <3>1. x[j] = g /\ x[k] = v[k - 1] /\ k - 1 \in 1 .. n /\ k - 1 >= i
            BY <1>1, <1>2, <2>4
        <3>2. QED
            BY <1>6, <3>1
    <2>5. CASE k > i /\ j > i
        <3>1. /\ j - 1 \in 1 .. n /\ k - 1 \in 1 .. n /\ j - 1 < k - 1
              /\ ~ (k < i) /\ k # i /\ ~ (j < i) /\ j # i
            BY <1>1, <2>5
        <3>2. x[j] = v[j - 1] /\ x[k] = v[k - 1]
            BY <1>2, <3>1
        <3>3. QED
            BY <1>4, <3>1, <3>2
    <2>6. QED
        BY <1>1, <2>1, <2>2, <2>3, <2>4, <2>5
<1>8. Sorted(p, y)
    <2> SUFFICES ASSUME NEW j \in 1 .. e - 1, NEW k \in 1 .. e - 1, j < k
                 PROVE  List!Sooner(p, y[j], y[k])
        BY <1>3 DEF Sorted
    <2>1. j + 1 \in 1 .. e /\ k + 1 \in 1 .. e /\ j + 1 < k + 1
        BY <1>1
    <2>2. QED
        BY <1>3, <1>4, <2>1
<1>9. ASSUME NEW j \in 1 .. n + 1, NEW k \in 1 .. e - 1
      PROVE  /\ j < i + 1 => List!Sooner(p, x[j], y[k])
             /\ j >= i + 1 /\ List!ValueOf(x[j]) =< List!ValueOf(y[k]) => List!Sooner(p, x[j], y[k])
    <2>1. k + 1 \in 1 .. e /\ y[k] = u[k + 1] /\ 1 < k + 1
        BY <1>1, <1>3
    <2>2. CASE j < i
        <3>1. x[j] = v[j] /\ j \in 1 .. n /\ ~ (j >= i + 1)
            BY <1>1, <1>2, <2>2
        <3>2. QED
            BY <1>4, <2>1, <2>2, <3>1
    <2>3. CASE j = i
        <3>1. x[j] = g /\ ~ (j >= i + 1)
            BY <1>1, <1>2, <2>3
        <3>2. QED
            BY <1>1, <1>4, <2>1, <3>1 DEF g
    <2>4. CASE j > i
        <3>1. j - 1 \in 1 .. n /\ j - 1 >= i /\ ~ (j < i + 1) /\ ~ (j < i) /\ j # i
            BY <1>1, <2>4
        <3>2. x[j] = v[j - 1]
            BY <1>2, <3>1
        <3>3. QED
            BY <1>4, <2>1, <3>1, <3>2
    <2>5. QED
        BY <1>1, <2>2, <2>3, <2>4
<1>10. i + 1 \in 1 .. (n + 1) + 1
    BY <1>1
<1>11. QED
    BY <1>2, <1>3, <1>7, <1>8, <1>9, <1>10 DEF Merges

\* What is left of u goes to the end.
LEMMA MergeJoins ==
    ASSUME NEW p, EachOnce(p), NEW v, NEW u, Merges(p, v, u, Len(v) + 1), NEW x, Given(v, x, Len(v), u, 0, Len(u))
    PROVE  Sorted(p, x)
<1> DEFINE n == Len(v)
           e == Len(u)
<1>1. /\ n \in Nat /\ e \in Nat
      /\ \A j, k \in 1 .. n : j < k => List!Sooner(p, v[j], v[k])
      /\ \A j, k \in 1 .. e : j < k => List!Sooner(p, u[j], u[k])
      /\ \A j \in 1 .. n, k \in 1 .. e : j < n + 1 => List!Sooner(p, v[j], u[k])
    BY DEF Merges, Sorted
<1>2. /\ x \in Seq(Int) /\ Len(x) = n + (e - 0)
      /\ \A j \in 1 .. Len(x) : x[j] = IF j =< n THEN v[j] ELSE IF j =< n + (e - 0) THEN u[j - n + 0] ELSE v[j - (e - 0)]
    BY DEF Given
<1> HIDE DEF n, e
<1>3. ASSUME NEW j \in 1 .. n + e
      PROVE  /\ j =< n => x[j] = v[j] /\ j \in 1 .. n /\ j < n + 1
             /\ ~ (j =< n) => x[j] = u[j - n] /\ j - n \in 1 .. e
    <2>1. j \in 1 .. Len(x)
        BY <1>1, <1>2
    <2>2. CASE j =< n
        BY <1>1, <1>2, <2>1, <2>2
    <2>3. CASE ~ (j =< n)
        <3>1. j =< n + (e - 0) /\ j - n + 0 = j - n /\ j - n \in 1 .. e
            BY <1>1, <2>3
        <3>2. QED
            BY <1>2, <2>1, <2>3, <3>1
    <2>4. QED
        BY <2>2, <2>3
<1>4. Len(x) = n + e
    BY <1>1, <1>2
<1> SUFFICES ASSUME NEW j \in 1 .. n + e, NEW k \in 1 .. n + e, j < k
             PROVE  List!Sooner(p, x[j], x[k])
    BY <1>4 DEF Sorted
<1>5. CASE k =< n
    <2>1. j =< n
        BY <1>1, <1>5
    <2>2. QED
        BY <1>1, <1>3, <1>5, <2>1
<1>6. CASE ~ (k =< n) /\ j =< n
    BY <1>1, <1>3, <1>6
<1>7. CASE ~ (k =< n) /\ ~ (j =< n)
    <2>1. j - n < k - n
        BY <1>1
    <2>2. QED
        BY <1>1, <1>3, <1>7, <2>1
<1>8. QED
    BY <1>5, <1>6, <1>7

\* r holds what q does but for what the lists of S have among themselves.
Same(q, r, D, S) ==
    /\ Apart(q, D) /\ Apart(r, D) /\ S \subseteq D
    /\ \A z \in Int : z \in Cells(r, D) <=> z \in Cells(q, D)
    /\ \A d \in D : d \notin S => r[d] = q[d]

\* z is in one of the lists of S.
InOne(z, q, S) == \E d \in S : Among(z, q[d])

LEMMA CellsAre ==
    ASSUME NEW D, NEW q, Apart(q, D), NEW z \in Int
    PROVE  /\ InOne(z, q, D) => z \in Cells(q, D) /\ z \notin D
           /\ z \in Cells(q, D) /\ z \notin D => InOne(z, q, D)
<1>1. q \in [D -> Seq(Int)] /\ \A l \in D : \A i \in 1 .. Len(q[l]) : q[l][i] \notin D
    BY DEF Apart
<1>2. QED
    BY <1>1 DEF InOne, Among, Cells

LEMMA OneList ==
    ASSUME NEW D, NEW q, Apart(q, D), NEW z, NEW l \in D, NEW k \in D, Among(z, q[l]), Among(z, q[k])
    PROVE  l = k
<1>1. PICK i \in 1 .. Len(q[l]) : q[l][i] = z
    BY DEF Among
<1>2. PICK j \in 1 .. Len(q[k]) : q[k][j] = z
    BY DEF Among
<1>3. QED
    BY <1>1, <1>2, OnePlace

\* What passes between the lists of S stays in one of them.
LEMMA SameContent ==
    ASSUME NEW D, NEW S, NEW q, NEW r, Same(q, r, D, S), NEW z \in Int
    PROVE  InOne(z, q, S) <=> InOne(z, r, S)
<1>1. /\ Apart(q, D) /\ Apart(r, D) /\ S \subseteq D
      /\ z \in Cells(r, D) <=> z \in Cells(q, D)
      /\ \A d \in D : d \notin S => r[d] = q[d]
    BY DEF Same
<1>2. InOne(z, q, D) <=> InOne(z, r, D)
    BY <1>1, CellsAre
<1>3. ASSUME InOne(z, q, S) PROVE InOne(z, r, S)
    <2>1. PICK d \in S : Among(z, q[d])
        BY <1>3 DEF InOne
    <2>2. PICK e \in D : Among(z, r[e])
        BY <1>1, <1>2, <2>1 DEF InOne
    <2>3. CASE e \in S
        BY <2>2, <2>3 DEF InOne
    <2>4. CASE e \notin S
        <3>1. Among(z, q[e])
            BY <1>1, <2>2, <2>4
        <3>2. d = e
            BY <1>1, <2>1, <3>1, OneList
        <3>3. QED
            BY <2>4, <3>2
    <2>5. QED
        BY <2>3, <2>4
<1>4. ASSUME InOne(z, r, S) PROVE InOne(z, q, S)
    <2>1. PICK d \in S : Among(z, r[d])
        BY <1>4 DEF InOne
    <2>2. PICK e \in D : Among(z, q[e])
        BY <1>1, <1>2, <2>1 DEF InOne
    <2>3. CASE e \in S
        BY <2>2, <2>3 DEF InOne
    <2>4. CASE e \notin S
        <3>1. Among(z, r[e])
            BY <1>1, <2>2, <2>4
        <3>2. d = e
            BY <1>1, <2>1, <3>1, OneList
        <3>3. QED
            BY <2>4, <3>2
    <2>5. QED
        BY <2>3, <2>4
<1>5. QED
    BY <1>3, <1>4

LEMMA SameSingle ==
    ASSUME NEW D, NEW q, Apart(q, D), NEW l \in D
    PROVE  EachOnce(q[l]) /\ q[l] \in Seq(Int) /\ Len(q[l]) \in Nat
<1>1. q \in [D -> Seq(Int)]
    BY DEF Apart
<1>2. \A i, j \in 1 .. Len(q[l]) : q[l][i] = q[l][j] => i = j
    BY OnePlace
<1>3. QED
    BY <1>1, <1>2 DEF EachOnce

\* What passes from one list to another stays in the two.
LEMMA SamePasses ==
    ASSUME NEW D, NEW S, NEW q, NEW r, NEW l \in S, NEW x \in S, l # x, Same(q, r, D, S),
           NEW v, NEW u, NEW a, NEW b, NEW c, Passes(r, x, l, v, u, a, b, c)
    PROVE  Same(q, [[r EXCEPT ![x] = v] EXCEPT ![l] = u], D, S)
<1> DEFINE t == [[r EXCEPT ![x] = v] EXCEPT ![l] = u]
<1>1. /\ Apart(q, D) /\ Apart(r, D) /\ S \subseteq D
      /\ \A z \in Int : z \in Cells(r, D) <=> z \in Cells(q, D)
      /\ \A d \in D : d \notin S => r[d] = q[d]
    BY DEF Same
<1>2. r \in [D -> Seq(Int)] /\ l \in D /\ x \in D
    BY <1>1 DEF Apart
<1>3. Apart(t, D) /\ Cells(t, D) = Cells(r, D)
    <2>1. Apart(r, D) /\ l \in D /\ x \in D
        BY <1>1, <1>2
    <2>2. Apart(t, D)
        BY <2>1, AcrossApart
    <2>3. Cells(t, D) = Cells(r, D)
        BY <2>1, AcrossApart
    <2>4. QED
        BY <2>2, <2>3
<1>4. \A d \in D : d \notin S => t[d] = q[d]
    BY <1>1, <1>2
<1> HIDE DEF t
<1>5. Same(q, t, D, S)
    BY <1>1, <1>3, <1>4 DEF Same
<1>6. QED
    BY <1>5 DEF t

\* After k turns.
Merging(p, q, D, l, x, c, r, k, i) ==
    /\ Sound(c.s, r, D)
    /\ Same(q, r, D, {l, x})
    /\ Len(r[l]) + Len(r[x]) = Len(q[l]) + Len(q[x])
    /\ Merges(p, r[l], r[x], i)
    /\ c.first1 = NodeOf(r[l], l, i) /\ c.first2 = NodeOf(r[x], x, 1)
    /\ i = k + 1 \/ i = Len(r[l]) + 1 \/ Len(r[x]) = 0

LEMMA MergingStops ==
    ASSUME NEW p, NEW q, NEW D, NEW l \in D, NEW x \in D, l # x, NEW c, NEW r, NEW k, NEW i,
           Merging(p, q, D, l, x, c, r, k, i), i = Len(r[l]) + 1 \/ Len(r[x]) = 0
    PROVE  List!MergeTurn(c, l, x) = c /\ Merging(p, q, D, l, x, c, r, k + 1, i)
<1>1. i = Len(r[l]) + 1 => c.first1 = l
    <2>1. ASSUME i = Len(r[l]) + 1 PROVE NodeOf(r[l], l, i) = l
        <3>1. Sound(c.s, r, D)
            BY DEF Merging
        <3>2. /\ Len(r[l]) \in Nat
              /\ \A j \in 0 .. Len(r[l]) + 1 : NodeOf(r[l], l, j) = l <=> j = 0 \/ j = Len(r[l]) + 1
            BY <3>1, Neighbours
        <3>3. i \in 0 .. Len(r[l]) + 1
            BY <2>1, <3>2
        <3>4. QED
            BY <2>1, <3>2, <3>3
    <2>2. QED
        BY <2>1 DEF Merging
<1>2. Len(r[x]) = 0 => c.first2 = x
    <2>1. ASSUME Len(r[x]) = 0 PROVE NodeOf(r[x], x, 1) = x
        <3>1. 1 \in 0 .. Len(r[x]) + 1 /\ 1 = Len(r[x]) + 1
            BY <2>1
        <3>2. \A j \in 0 .. Len(r[x]) + 1 : NodeOf(r[x], x, j) = x <=> j = 0 \/ j = Len(r[x]) + 1
            BY Neighbours DEF Merging
        <3>3. QED
            BY <3>1, <3>2
    <2>2. QED
        BY <2>1 DEF Merging
<1>3. List!MergeTurn(c, l, x) = c
    BY <1>1, <1>2 DEF List!MergeTurn
<1>4. QED
    BY <1>3 DEF Merging

\* One node passes from x to l, before place i.
LEMMA OnePasses ==
    ASSUME NEW D, NEW q, NEW s, Sound(s, q, D), NEW l \in D, NEW x \in D, l # x,
           NEW i \in 1 .. Len(q[l]) + 1, Len(q[x]) >= 1
    PROVE  \E v, u : /\ Passes(q, x, l, v, u, 0, 1, i - 1)
                     /\ Reduced(q[x], v, 0, 1) /\ Given(q[l], u, i - 1, q[x], 0, 1)
                     /\ NodeOf(v, x, 1) = NodeOf(q[x], x, 2)
                     /\ NodeOf(u, l, i + 1) = NodeOf(q[l], l, i)
                     /\ Sound(List!Transfer(s, NodeOf(q[l], l, i), NodeOf(q[x], x, 1), NodeOf(q[x], x, 2)),
                              [[q EXCEPT ![x] = v] EXCEPT ![l] = u], D)
<1> DEFINE w == q[x]
           y == q[l]
           v == List!Without(w, 1, 2)
           u == List!PutBefore(y, i, SubSeq(w, 1, 2 - 1))
<1>1. /\ w \in Seq(Int) /\ Len(w) \in Nat /\ y \in Seq(Int) /\ Len(y) \in Nat /\ l \in Int /\ x \in Int
    BY Neighbours
<1> HIDE DEF w, y
<1>2. /\ 1 \in 1 .. Len(w) + 1 /\ 2 \in 1 .. Len(w) + 1 /\ 1 < 2 /\ i \in 1 .. Len(y) + 1 /\ 1 =< Len(w)
    BY <1>1 DEF w, y
<1>3. Reduced(w, v, 1 - 1, 2 - 1) /\ Part(Len(w), 1 - 1, 2 - 1)
    BY <1>1, <1>2, WithoutIs
<1>4. Given(y, u, i - 1, w, 1 - 1, 2 - 1)
    BY <1>1, <1>2, MovedAcross
<1> HIDE DEF v, u
<1>5. Reduced(w, v, 0, 1) /\ Part(Len(w), 0, 1) /\ Given(y, u, i - 1, w, 0, 1)
    BY <1>3, <1>4
<1>6. i - 1 \in 0 .. Len(y) /\ (i - 1) + 1 = i /\ 0 + 1 = 1 /\ 1 + 1 = 2
    BY <1>1, <1>2
<1>7. Passes(q, x, l, v, u, 0, 1, i - 1)
    BY <1>5, <1>6 DEF Passes, w, y
<1>8. NodeOf(v, x, 1) = NodeOf(w, x, 2)
    <2>1. \A j \in 0 .. Len(v) + 1 : NodeOf(v, x, j) = NodeOf(w, x, IF j =< 0 THEN j ELSE j + (1 - 0))
        BY <1>1, <1>5, TakenNodes
    <2>2. Len(v) \in Nat
        BY <1>5 DEF Reduced
    <2>3. 1 \in 0 .. Len(v) + 1 /\ ~ (1 =< 0) /\ 1 + (1 - 0) = 2
        BY <2>2
    <2>4. QED
        BY <2>1, <2>3
<1>9. NodeOf(u, l, i + 1) = NodeOf(y, l, i)
    <2>1. GivenAt(y, u, l, i - 1, w, x, 0, 1)
        BY <1>1, <1>5, <1>6, GivenNodes
    <2>2. Len(u) = Len(y) + 1
        BY <1>1, <1>5 DEF Given
    <2>3. i + 1 \in 0 .. Len(u) + 1 /\ ~ (i + 1 =< i - 1) /\ ~ (i + 1 =< (i - 1) + (1 - 0)) /\ (i + 1) - (1 - 0) = i
        BY <1>1, <1>2, <2>2
    <2>4. QED
        BY <2>1, <2>3 DEF GivenAt
<1>10. Sound(List!Transfer(s, NodeOf(y, l, (i - 1) + 1), NodeOf(w, x, 0 + 1), NodeOf(w, x, 1 + 1)),
             [[q EXCEPT ![x] = v] EXCEPT ![l] = u], D)
    BY <1>7, AcrossSound DEF w, y
<1>11. Sound(List!Transfer(s, NodeOf(y, l, i), NodeOf(w, x, 1), NodeOf(w, x, 2)),
             [[q EXCEPT ![x] = v] EXCEPT ![l] = u], D)
    BY <1>6, <1>10
<1>12. QED
    BY <1>5, <1>7, <1>8, <1>9, <1>11 DEF w, y

\* Every turn of merge advances in l or takes the first of x over.
LEMMA MergingTurn ==
    ASSUME NEW p, EachOnce(p), NEW q, NEW D, NEW l \in D, NEW x \in D, l # x, NEW c, NEW r, NEW k \in Nat, NEW i,
           Merging(p, q, D, l, x, c, r, k, i)
    PROVE  \E t, j : Merging(p, q, D, l, x, List!MergeTurn(c, l, x), t, k + 1, j)
<1>1. CASE i = Len(r[l]) + 1 \/ Len(r[x]) = 0
    <2>1. List!MergeTurn(c, l, x) = c /\ Merging(p, q, D, l, x, c, r, k + 1, i)
        BY <1>1, MergingStops
    <2>2. QED
        BY <2>1
<1>2. CASE ~ (i = Len(r[l]) + 1 \/ Len(r[x]) = 0)
    <2> DEFINE w == r[x]
               y == r[l]
    <2>1. /\ Sound(c.s, r, D) /\ Same(q, r, D, {l, x}) /\ Len(y) + Len(w) = Len(q[l]) + Len(q[x])
          /\ Merges(p, y, w, i)
          /\ c.first1 = NodeOf(y, l, i) /\ c.first2 = NodeOf(w, x, 1) /\ i = k + 1
        BY <1>2 DEF Merging
    <2>2. /\ w \in Seq(Int) /\ Len(w) \in Nat /\ y \in Seq(Int) /\ Len(y) \in Nat /\ l \in Int /\ x \in Int
          /\ r \in [D -> Seq(Int)]
        BY <2>1, Neighbours
    <2>3. i \in 1 .. Len(y) + 1
        BY <2>1 DEF Merges
    <2>4. /\ \A j \in 0 .. Len(y) : List!At(c.s, NodeOf(y, l, j), "next") = NodeOf(y, l, j + 1)
          /\ \A j \in 0 .. Len(y) + 1 : NodeOf(y, l, j) = l <=> j = 0 \/ j = Len(y) + 1
        BY <2>1, Neighbours
    <2>5. /\ \A j \in 0 .. Len(w) : List!At(c.s, NodeOf(w, x, j), "next") = NodeOf(w, x, j + 1)
          /\ \A j \in 0 .. Len(w) + 1 : NodeOf(w, x, j) = x <=> j = 0 \/ j = Len(w) + 1
        BY <2>1, Neighbours
    <2>6. /\ \A j \in 1 .. Len(y) : NodeOf(y, l, j) = y[j]
          /\ \A j \in 1 .. Len(w) : NodeOf(w, x, j) = w[j]
        BY <2>2, NodesAre
    <2>7. i # Len(y) + 1 /\ Len(w) # 0
        BY <1>2
    <2> HIDE DEF w, y
    <2>8. /\ i \in 1 .. Len(y) /\ i \in 0 .. Len(y) /\ i # 0 /\ i # Len(y) + 1 /\ i \in 0 .. Len(y) + 1 /\ i =< Len(y)
          /\ 1 \in 1 .. Len(w) /\ 1 \in 0 .. Len(w) + 1 /\ 1 # 0 /\ 1 # Len(w) + 1 /\ 1 \in 0 .. Len(w)
          /\ 1 + 1 = 2 /\ Len(w) >= 1
        <3>1. i \in 1 .. Len(y) /\ i \in 0 .. Len(y) /\ i # 0 /\ i \in 0 .. Len(y) + 1 /\ i =< Len(y)
            <4>1. Len(y) \in Nat
                BY <2>2
            <4>2. QED
                BY <2>3, <2>7, <4>1
        <3>2. 1 \in 1 .. Len(w) /\ 1 \in 0 .. Len(w) + 1 /\ 1 \in 0 .. Len(w) /\ Len(w) >= 1
            BY <2>2, <2>7
        <3>3. 1 # Len(w) + 1 /\ 1 # 0 /\ 1 + 1 = 2
            BY <2>2, <2>7
        <3>4. QED
            BY <2>7, <3>1, <3>2, <3>3
    <2>9. c.first1 = y[i] /\ c.first2 = w[1] /\ c.first1 # l /\ c.first2 # x
        BY <2>1, <2>4, <2>5, <2>6, <2>8
    <2>10. CASE List!ValueOf(y[i]) =< List!ValueOf(w[1])
        <3> DEFINE t == [c EXCEPT !.first1 = List!At(c.s, c.first1, "next")]
        <3>1. List!MergeTurn(c, l, x) = t
            BY <2>9, <2>10 DEF List!MergeTurn
        <3>2. Merges(p, y, w, i + 1)
            BY <2>1, <2>8, <2>10, MergeAdvances
        <3>3. t.s = c.s /\ t.first2 = c.first2 /\ t.first1 = NodeOf(y, l, i + 1)
            BY <2>1, <2>4, <2>8
        <3> HIDE DEF t
        <3>4. Merging(p, q, D, l, x, t, r, k + 1, i + 1)
            BY <2>1, <3>2, <3>3 DEF Merging, w, y
        <3>5. QED
            BY <3>1, <3>4
    <2>11. CASE ~ (List!ValueOf(y[i]) =< List!ValueOf(w[1]))
        <3> DEFINE t == [c EXCEPT !.s = List!Transfer(c.s, c.first1, c.first2, List!At(c.s, c.first2, "next")),
                                  !.first2 = List!At(c.s, c.first2, "next")]
        <3>1. List!MergeTurn(c, l, x) = t
            BY <2>9, <2>11 DEF List!MergeTurn
        <3>2. PICK v, u : /\ Passes(r, x, l, v, u, 0, 1, i - 1)
                          /\ Reduced(w, v, 0, 1) /\ Given(y, u, i - 1, w, 0, 1)
                          /\ NodeOf(v, x, 1) = NodeOf(w, x, 2)
                          /\ NodeOf(u, l, i + 1) = NodeOf(y, l, i)
                          /\ Sound(List!Transfer(c.s, NodeOf(y, l, i), NodeOf(w, x, 1), NodeOf(w, x, 2)),
                                   [[r EXCEPT ![x] = v] EXCEPT ![l] = u], D)
            BY <2>1, <2>3, <2>8, OnePasses DEF w, y
        <3> DEFINE m == [[r EXCEPT ![x] = v] EXCEPT ![l] = u]
        <3>3. m[l] = u /\ m[x] = v
            BY <2>2
        <3>4. Merges(p, u, v, i + 1)
            BY <2>1, <2>8, <2>11, <3>2, MergeGives
        <3>5. Same(q, m, D, {l, x})
            BY <2>1, <3>2, SamePasses, l \in {l, x}, x \in {l, x}
        <3>6. Len(u) + Len(v) = Len(y) + Len(w)
            <4>1. Len(u) = Len(y) + (1 - 0) /\ Len(v) = Len(w) - (1 - 0)
                BY <3>2 DEF Given, Reduced
            <4>2. QED
                BY <2>2, <4>1
        <3>7. List!At(c.s, c.first2, "next") = NodeOf(w, x, 2)
            BY <2>1, <2>5, <2>8
        <3>8. /\ t.s = List!Transfer(c.s, NodeOf(y, l, i), NodeOf(w, x, 1), NodeOf(w, x, 2))
              /\ t.first1 = NodeOf(u, l, i + 1) /\ t.first2 = NodeOf(v, x, 1)
            BY <2>1, <3>2, <3>7
        <3>9. Sound(t.s, m, D)
            BY <3>2, <3>8
        <3> HIDE DEF t, m
        <3>10. Merging(p, q, D, l, x, t, m, k + 1, i + 1)
            BY <2>1, <3>3, <3>4, <3>5, <3>6, <3>8, <3>9 DEF Merging
        <3>11. QED
            BY <3>1, <3>10
    <2>12. QED
        BY <2>10, <2>11
<1>3. QED
    BY <1>1, <1>2

\* What is left of ring x, all of it, passes to the end of ring l.
LEMMA AllPass ==
    ASSUME NEW D, NEW q, NEW s, Sound(s, q, D), NEW l \in D, NEW x \in D, l # x, Len(q[x]) >= 1
    PROVE  \E v, u : /\ Passes(q, x, l, v, u, 0, Len(q[x]), Len(q[l]))
                     /\ Given(q[l], u, Len(q[l]), q[x], 0, Len(q[x]))
                     /\ v = <<>> /\ Len(u) = Len(q[l]) + Len(q[x])
                     /\ Sound(List!Transfer(s, l, List!Begin(s, x), x), [[q EXCEPT ![x] = v] EXCEPT ![l] = u], D)
<1> DEFINE w == q[x]
           y == q[l]
           n == Len(w)
           m == Len(y)
           v == List!Without(w, 1, n + 1)
           u == List!PutBefore(y, m + 1, SubSeq(w, 1, (n + 1) - 1))
<1>1. /\ w \in Seq(Int) /\ n \in Nat /\ y \in Seq(Int) /\ m \in Nat /\ l \in Int /\ x \in Int
    BY Neighbours
<1>2. /\ List!Begin(s, x) = NodeOf(w, x, 1)
      /\ NodeOf(w, x, n + 1) = x /\ NodeOf(y, l, m + 1) = l
    BY <1>1, NodesAre, Neighbours
<1>3. n >= 1
    OBVIOUS
<1> HIDE DEF w, y, n, m
<1>4. /\ 1 \in 1 .. n + 1 /\ n + 1 \in 1 .. n + 1 /\ 1 < n + 1 /\ m + 1 \in 1 .. m + 1 /\ m \in 0 .. m
      /\ 1 - 1 = 0 /\ (n + 1) - 1 = n /\ (m + 1) - 1 = m /\ 0 + 1 = 1
    BY <1>1, <1>3
<1>5. Reduced(w, v, 1 - 1, (n + 1) - 1) /\ Part(n, 1 - 1, (n + 1) - 1)
    BY <1>1, <1>4, WithoutIs DEF n
<1>6. Given(y, u, (m + 1) - 1, w, 1 - 1, (n + 1) - 1)
    BY <1>1, <1>4, MovedAcross DEF n, m
<1> HIDE DEF v, u
<1>7. Reduced(w, v, 0, n) /\ Part(n, 0, n) /\ Given(y, u, m, w, 0, n)
    BY <1>4, <1>5, <1>6
<1>8. Passes(q, x, l, v, u, 0, n, m)
    BY <1>4, <1>7 DEF Passes, w, y, n, m
<1>9. v = <<>>
    <2>1. v \in Seq(Int) /\ Len(v) = n - (n - 0)
        BY <1>7 DEF Reduced, n
    <2>2. Len(v) = 0
        BY <1>1, <2>1
    <2>3. QED
        BY <2>1, <2>2
<1>10. Len(u) = m + n
    <2>1. Len(u) = m + (n - 0)
        BY <1>7 DEF Given, m
    <2>2. QED
        BY <1>1, <2>1
<1>11. Sound(List!Transfer(s, NodeOf(y, l, m + 1), NodeOf(w, x, 0 + 1), NodeOf(w, x, n + 1)),
             [[q EXCEPT ![x] = v] EXCEPT ![l] = u], D)
    BY <1>8, AcrossSound DEF w, y
<1>12. Sound(List!Transfer(s, l, List!Begin(s, x), x), [[q EXCEPT ![x] = v] EXCEPT ![l] = u], D)
    BY <1>2, <1>4, <1>11
<1>13. QED
    BY <1>7, <1>8, <1>9, <1>10, <1>12 DEF w, y, n, m

\* r is q with lists l and x merged in l.
Merged(p, q, D, l, x, s, r) ==
    /\ Sound(s, r, D) /\ Same(q, r, D, {l, x})
    /\ r[x] = <<>> /\ Sorted(p, r[l]) /\ Len(r[l]) = Len(q[l]) + Len(q[x])

LEMMA MergeEnds ==
    ASSUME NEW p, EachOnce(p), NEW q, NEW D, NEW l \in D, NEW x \in D, l # x, NEW c, NEW r, NEW k, NEW i,
           Merging(p, q, D, l, x, c, r, k, i), i = Len(r[l]) + 1 \/ Len(r[x]) = 0
    PROVE  \E t : Merged(p, q, D, l, x, IF c.first2 = x THEN c.s ELSE List!Transfer(c.s, l, c.first2, x), t)
<1> DEFINE w == r[x]
           y == r[l]
<1>1. /\ Sound(c.s, r, D) /\ Same(q, r, D, {l, x}) /\ Len(y) + Len(w) = Len(q[l]) + Len(q[x])
      /\ Merges(p, y, w, i) /\ c.first2 = NodeOf(w, x, 1)
    BY DEF Merging
<1>2. /\ w \in Seq(Int) /\ Len(w) \in Nat /\ y \in Seq(Int) /\ Len(y) \in Nat /\ l \in Int /\ x \in Int
      /\ r \in [D -> Seq(Int)]
    BY <1>1, Neighbours
<1>3. List!Begin(c.s, x) = NodeOf(w, x, 1) /\ \A j \in 0 .. Len(w) + 1 : NodeOf(w, x, j) = x <=> j = 0 \/ j = Len(w) + 1
    BY <1>1, Neighbours
<1>4. 1 \in 0 .. Len(w) + 1 /\ 1 # 0 /\ (1 = Len(w) + 1 <=> Len(w) = 0)
    BY <1>2
<1>5. c.first2 = x <=> Len(w) = 0
    BY <1>1, <1>3, <1>4
<1>6. CASE Len(w) = 0
    <2>1. w = <<>>
        BY <1>2, <1>6
    <2>2. Sorted(p, y)
        BY <1>1 DEF Merges
    <2>3. Len(y) = Len(q[l]) + Len(q[x])
        <3>1. Len(y) + Len(w) = Len(y)
            BY <1>2, <1>6
        <3>2. QED
            BY <1>1, <3>1
    <2>4. Merged(p, q, D, l, x, c.s, r)
        BY <1>1, <2>1, <2>2, <2>3 DEF Merged
    <2>5. QED
        BY <1>5, <1>6, <2>4
<1>7. CASE Len(w) # 0
    <2>1. i = Len(y) + 1 /\ Len(w) >= 1
        BY <1>2, <1>7
    <2>2. PICK v, u : /\ Passes(r, x, l, v, u, 0, Len(w), Len(y))
                      /\ Given(y, u, Len(y), w, 0, Len(w))
                      /\ v = <<>> /\ Len(u) = Len(y) + Len(w)
                      /\ Sound(List!Transfer(c.s, l, List!Begin(c.s, x), x), [[r EXCEPT ![x] = v] EXCEPT ![l] = u], D)
        BY <1>1, <2>1, AllPass
    <2> DEFINE t == [[r EXCEPT ![x] = v] EXCEPT ![l] = u]
    <2>3. Sorted(p, u)
        BY <1>1, <2>1, <2>2, MergeJoins
    <2>4. Same(q, t, D, {l, x})
        BY <1>1, <2>2, SamePasses, l \in {l, x}, x \in {l, x}
    <2>5. t[l] = u /\ t[x] = <<>>
        BY <1>2, <2>2
    <2>6. Sound(List!Transfer(c.s, l, c.first2, x), t, D)
        BY <1>1, <1>3, <2>2
    <2> HIDE DEF t
    <2>7. Merged(p, q, D, l, x, List!Transfer(c.s, l, c.first2, x), t)
        BY <1>1, <2>2, <2>3, <2>4, <2>5, <2>6 DEF Merged
    <2>8. QED
        BY <1>5, <1>7, <2>7
<1>8. QED
    BY <1>6, <1>7

\* merge leaves in l what both had, in order, and x empty.
LEMMA MergeIs ==
    ASSUME NEW p, EachOnce(p), NEW q, NEW D, NEW l \in D, NEW x \in D, l # x, NEW s, Sound(s, q, D),
           Merges(p, q[l], q[x], 1)
    PROVE  \E t : Merged(p, q, D, l, x, List!Merge(s, l, x), t)
<1> DEFINE m == List!Turns(s)
           loop == [of |-> "merge", l |-> l, x |-> x]
<1>1. /\ q[l] \in Seq(Int) /\ Len(q[l]) \in Nat /\ q[x] \in Seq(Int) /\ Len(q[x]) \in Nat
      /\ List!Begin(s, l) = NodeOf(q[l], l, 1) /\ List!Begin(s, x) = NodeOf(q[x], x, 1)
    BY Neighbours
<1>2. m \in Nat /\ Len(q[l]) + Len(q[x]) + 1 =< m
    BY TurnsAreEnough DEF Sound
<1>3. PICK f : /\ Turning(f, m, loop, [s |-> s, first1 |-> List!Begin(s, l), first2 |-> List!Begin(s, x)])
               /\ List!Merge(s, l, x) = IF f[m].first2 = x THEN f[m].s ELSE List!Transfer(f[m].s, l, f[m].first2, x)
    BY <1>2, MergeLoop
<1>4. \A i, c : Step(loop, i, c) = List!MergeTurn(c, l, x)
    BY DEF Step
<1> HIDE DEF loop, m
<1> DEFINE P == {k \in 0 .. m : \E r, i : Merging(p, q, D, l, x, f[k], r, k, i)}
<1>5. 0 \in P
    <2>1. f[0] = [s |-> s, first1 |-> List!Begin(s, l), first2 |-> List!Begin(s, x)]
        BY <1>3 DEF Turning
    <2>2. f[0].s = s /\ f[0].first1 = NodeOf(q[l], l, 1) /\ f[0].first2 = NodeOf(q[x], x, 1)
        BY <1>1, <2>1
    <2>3. Same(q, q, D, {l, x})
        BY DEF Same, Sound, Ringed
    <2>4. 0 + 1 = 1
        OBVIOUS
    <2>5. Merging(p, q, D, l, x, f[0], q, 0, 1)
        BY <2>2, <2>3, <2>4 DEF Merging
    <2>6. 0 \in 0 .. m
        BY <1>2
    <2>7. QED
        BY <2>5, <2>6
<1>6. ASSUME NEW k \in 0 .. m - 1, k \in P PROVE k + 1 \in P
    <2>1. PICK r, i : Merging(p, q, D, l, x, f[k], r, k, i)
        BY <1>6
    <2>2. k \in Nat /\ k + 1 \in 0 .. m
        BY <1>2
    <2>3. f[k + 1] = List!MergeTurn(f[k], l, x)
        BY <1>3, <1>4 DEF Turning
    <2>4. \E t, j : Merging(p, q, D, l, x, List!MergeTurn(f[k], l, x), t, k + 1, j)
        BY <2>1, <2>2, MergingTurn
    <2>5. QED
        BY <2>2, <2>3, <2>4
<1>7. PICK r, i : Merging(p, q, D, l, x, f[m], r, m, i)
    <2> HIDE DEF P
    <2>1. \A k \in 0 .. m : k \in P
        BY <1>2, <1>5, <1>6, Induction
    <2>2. m \in P
        BY <1>2, <2>1
    <2>3. QED
        BY <2>2 DEF P
<1>8. i = Len(r[l]) + 1 \/ Len(r[x]) = 0
    <2>1. /\ Sound(f[m].s, r, D) /\ Len(r[l]) + Len(r[x]) = Len(q[l]) + Len(q[x])
          /\ i = m + 1 \/ i = Len(r[l]) + 1 \/ Len(r[x]) = 0
        BY <1>7 DEF Merging
    <2>2. Len(r[l]) \in Nat /\ Len(r[x]) \in Nat
        BY <2>1, Neighbours
    <2>3. i \in 1 .. Len(r[l]) + 1
        BY <1>7 DEF Merging, Merges
    <2> DEFINE a == Len(r[l])
               b == Len(r[x])
               d == Len(q[l])
               e == Len(q[x])
    <2>4. a \in Nat /\ b \in Nat /\ d \in Nat /\ e \in Nat /\ a + b = d + e /\ d + e + 1 =< m /\ m \in Nat /\ i \in 1 .. a + 1
        BY <1>1, <1>2, <2>1, <2>2, <2>3
    <2> HIDE DEF a, b, d, e
    <2>5. i # m + 1
        BY <2>4
    <2>6. QED
        BY <2>1, <2>5 DEF a, b
<1>9. QED
    BY <1>3, <1>7, <1>8, MergeEnds

-----------------------------------------------------------------------------
(* Sort puts the others of a list on either side of the first. *)

\* Equal values are in the order of p, in v and between u and all of v but
\* its first place.
Ties(p, v) == \A i, j \in 1 .. Len(v) : i < j /\ List!ValueOf(v[i]) = List!ValueOf(v[j]) => List!Precedes(p, v[i], v[j])
Behind(p, u, v) ==
    \A i \in 1 .. Len(u), j \in 2 .. Len(v) :
      List!ValueOf(u[i]) = List!ValueOf(v[j]) => List!Precedes(p, u[i], v[j])

\* The second of v goes to the end of u.
SecondGoes(v, x, u, y) ==
    /\ Len(v) >= 2 /\ v \in Seq(Int) /\ u \in Seq(Int)
    /\ Reduced(v, x, 1, 2) /\ Given(u, y, Len(u), v, 1, 2)

LEMMA SecondGone ==
    ASSUME NEW v, NEW x, NEW u, NEW y, SecondGoes(v, x, u, y)
    PROVE  /\ x \in Seq(Int) /\ y \in Seq(Int) /\ Len(v) \in Nat /\ Len(u) \in Nat
           /\ Len(x) = Len(v) - 1 /\ Len(y) = Len(u) + 1
           /\ x[1] = v[1] /\ \A j \in 2 .. Len(x) : x[j] = v[j + 1] /\ j + 1 \in 1 .. Len(v)
           /\ y[Len(u) + 1] = v[2] /\ \A j \in 1 .. Len(u) : y[j] = u[j]
<1> DEFINE n == Len(v)
           e == Len(u)
<1>1. n \in Nat /\ e \in Nat /\ n >= 2 /\ 2 - 1 = 1
    BY DEF SecondGoes
<1>2. /\ x \in Seq(Int) /\ Len(x) = n - (2 - 1)
      /\ \A i \in 1 .. Len(x) : x[i] = v[IF i =< 1 THEN i ELSE i + (2 - 1)]
    BY DEF SecondGoes, Reduced
<1>3. /\ y \in Seq(Int) /\ Len(y) = e + (2 - 1)
      /\ \A i \in 1 .. Len(y) : y[i] = IF i =< e THEN u[i] ELSE IF i =< e + (2 - 1) THEN v[i - e + 1] ELSE u[i - (2 - 1)]
    BY DEF SecondGoes, Given
<1> HIDE DEF n, e
<1>4. Len(x) = n - 1 /\ Len(y) = e + 1
    BY <1>1, <1>2, <1>3
<1>5. x[1] = v[1]
    <2>1. 1 \in 1 .. Len(x) /\ 1 =< 1
        BY <1>1, <1>4
    <2>2. QED
        BY <1>2, <2>1
<1>6. ASSUME NEW j \in 2 .. Len(x) PROVE x[j] = v[j + 1] /\ j + 1 \in 1 .. n
    <2>1. j \in 1 .. Len(x) /\ ~ (j =< 1) /\ j + (2 - 1) = j + 1 /\ j + 1 \in 1 .. n
        BY <1>1, <1>4
    <2>2. QED
        BY <1>2, <2>1
<1>7. y[e + 1] = v[2]
    <2>1. e + 1 \in 1 .. Len(y) /\ ~ (e + 1 =< e) /\ e + 1 =< e + (2 - 1) /\ (e + 1) - e + 1 = 2
        BY <1>1, <1>4
    <2>2. QED
        BY <1>3, <2>1
<1>8. ASSUME NEW j \in 1 .. e PROVE y[j] = u[j]
    <2>1. j \in 1 .. Len(y) /\ j =< e
        BY <1>1, <1>4
    <2>2. QED
        BY <1>3, <2>1
<1>9. QED
    BY <1>1, <1>2, <1>3, <1>4, <1>5, <1>6, <1>7, <1>8 DEF n, e

\* Equal values stay in the order of p when the second of v goes.
LEMMA TiesKept ==
    ASSUME NEW p, NEW v, NEW x, NEW u, NEW y, SecondGoes(v, x, u, y), Ties(p, v)
    PROVE  Ties(p, x)
<1>1. /\ Len(v) \in Nat /\ Len(x) = Len(v) - 1 /\ Len(v) >= 2
      /\ x[1] = v[1] /\ \A j \in 2 .. Len(x) : x[j] = v[j + 1] /\ j + 1 \in 1 .. Len(v)
    BY SecondGone DEF SecondGoes
<1> SUFFICES ASSUME NEW i \in 1 .. Len(x), NEW j \in 1 .. Len(x), i < j,
                    List!ValueOf(x[i]) = List!ValueOf(x[j])
             PROVE  List!Precedes(p, x[i], x[j])
    BY DEF Ties
<1>2. j \in 2 .. Len(x) /\ x[j] = v[j + 1] /\ j + 1 \in 1 .. Len(v)
    BY <1>1
<1>3. CASE i = 1
    <2>1. 1 \in 1 .. Len(v) /\ 1 < j + 1 /\ x[i] = v[1]
        BY <1>1, <1>2, <1>3
    <2>2. QED
        BY <1>2, <2>1 DEF Ties
<1>4. CASE i # 1
    <2>1. i \in 2 .. Len(x) /\ i + 1 < j + 1
        BY <1>1, <1>2, <1>4
    <2>2. x[i] = v[i + 1] /\ i + 1 \in 1 .. Len(v)
        BY <1>1, <2>1
    <2>3. QED
        BY <1>2, <2>1, <2>2 DEF Ties
<1>5. QED
    BY <1>3, <1>4

LEMMA BehindKept ==
    ASSUME NEW p, NEW v, NEW x, NEW u, NEW y, SecondGoes(v, x, u, y), NEW w, Behind(p, w, v)
    PROVE  Behind(p, w, x)
<1>1. /\ Len(v) \in Nat /\ Len(x) = Len(v) - 1
      /\ \A j \in 2 .. Len(x) : x[j] = v[j + 1] /\ j + 1 \in 1 .. Len(v)
    BY SecondGone
<1>2. ASSUME NEW j \in 2 .. Len(x) PROVE x[j] = v[j + 1] /\ j + 1 \in 2 .. Len(v)
    BY <1>1
<1>3. QED
    BY <1>2 DEF Behind

LEMMA BehindGrows ==
    ASSUME NEW p, NEW v, NEW x, NEW u, NEW y, SecondGoes(v, x, u, y), Ties(p, v), Ties(p, u), Behind(p, u, v)
    PROVE  Behind(p, y, x) /\ Ties(p, y)
<1>1. /\ Len(v) \in Nat /\ Len(x) = Len(v) - 1 /\ Len(v) >= 2 /\ Len(u) \in Nat /\ Len(y) = Len(u) + 1
      /\ \A j \in 2 .. Len(x) : x[j] = v[j + 1] /\ j + 1 \in 1 .. Len(v)
      /\ y[Len(u) + 1] = v[2] /\ \A j \in 1 .. Len(u) : y[j] = u[j]
    BY SecondGone DEF SecondGoes
<1>2. ASSUME NEW j \in 2 .. Len(x) PROVE x[j] = v[j + 1] /\ j + 1 \in 2 .. Len(v) /\ 2 < j + 1
    BY <1>1
<1>3. 2 \in 1 .. Len(v) /\ 2 \in 2 .. Len(v)
    BY <1>1
<1>4. ASSUME NEW i \in 1 .. Len(y) PROVE (i \in 1 .. Len(u) /\ y[i] = u[i]) \/ (i = Len(u) + 1 /\ y[i] = v[2])
    BY <1>1
<1>5. ASSUME NEW i \in 1 .. Len(y), NEW j \in 2 .. Len(x), List!ValueOf(y[i]) = List!ValueOf(x[j])
      PROVE  List!Precedes(p, y[i], x[j])
    <2>1. CASE i \in 1 .. Len(u) /\ y[i] = u[i]
        BY <1>2, <1>5, <2>1 DEF Behind
    <2>2. CASE y[i] = v[2]
        <3>1. j + 1 \in 1 .. Len(v)
            BY <1>1
        <3>2. QED
            BY <1>2, <1>3, <1>5, <2>2, <3>1 DEF Ties
    <2>3. QED
        BY <1>4, <2>1, <2>2
<1>6. ASSUME NEW i \in 1 .. Len(y), NEW j \in 1 .. Len(y), i < j, List!ValueOf(y[i]) = List!ValueOf(y[j])
      PROVE  List!Precedes(p, y[i], y[j])
    <2>1. i \in 1 .. Len(u) /\ y[i] = u[i]
        BY <1>1, <1>6
    <2>2. CASE j \in 1 .. Len(u) /\ y[j] = u[j]
        BY <1>6, <2>1, <2>2 DEF Ties
    <2>3. CASE y[j] = v[2]
        BY <1>3, <1>6, <2>1, <2>3 DEF Behind
    <2>4. QED
        BY <1>4, <2>2, <2>3
<1>7. QED
    BY <1>5, <1>6 DEF Behind, Ties

\* u is below the first of v, w is not, and what is equal to it was behind
\* it in p.
Halved(p, v, u, w) ==
    /\ Ties(p, v) /\ Ties(p, u) /\ Ties(p, w) /\ Behind(p, u, v) /\ Behind(p, w, v)
    /\ \A i \in 1 .. Len(u) : List!ValueOf(u[i]) < List!ValueOf(v[1])
    /\ \A i \in 1 .. Len(w) : List!Sooner(p, v[1], w[i])

LEMMA LeftGrows ==
    ASSUME NEW p, NEW v, NEW x, NEW u, NEW y, NEW w, SecondGoes(v, x, u, y), Halved(p, v, u, w),
           List!ValueOf(v[2]) < List!ValueOf(v[1])
    PROVE  Halved(p, x, y, w)
<1>1. /\ Len(u) \in Nat /\ Len(y) = Len(u) + 1 /\ x[1] = v[1]
      /\ y[Len(u) + 1] = v[2] /\ \A j \in 1 .. Len(u) : y[j] = u[j]
    BY SecondGone
<1>2. Ties(p, x) /\ Behind(p, w, x) /\ Behind(p, y, x) /\ Ties(p, y)
    BY TiesKept, BehindKept, BehindGrows DEF Halved
<1>3. ASSUME NEW i \in 1 .. Len(y) PROVE List!ValueOf(y[i]) < List!ValueOf(x[1])
    <2>1. CASE i \in 1 .. Len(u)
        BY <1>1, <2>1 DEF Halved
    <2>2. CASE i = Len(u) + 1
        BY <1>1, <2>2
    <2>3. QED
        BY <1>1, <2>1, <2>2
<1>4. QED
    BY <1>1, <1>2, <1>3 DEF Halved

LEMMA RightGrows ==
    ASSUME NEW p, NEW v, NEW x, NEW u, NEW y, NEW w, SecondGoes(v, x, w, y), Halved(p, v, u, w),
           ~ (List!ValueOf(v[2]) < List!ValueOf(v[1]))
    PROVE  Halved(p, x, u, y)
<1>1. /\ Len(w) \in Nat /\ Len(y) = Len(w) + 1 /\ x[1] = v[1]
      /\ y[Len(w) + 1] = v[2] /\ \A j \in 1 .. Len(w) : y[j] = w[j]
    BY SecondGone
<1>2. Ties(p, x) /\ Behind(p, u, x) /\ Behind(p, y, x) /\ Ties(p, y)
    BY TiesKept, BehindKept, BehindGrows DEF Halved
<1>3. List!Sooner(p, v[1], v[2])
    <2>1. v \in Seq(Int) /\ Len(v) \in Nat /\ Len(v) >= 2
        BY DEF SecondGoes
    <2>2. 1 \in 1 .. Len(v) /\ 2 \in 1 .. Len(v) /\ 1 < 2
        BY <2>1
    <2>3. List!ValueOf(v[1]) \in Int /\ List!ValueOf(v[2]) \in Int
        <3>1. v[1] \in Int /\ v[2] \in Int
            BY <2>1, <2>2
        <3>2. QED
            BY <3>1, ValueIs
    <2>4. List!ValueOf(v[1]) = List!ValueOf(v[2]) => List!Precedes(p, v[1], v[2])
        BY <2>2 DEF Halved, Ties
    <2>5. QED
        BY <2>3, <2>4 DEF List!Sooner
<1>4. ASSUME NEW i \in 1 .. Len(y) PROVE List!Sooner(p, x[1], y[i])
    <2>1. CASE i \in 1 .. Len(w)
        BY <1>1, <2>1 DEF Halved
    <2>2. CASE i = Len(w) + 1
        BY <1>1, <1>3, <2>2
    <2>3. QED
        BY <1>1, <2>1, <2>2
<1>5. QED
    BY <1>1, <1>2, <1>4 DEF Halved

LEMMA SecondPasses ==
    ASSUME NEW D, NEW q, NEW s, Sound(s, q, D), NEW l \in D, NEW x \in D, x # l, Len(q[l]) >= 2
    PROVE  \E v, u : /\ Passes(q, l, x, v, u, 1, 2, Len(q[x]))
                     /\ SecondGoes(q[l], v, q[x], u)
                     /\ NodeOf(v, l, 2) = NodeOf(q[l], l, 3)
                     /\ Sound(List!SpliceRange(s, x, NodeOf(q[l], l, 2), NodeOf(q[l], l, 3)),
                              [[q EXCEPT ![l] = v] EXCEPT ![x] = u], D)
<1> DEFINE w == q[l]
           y == q[x]
           n == Len(w)
           e == Len(y)
           v == List!Without(w, 2, 3)
           u == List!PutBefore(y, e + 1, SubSeq(w, 2, 3 - 1))
<1>1. /\ w \in Seq(Int) /\ n \in Nat /\ y \in Seq(Int) /\ e \in Nat /\ l \in Int /\ x \in Int
    BY Neighbours
<1>2. NodeOf(y, x, e + 1) = x
    BY <1>1, NodesAre
<1>3. n >= 2
    OBVIOUS
<1>4. Sound(List!SpliceRange(s, NodeOf(y, x, e + 1), NodeOf(w, l, 2), NodeOf(w, l, 3)), Move(q, l, 2, 3, x, e + 1), D)
    <2> HIDE DEF n, e
    <2>1. 2 \in 1 .. n + 1 /\ 3 \in 1 .. n + 1 /\ 2 =< 3 /\ e + 1 \in 1 .. e + 1
        BY <1>1, <1>3
    <2>2. QED
        BY <2>1, RangeMoves DEF n, e
<1>5. Move(q, l, 2, 3, x, e + 1) = [[q EXCEPT ![l] = v] EXCEPT ![x] = u]
    BY DEF Move, Given2
<1> HIDE DEF w, y, n, e
<1>6. /\ 2 \in 1 .. n + 1 /\ 3 \in 1 .. n + 1 /\ 2 < 3 /\ e + 1 \in 1 .. e + 1 /\ e \in 0 .. e
      /\ 2 - 1 = 1 /\ 3 - 1 = 2 /\ (e + 1) - 1 = e
    BY <1>1, <1>3
<1>7. Reduced(w, v, 2 - 1, 3 - 1) /\ Part(n, 2 - 1, 3 - 1)
    BY <1>1, <1>6, WithoutIs DEF n
<1>8. Given(y, u, (e + 1) - 1, w, 2 - 1, 3 - 1)
    BY <1>1, <1>6, MovedAcross DEF n, e
<1> HIDE DEF v, u
<1>9. Reduced(w, v, 1, 2) /\ Part(n, 1, 2) /\ Given(y, u, e, w, 1, 2)
    BY <1>6, <1>7, <1>8
<1>10. Passes(q, l, x, v, u, 1, 2, e)
    BY <1>6, <1>9 DEF Passes, w, y, n, e
<1>11. SecondGoes(w, v, y, u)
    BY <1>1, <1>3, <1>9 DEF SecondGoes, n, e
<1>12. NodeOf(v, l, 2) = NodeOf(w, l, 3)
    <2>1. \A j \in 0 .. Len(v) + 1 : NodeOf(v, l, j) = NodeOf(w, l, IF j =< 1 THEN j ELSE j + (2 - 1))
        BY <1>1, <1>9, TakenNodes DEF n
    <2>2. Len(v) = n - 1 /\ v \in Seq(Int)
        BY <1>11, SecondGone DEF n
    <2>3. 2 \in 0 .. Len(v) + 1 /\ ~ (2 =< 1) /\ 2 + (2 - 1) = 3
        BY <1>1, <1>3, <2>2
    <2>4. QED
        BY <2>1, <2>3
<1>13. Sound(List!SpliceRange(s, x, NodeOf(w, l, 2), NodeOf(w, l, 3)), [[q EXCEPT ![l] = v] EXCEPT ![x] = u], D)
    BY <1>2, <1>4, <1>5
<1>14. QED
    BY <1>10, <1>11, <1>12, <1>13 DEF w, y, e

\* After k turns.
Thirds(D, l, left, right) == /\ l \in D /\ left \in D /\ right \in D
                             /\ l # left /\ l # right /\ left # right
Splitting(p, q, D, l, left, right, c, r, k) ==
    /\ Sound(c.s, r, D) /\ Same(q, r, D, {l, left, right})
    /\ Len(r[l]) >= 1 /\ r[l][1] = q[l][1]
    /\ Len(r[l]) + Len(r[left]) + Len(r[right]) = Len(q[l])
    /\ Halved(p, r[l], r[left], r[right])
    /\ c.iter = NodeOf(r[l], l, 2)
    /\ Len(r[l]) + k = Len(q[l]) \/ Len(r[l]) = 1

LEMMA SecondIsEnd ==
    ASSUME NEW D, NEW q, NEW s, Sound(s, q, D), NEW l \in D
    PROVE  Len(q[l]) = 1 => NodeOf(q[l], l, 2) = l
<1>1. /\ Len(q[l]) \in Nat
      /\ \A j \in 0 .. Len(q[l]) + 1 : NodeOf(q[l], l, j) = l <=> j = 0 \/ j = Len(q[l]) + 1
    BY Neighbours
<1>2. Len(q[l]) + 1 \in 0 .. Len(q[l]) + 1
    BY <1>1
<1>3. NodeOf(q[l], l, Len(q[l]) + 1) = l
    BY <1>1, <1>2
<1>4. QED
    BY <1>3

LEMMA SplittingStops ==
    ASSUME NEW p, NEW q, NEW D, NEW l, NEW left, NEW right, Thirds(D, l, left, right), NEW c, NEW r, NEW k,
           Splitting(p, q, D, l, left, right, c, r, k), Len(r[l]) = 1
    PROVE  List!SplitTurn(c, l, left, right) = c /\ Splitting(p, q, D, l, left, right, c, r, k + 1)
<1>1. Sound(c.s, r, D) /\ l \in D /\ c.iter = NodeOf(r[l], l, 2)
    BY DEF Splitting, Thirds
<1>2. c.iter = l
    BY <1>1, SecondIsEnd
<1>3. List!SplitTurn(c, l, left, right) = c
    BY <1>2 DEF List!SplitTurn
<1>4. QED
    BY <1>3 DEF Splitting

\* Every turn puts the second of l at the end of left or right.
LEMMA SplittingTurn ==
    ASSUME NEW p, NEW q, NEW D, NEW l, NEW left, NEW right, Thirds(D, l, left, right), NEW c, NEW r, NEW k \in Nat,
           Splitting(p, q, D, l, left, right, c, r, k)
    PROVE  \E t : Splitting(p, q, D, l, left, right, List!SplitTurn(c, l, left, right), t, k + 1)
<1>1. CASE Len(r[l]) = 1
    <2>1. List!SplitTurn(c, l, left, right) = c /\ Splitting(p, q, D, l, left, right, c, r, k + 1)
        BY <1>1, SplittingStops
    <2>2. QED
        BY <2>1
<1>2. CASE Len(r[l]) # 1
    <2> DEFINE w == r[l]
               S == {l, left, right}
    <2>1. l \in D /\ left \in D /\ right \in D /\ l # left /\ l # right /\ left # right
        BY DEF Thirds
    <2>2. /\ Sound(c.s, r, D) /\ Same(q, r, D, S)
          /\ Len(w) >= 1 /\ w[1] = q[l][1] /\ Len(w) + Len(r[left]) + Len(r[right]) = Len(q[l])
          /\ Halved(p, w, r[left], r[right]) /\ c.iter = NodeOf(w, l, 2) /\ Len(w) + k = Len(q[l])
        BY <1>2 DEF Splitting
    <2>3. /\ w \in Seq(Int) /\ Len(w) \in Nat /\ r \in [D -> Seq(Int)] /\ l \in Int
          /\ List!Begin(c.s, l) = NodeOf(w, l, 1)
          /\ \A j \in 0 .. Len(w) : List!At(c.s, NodeOf(w, l, j), "next") = NodeOf(w, l, j + 1)
          /\ \A j \in 0 .. Len(w) + 1 : NodeOf(w, l, j) = l <=> j = 0 \/ j = Len(w) + 1
        BY <2>1, <2>2, Neighbours
    <2>4. \A j \in 1 .. Len(w) : NodeOf(w, l, j) = w[j]
        BY <2>3, NodesAre
    <2>5. Len(w) # 1
        BY <1>2
    <2> HIDE DEF w
    <2>6. /\ Len(w) >= 2 /\ 1 \in 1 .. Len(w) /\ 2 \in 1 .. Len(w) /\ 2 \in 0 .. Len(w) /\ 2 + 1 = 3
          /\ 2 \in 0 .. Len(w) + 1 /\ 2 # 0 /\ 2 # Len(w) + 1
        <3>1. Len(w) \in Nat
            BY <2>3
        <3>2. Len(w) >= 1
            BY <2>2
        <3> DEFINE n == Len(w)
        <3>3. n \in Nat /\ n >= 1 /\ n # 1
            BY <2>5, <3>1, <3>2
        <3> HIDE DEF n
        <3>4. /\ n >= 2 /\ 1 \in 1 .. n /\ 2 \in 1 .. n /\ 2 \in 0 .. n /\ 2 + 1 = 3
              /\ 2 \in 0 .. n + 1 /\ 2 # 0 /\ 2 # n + 1
            BY <3>3
        <3>5. QED
            BY <3>4 DEF n
    <2>7. /\ c.iter = w[2] /\ c.iter # l /\ List!Begin(c.s, l) = w[1]
          /\ List!At(c.s, c.iter, "next") = NodeOf(w, l, 3)
        BY <2>2, <2>3, <2>4, <2>6
    <2>8. Len(r[left]) \in Nat /\ Len(r[right]) \in Nat
        BY <2>1, <2>3
    <2>9. CASE List!ValueOf(w[2]) < List!ValueOf(w[1])
        <3> DEFINE t == [s |-> List!SpliceRange(c.s, left, c.iter, List!At(c.s, c.iter, "next")),
                         iter |-> List!At(c.s, c.iter, "next")]
        <3>1. List!SplitTurn(c, l, left, right) = t
            BY <2>7, <2>9 DEF List!SplitTurn
        <3>2. PICK v, u : /\ Passes(r, l, left, v, u, 1, 2, Len(r[left]))
                          /\ SecondGoes(w, v, r[left], u)
                          /\ NodeOf(v, l, 2) = NodeOf(w, l, 3)
                          /\ Sound(List!SpliceRange(c.s, left, NodeOf(w, l, 2), NodeOf(w, l, 3)),
                                   [[r EXCEPT ![l] = v] EXCEPT ![left] = u], D)
            BY <2>1, <2>2, <2>6, SecondPasses DEF w
        <3> DEFINE m == [[r EXCEPT ![l] = v] EXCEPT ![left] = u]
        <3>3. m[l] = v /\ m[left] = u /\ m[right] = r[right]
            BY <2>1, <2>3
        <3>4. Halved(p, v, u, r[right])
            BY <2>2, <2>9, <3>2, LeftGrows
        <3>5. Same(q, m, D, S)
            BY <2>1, <2>2, <3>2, SamePasses, l \in S, left \in S
        <3>6. /\ Len(v) = Len(w) - 1 /\ Len(u) = Len(r[left]) + 1 /\ v[1] = w[1]
            BY <3>2, SecondGone
        <3>7. /\ t.s = List!SpliceRange(c.s, left, NodeOf(w, l, 2), NodeOf(w, l, 3))
              /\ t.iter = NodeOf(v, l, 2)
            BY <2>2, <2>7, <3>2
        <3>8. Sound(t.s, m, D)
            BY <3>2, <3>7
        <3>9. /\ Len(v) >= 1 /\ Len(v) + Len(u) + Len(r[right]) = Len(q[l])
              /\ Len(v) + (k + 1) = Len(q[l])
            <4> DEFINE a == Len(v)
                       b == Len(u)
                       d == Len(w)
                       e == Len(r[left])
                       g == Len(r[right])
                       n == Len(q[l])
            <4>1. /\ a = d - 1 /\ b = e + 1 /\ d >= 2 /\ d \in Nat /\ e \in Nat /\ g \in Nat
                  /\ d + e + g = n /\ d + k = n
                BY <2>2, <2>3, <2>6, <2>8, <3>6
            <4> HIDE DEF a, b, d, e, g, n
            <4>2. a >= 1 /\ a + b + g = n /\ a + (k + 1) = n
                BY <4>1
            <4>3. QED
                BY <4>2 DEF a, b, d, e, g, n
        <3> HIDE DEF t, m
        <3>10. Splitting(p, q, D, l, left, right, t, m, k + 1)
            BY <2>2, <3>3, <3>4, <3>5, <3>6, <3>7, <3>8, <3>9 DEF Splitting
        <3>11. QED
            BY <3>1, <3>10
    <2>10. CASE ~ (List!ValueOf(w[2]) < List!ValueOf(w[1]))
        <3> DEFINE t == [s |-> List!SpliceRange(c.s, right, c.iter, List!At(c.s, c.iter, "next")),
                         iter |-> List!At(c.s, c.iter, "next")]
        <3>1. List!SplitTurn(c, l, left, right) = t
            BY <2>7, <2>10 DEF List!SplitTurn
        <3>2. PICK v, u : /\ Passes(r, l, right, v, u, 1, 2, Len(r[right]))
                          /\ SecondGoes(w, v, r[right], u)
                          /\ NodeOf(v, l, 2) = NodeOf(w, l, 3)
                          /\ Sound(List!SpliceRange(c.s, right, NodeOf(w, l, 2), NodeOf(w, l, 3)),
                                   [[r EXCEPT ![l] = v] EXCEPT ![right] = u], D)
            BY <2>1, <2>2, <2>6, SecondPasses DEF w
        <3> DEFINE m == [[r EXCEPT ![l] = v] EXCEPT ![right] = u]
        <3>3. m[l] = v /\ m[right] = u /\ m[left] = r[left]
            BY <2>1, <2>3
        <3>4. Halved(p, v, r[left], u)
            BY <2>2, <2>10, <3>2, RightGrows
        <3>5. Same(q, m, D, S)
            BY <2>1, <2>2, <3>2, SamePasses, l \in S, right \in S
        <3>6. /\ Len(v) = Len(w) - 1 /\ Len(u) = Len(r[right]) + 1 /\ v[1] = w[1]
            BY <3>2, SecondGone
        <3>7. /\ t.s = List!SpliceRange(c.s, right, NodeOf(w, l, 2), NodeOf(w, l, 3))
              /\ t.iter = NodeOf(v, l, 2)
            BY <2>2, <2>7, <3>2
        <3>8. Sound(t.s, m, D)
            BY <3>2, <3>7
        <3>9. /\ Len(v) >= 1 /\ Len(v) + Len(r[left]) + Len(u) = Len(q[l])
              /\ Len(v) + (k + 1) = Len(q[l])
            <4> DEFINE a == Len(v)
                       b == Len(u)
                       d == Len(w)
                       e == Len(r[right])
                       g == Len(r[left])
                       n == Len(q[l])
            <4>1. /\ a = d - 1 /\ b = e + 1 /\ d >= 2 /\ d \in Nat /\ e \in Nat /\ g \in Nat
                  /\ d + g + e = n /\ d + k = n
                BY <2>2, <2>3, <2>6, <2>8, <3>6
            <4> HIDE DEF a, b, d, e, g, n
            <4>2. a >= 1 /\ a + g + b = n /\ a + (k + 1) = n
                BY <4>1
            <4>3. QED
                BY <4>2 DEF a, b, d, e, g, n
        <3> HIDE DEF t, m
        <3>10. Splitting(p, q, D, l, left, right, t, m, k + 1)
            BY <2>2, <3>3, <3>4, <3>5, <3>6, <3>7, <3>8, <3>9 DEF Splitting
        <3>11. QED
            BY <3>1, <3>10
    <2>11. QED
        BY <2>9, <2>10
<1>3. QED
    BY <1>1, <1>2

\* r is q with the elements of l but for its first in left or right.
Parted(p, q, D, l, left, right, s, r) ==
    /\ Sound(s, r, D) /\ Same(q, r, D, {l, left, right})
    /\ Len(r[l]) = 1 /\ r[l][1] = q[l][1]
    /\ Len(r[left]) + Len(r[right]) + 1 = Len(q[l])
    /\ Halved(p, r[l], r[left], r[right])

\* The first stays, smaller ones are left and the others right, in order.
LEMMA SplitIs ==
    ASSUME NEW p, NEW q, NEW D, NEW l, NEW left, NEW right, Thirds(D, l, left, right), NEW s, Sound(s, q, D),
           Len(q[l]) >= 1, q[left] = <<>>, q[right] = <<>>, Ties(p, q[l])
    PROVE  \E r : Parted(p, q, D, l, left, right, List!Split(s, l, left, right), r)
<1> DEFINE m == List!Turns(s)
           loop == [of |-> "split", l |-> l, left |-> left, right |-> right]
           n == Len(q[l])
<1>1. l \in D /\ left \in D /\ right \in D /\ l # left /\ l # right /\ left # right
    BY DEF Thirds
<1>2. /\ q[l] \in Seq(Int) /\ n \in Nat /\ n >= 1
      /\ List!Begin(s, l) = NodeOf(q[l], l, 1)
      /\ \A j \in 0 .. n : List!At(s, NodeOf(q[l], l, j), "next") = NodeOf(q[l], l, j + 1)
    BY <1>1, Neighbours
<1>3. m \in Nat /\ n + 1 =< m
    BY <1>1, TurnsAreEnough DEF Sound
<1>4. PICK f : /\ Turning(f, m, loop, [s |-> s, iter |-> List!At(s, List!Begin(s, l), "next")])
               /\ List!Split(s, l, left, right) = f[m].s
    BY <1>3, SplitLoop
<1>5. \A i, c : Step(loop, i, c) = List!SplitTurn(c, l, left, right)
    BY DEF Step
<1> HIDE DEF loop, m, n
<1> DEFINE P == {k \in 0 .. m : \E r : Splitting(p, q, D, l, left, right, f[k], r, k)}
<1>6. 0 \in P
    <2>1. f[0] = [s |-> s, iter |-> List!At(s, List!Begin(s, l), "next")]
        BY <1>4 DEF Turning
    <2>2. 1 \in 0 .. n /\ 1 + 1 = 2 /\ n + 0 = n
        BY <1>2
    <2>3. f[0].s = s /\ f[0].iter = NodeOf(q[l], l, 2)
        BY <1>2, <2>1, <2>2
    <2>4. Same(q, q, D, {l, left, right})
        BY <1>1 DEF Same, Sound, Ringed
    <2>5. Len(<<>>) = 0 /\ n + 0 + 0 = n
        BY <1>2
    <2>6. Halved(p, q[l], <<>>, <<>>)
        BY DEF Halved, Ties, Behind
    <2>7. Splitting(p, q, D, l, left, right, f[0], q, 0)
        BY <1>2, <2>2, <2>3, <2>4, <2>5, <2>6 DEF Splitting, n
    <2>8. 0 \in 0 .. m
        BY <1>3
    <2>9. QED
        BY <2>7, <2>8
<1>7. ASSUME NEW k \in 0 .. m - 1, k \in P PROVE k + 1 \in P
    <2>1. PICK r : Splitting(p, q, D, l, left, right, f[k], r, k)
        BY <1>7
    <2>2. k \in Nat /\ k + 1 \in 0 .. m
        BY <1>3
    <2>3. f[k + 1] = List!SplitTurn(f[k], l, left, right)
        BY <1>4, <1>5 DEF Turning
    <2>4. \E t : Splitting(p, q, D, l, left, right, List!SplitTurn(f[k], l, left, right), t, k + 1)
        BY <2>1, <2>2, SplittingTurn
    <2>5. QED
        BY <2>2, <2>3, <2>4
<1>8. PICK r : Splitting(p, q, D, l, left, right, f[m], r, m)
    <2> HIDE DEF P
    <2>1. \A k \in 0 .. m : k \in P
        BY <1>3, <1>6, <1>7, Induction
    <2>2. m \in P
        BY <1>3, <2>1
    <2>3. QED
        BY <2>2 DEF P
<1>9. Sound(f[m].s, r, D) /\ Len(r[l]) >= 1 /\ (Len(r[l]) + m = n \/ Len(r[l]) = 1)
    BY <1>8 DEF Splitting, n
<1>10. Len(r[l]) = 1
    <2>1. Len(r[l]) \in Nat
        BY <1>1, <1>9, Neighbours
    <2>2. Len(r[l]) + m # n
        BY <1>2, <1>3, <1>9, <2>1
    <2>3. QED
        BY <1>9, <2>2
<1>11. Len(r[left]) + Len(r[right]) + 1 = Len(q[l])
    <2>1. Len(r[l]) + Len(r[left]) + Len(r[right]) = Len(q[l])
        BY <1>8 DEF Splitting
    <2>2. Len(r[left]) \in Nat /\ Len(r[right]) \in Nat
        BY <1>1, <1>9, Neighbours
    <2> DEFINE a == Len(r[left])
               b == Len(r[right])
               e == Len(q[l])
    <2>3. 1 + a + b = e /\ a \in Nat /\ b \in Nat
        BY <1>10, <2>1, <2>2
    <2> HIDE DEF a, b, e
    <2>4. a + b + 1 = e
        BY <2>3
    <2>5. QED
        BY <2>4 DEF a, b, e
<1>12. Parted(p, q, D, l, left, right, f[m].s, r)
    BY <1>8, <1>10, <1>11 DEF Splitting, Parted
<1>13. QED
    BY <1>4, <1>12

-----------------------------------------------------------------------------
(* The rings that a call of sort brings. *)

\* A sentinel of its own with an empty ring, got and put again.
LEMMA GrownSound ==
    ASSUME NEW D, NEW q, NEW s, Sound(s, q, D), NEW x \in Int, x < 0, x \notin D
    PROVE  /\ Sound(List!GetNode(s, x), Widened(q, D, x), D \cup {x})
           /\ x \notin Cells(q, D)
           /\ Cells(Widened(q, D, x), D \cup {x}) = Cells(q, D) \cup {x}
<1>1. Apart(q, D) /\ Ringed(s, q, D) /\ Positive(q, D)
    BY DEF Sound, Ringed
<1>2. q \in [D -> Seq(Int)]
    BY <1>1 DEF Apart
<1>3. x \notin Cells(q, D)
    <2>1. ASSUME NEW l \in D, NEW i \in 1 .. Len(q[l]), q[l][i] = x PROVE FALSE
        <3>1. q[l][i] > 0
            BY <1>1 DEF Positive
        <3>2. QED
            BY <2>1, <3>1
    <2>2. QED
        BY <2>1 DEF Cells
<1>4. Ringed(List!GetNode(s, x), Widened(q, D, x), D \cup {x})
    BY <1>1, <1>3, GetRing
<1>5. Cells(Widened(q, D, x), D \cup {x}) = Cells(q, D) \cup {x}
    BY <1>1, <1>3, GetRing
<1>6. Positive(Widened(q, D, x), D \cup {x})
    <2>1. ASSUME NEW l \in D \cup {x}, NEW i \in 1 .. Len(Widened(q, D, x)[l]) PROVE Widened(q, D, x)[l][i] > 0
        <3>1. CASE l = x
            <4>1. Widened(q, D, x)[l] = <<>>
                BY <3>1 DEF Widened
            <4>2. QED
                BY <4>1
        <3>2. CASE l # x
            <4>1. Widened(q, D, x)[l] = q[l] /\ l \in D
                BY <3>2 DEF Widened
            <4>2. QED
                BY <1>1, <4>1 DEF Positive
        <3>3. QED
            BY <3>1, <3>2
    <2>2. QED
        BY <2>1 DEF Positive
<1>7. QED
    BY <1>3, <1>4, <1>5, <1>6 DEF Sound

LEMMA ShrunkSound ==
    ASSUME NEW D, NEW q, NEW s, Sound(s, q, D), NEW x \in D, q[x] = <<>>
    PROVE  /\ Sound(List!PutNode(s, x), Shrunk(q, D, x), D \ {x})
           /\ Cells(Shrunk(q, D, x), D \ {x}) = Cells(q, D) \ {x}
<1>1. Apart(q, D) /\ Ringed(s, q, D) /\ Positive(q, D)
    BY DEF Sound, Ringed
<1>2. Ringed(List!PutNode(s, x), Shrunk(q, D, x), D \ {x})
    BY <1>1, PutRing
<1>3. Cells(Shrunk(q, D, x), D \ {x}) = Cells(q, D) \ {x}
    BY <1>1, PutRing
<1>4. \A l \in D \ {x} : Shrunk(q, D, x)[l] = q[l]
    BY DEF Shrunk
<1>5. Positive(Shrunk(q, D, x), D \ {x})
    BY <1>1, <1>4 DEF Positive
<1>6. QED
    BY <1>2, <1>3, <1>5 DEF Sound

\* What was the same but for a list that came stays so when it is gone.
LEMMA SameShrunk ==
    ASSUME NEW D, NEW q, NEW s, Sound(s, q, D), NEW x \in Int, x < 0, x \notin D,
           NEW r, NEW t, Sound(t, r, D \cup {x}), r[x] = <<>>, NEW S, S \subseteq D,
           Same(Widened(q, D, x), r, D \cup {x}, S \cup {x})
    PROVE  /\ Same(q, Shrunk(r, D \cup {x}, x), D, S)
           /\ Sound(List!PutNode(t, x), Shrunk(r, D \cup {x}, x), D)
           /\ \A d \in D : Shrunk(r, D \cup {x}, x)[d] = r[d]
<1> DEFINE E == D \cup {x}
           k == Shrunk(r, E, x)
           g == Widened(q, D, x)
<1>1. E \ {x} = D /\ x \in E
    OBVIOUS
<1>2. x \notin Cells(q, D) /\ Cells(g, E) = Cells(q, D) \cup {x}
    BY GrownSound
<1>3. Sound(List!PutNode(t, x), k, E \ {x}) /\ Cells(k, E \ {x}) = Cells(r, E) \ {x}
    BY <1>1, ShrunkSound
<1>4. Sound(List!PutNode(t, x), k, D) /\ Cells(k, D) = Cells(r, E) \ {x}
    BY <1>1, <1>3
<1>5. \A d \in D : k[d] = r[d] /\ g[d] = q[d]
    BY DEF Shrunk, Widened
<1>6. Apart(q, D) /\ Apart(k, D)
    BY <1>4 DEF Sound, Ringed
<1> HIDE DEF k, g
<1>7. \A z \in Int : z \in Cells(r, E) <=> z \in Cells(g, E)
    BY DEF Same, g
<1>8. \A z \in Int : z \in Cells(k, D) <=> z \in Cells(q, D)
    BY <1>2, <1>4, <1>7
<1>9. ASSUME NEW d \in D, d \notin S PROVE k[d] = q[d]
    <2>1. r[d] = g[d]
        BY <1>9 DEF Same, g
    <2>2. QED
        BY <1>5, <2>1
<1>10. Same(q, k, D, S)
    BY <1>6, <1>8, <1>9 DEF Same
<1>11. QED
    BY <1>4, <1>5, <1>10 DEF k

LEMMA SameThrough ==
    ASSUME NEW D, NEW S, NEW T, NEW q, NEW r, NEW t, Same(q, r, D, S), Same(r, t, D, T)
    PROVE  Same(q, t, D, S \cup T)
BY DEF Same

LEMMA SameWider ==
    ASSUME NEW D, NEW S, NEW T, NEW q, NEW r, Same(q, r, D, S), S \subseteq T, T \subseteq D
    PROVE  Same(q, r, D, T)
BY DEF Same

\* A list alone keeps its elements.
LEMMA SameList ==
    ASSUME NEW D, NEW l, NEW q, NEW r, Same(q, r, D, {l}), NEW z \in Int
    PROVE  Among(z, q[l]) <=> Among(z, r[l])
<1>1. InOne(z, q, {l}) <=> InOne(z, r, {l})
    BY SameContent
<1>2. QED
    BY <1>1 DEF InOne

-----------------------------------------------------------------------------
(* Sort puts the parts together. *)

\* What is in u comes before the only element of v, and what is in w after.
Joins(p, v, u, w) ==
    /\ v \in Seq(Int) /\ u \in Seq(Int) /\ w \in Seq(Int) /\ Len(v) = 1
    /\ Sorted(p, u) /\ Sorted(p, w)
    /\ \A z \in Int : Among(z, u) => List!ValueOf(z) < List!ValueOf(v[1])
    /\ \A z \in Int : Among(z, w) => List!Sooner(p, v[1], z)

LEMMA FirstIs ==
    ASSUME NEW v \in Seq(Int), Len(v) = 1
    PROVE  v[1] \in Int
<1>1. \A i \in 1 .. Len(v) : v[i] \in Int
    OBVIOUS
<1>2. 1 \in 1 .. Len(v)
    OBVIOUS
<1>3. QED
    BY <1>1, <1>2

LEMMA JoinMerges ==
    ASSUME NEW p, NEW v, NEW u, NEW w, Joins(p, v, u, w)
    PROVE  Merges(p, v, u, 1)
<1>1. /\ v \in Seq(Int) /\ u \in Seq(Int) /\ Len(v) = 1 /\ Sorted(p, u) /\ Len(u) \in Nat
      /\ \A z \in Int : Among(z, u) => List!ValueOf(z) < List!ValueOf(v[1])
    BY DEF Joins
<1>2. v[1] \in Int
    BY FirstIs DEF Joins
<1>3. Sorted(p, v)
    <2>1. ASSUME NEW i \in 1 .. 1, NEW j \in 1 .. 1, i < j PROVE FALSE
        BY <2>1
    <2>2. QED
        BY <1>1, <2>1 DEF Sorted
<1>4. ASSUME NEW j \in 1 .. Len(v), NEW k \in 1 .. Len(u)
      PROVE  /\ ~ (j < 1)
             /\ ~ (List!ValueOf(v[j]) =< List!ValueOf(u[k]))
    <2>1. j = 1 /\ ~ (j < 1)
        BY <1>1
    <2>2. u[k] \in Int /\ Among(u[k], u)
        BY <1>1 DEF Among
    <2>3. List!ValueOf(u[k]) < List!ValueOf(v[1])
        BY <1>1, <2>2
    <2>4. List!ValueOf(u[k]) \in Int /\ List!ValueOf(v[1]) \in Int
        BY <1>2, <2>2, ValueIs
    <2>5. QED
        BY <2>1, <2>3, <2>4
<1>5. 1 \in 1 .. Len(v) + 1
    BY <1>1
<1>6. QED
    BY <1>1, <1>3, <1>4, <1>5 DEF Merges

\* After the merge, before the splice.
LEMMA JoinFollows ==
    ASSUME NEW p, EachOnce(p), NEW v, NEW u, NEW w, Joins(p, v, u, w), NEW y \in Seq(Int), Sorted(p, y),
           \A z \in Int : Among(z, y) => Among(z, v) \/ Among(z, u)
    PROVE  Merges(p, y, w, Len(y) + 1)
<1>1. /\ v \in Seq(Int) /\ w \in Seq(Int) /\ Len(v) = 1 /\ Sorted(p, w) /\ Len(w) \in Nat
      /\ \A z \in Int : Among(z, u) => List!ValueOf(z) < List!ValueOf(v[1])
      /\ \A z \in Int : Among(z, w) => List!Sooner(p, v[1], z)
    BY DEF Joins
<1>2. v[1] \in Int /\ Len(y) \in Nat
    BY FirstIs DEF Joins
<1>3. ASSUME NEW j \in 1 .. Len(y), NEW k \in 1 .. Len(w) PROVE List!Sooner(p, y[j], w[k])
    <2>1. y[j] \in Int /\ w[k] \in Int /\ Among(y[j], y) /\ Among(w[k], w)
        BY <1>1 DEF Among
    <2>2. List!Sooner(p, v[1], w[k])
        BY <1>1, <2>1
    <2>3. CASE Among(y[j], v)
        <3>1. PICK i \in 1 .. Len(v) : v[i] = y[j]
            BY <2>3 DEF Among
        <3>2. i = 1
            BY <1>1
        <3>3. QED
            BY <2>2, <3>1, <3>2
    <2>4. CASE Among(y[j], u)
        <3>1. List!ValueOf(y[j]) < List!ValueOf(v[1])
            BY <1>1, <2>1, <2>4
        <3>2. List!Sooner(p, y[j], v[1])
            BY <3>1 DEF List!Sooner
        <3>3. QED
            BY <1>2, <2>1, <2>2, <3>2, SoonerIs
    <2>5. QED
        BY <2>1, <2>3, <2>4
<1>4. \A j \in 1 .. Len(y) : ~ (j >= Len(y) + 1)
    BY <1>2
<1>5. Len(y) + 1 \in 1 .. Len(y) + 1
    BY <1>2
<1>6. QED
    BY <1>1, <1>3, <1>4, <1>5 DEF Merges

\* The parts are together in l.
Together(p, q, D, l, left, right, s, r) ==
    /\ Sound(s, r, D) /\ Same(q, r, D, {l, left, right})
    /\ r[left] = <<>> /\ r[right] = <<>>
    /\ Sorted(p, r[l]) /\ Len(r[l]) = Len(q[l]) + Len(q[left]) + Len(q[right])

\* merge and splice put the sorted parts around the first.
LEMMA JoinIs ==
    ASSUME NEW p, EachOnce(p), NEW q, NEW D, NEW l, NEW left, NEW right, Thirds(D, l, left, right), NEW s,
           Sound(s, q, D), Joins(p, q[l], q[left], q[right])
    PROVE  \E r : Together(p, q, D, l, left, right, List!Splice(List!Merge(s, l, left), l, right), r)
<1>1. l \in D /\ left \in D /\ right \in D /\ l # left /\ l # right /\ left # right
    BY DEF Thirds
<1>2. Merges(p, q[l], q[left], 1)
    BY JoinMerges
<1>3. PICK t : Merged(p, q, D, l, left, List!Merge(s, l, left), t)
    BY <1>1, <1>2, MergeIs
<1> DEFINE m == List!Merge(s, l, left)
<1> HIDE DEF m
<1>4. /\ Sound(m, t, D) /\ Same(q, t, D, {l, left}) /\ t[left] = <<>> /\ Sorted(p, t[l])
      /\ Len(t[l]) = Len(q[l]) + Len(q[left])
    BY <1>3 DEF Merged, m
<1>5. t[right] = q[right]
    BY <1>1, <1>4 DEF Same
<1>6. t[l] \in Seq(Int) /\ t \in [D -> Seq(Int)] /\ Len(t[right]) \in Nat /\ t[right] \in Seq(Int)
    BY <1>1, <1>4, Neighbours
<1>7. ASSUME NEW z \in Int, Among(z, t[l]) PROVE Among(z, q[l]) \/ Among(z, q[left])
    <2>1. InOne(z, q, {l, left}) <=> InOne(z, t, {l, left})
        BY <1>4, SameContent
    <2>2. InOne(z, t, {l, left})
        BY <1>7 DEF InOne
    <2>3. QED
        BY <2>1, <2>2 DEF InOne
<1>8. Merges(p, t[l], t[right], Len(t[l]) + 1)
    BY <1>4, <1>5, <1>6, <1>7, JoinFollows
<1>9. {l, left} \cup {l, right} = {l, left, right} /\ l \in {l, right} /\ right \in {l, right}
      /\ {l, left, right} \subseteq D /\ {l, left} \subseteq {l, left, right}
    BY <1>1
<1>10. CASE Len(t[right]) = 0
    <2>1. t[right] = <<>>
        BY <1>6, <1>10
    <2>2. List!Begin(m, right) = right
        <3>1. List!Begin(m, right) = NodeOf(t[right], right, 1)
            BY <1>1, <1>4, Neighbours
        <3>2. NodeOf(t[right], right, 1) = right
            <4>1. right \in Int
                BY <1>1, <1>4, Neighbours
            <4>2. NodeOf(t[right], right, Len(t[right]) + 1) = right
                BY <1>6, <4>1, NodesAre
            <4>3. Len(t[right]) + 1 = 1
                BY <1>10
            <4>4. QED
                BY <4>2, <4>3
        <3>3. QED
            BY <3>1, <3>2
    <2>3. List!Splice(m, l, right) = m
        BY <2>2 DEF List!Splice, List!Transfer
    <2>4. Same(q, t, D, {l, left, right})
        BY <1>4, <1>9, SameWider
    <2>5. Len(t[l]) = Len(q[l]) + Len(q[left]) + Len(q[right])
        <3>1. Len(q[right]) = 0
            BY <1>5, <1>10
        <3>2. Len(t[l]) \in Nat
            BY <1>6
        <3>3. QED
            BY <1>4, <3>1, <3>2
    <2>6. Together(p, q, D, l, left, right, m, t)
        BY <1>4, <2>1, <2>4, <2>5 DEF Together
    <2>7. QED
        BY <2>3, <2>6 DEF m
<1>11. CASE Len(t[right]) # 0
    <2>1. Len(t[right]) >= 1
        BY <1>6, <1>11
    <2>2. PICK v, u : /\ Passes(t, right, l, v, u, 0, Len(t[right]), Len(t[l]))
                      /\ Given(t[l], u, Len(t[l]), t[right], 0, Len(t[right]))
                      /\ v = <<>> /\ Len(u) = Len(t[l]) + Len(t[right])
                      /\ Sound(List!Transfer(m, l, List!Begin(m, right), right),
                               [[t EXCEPT ![right] = v] EXCEPT ![l] = u], D)
        BY <1>1, <1>4, <2>1, AllPass
    <2> DEFINE r == [[t EXCEPT ![right] = v] EXCEPT ![l] = u]
    <2>3. r[l] = u /\ r[right] = <<>> /\ r[left] = <<>>
        BY <1>1, <1>4, <1>6, <2>2
    <2>4. Sorted(p, u)
        BY <1>8, <2>2, MergeJoins
    <2>5. Same(t, t, D, {l, right})
        BY <1>1, <1>4 DEF Same, Sound, Ringed
    <2>6. Same(t, r, D, {l, right})
        BY <1>1, <1>9, <2>2, <2>5, SamePasses
    <2>7. Sound(List!Splice(m, l, right), r, D)
        BY <2>2 DEF List!Splice
    <2> HIDE DEF r
    <2>8. Same(q, r, D, {l, left, right})
        <3>1. Same(q, r, D, {l, left} \cup {l, right})
            BY <1>4, <2>6, SameThrough
        <3>2. QED
            BY <1>9, <3>1
    <2>9. Len(u) = Len(q[l]) + Len(q[left]) + Len(q[right])
        BY <1>4, <1>5, <2>2
    <2>10. Together(p, q, D, l, left, right, List!Splice(m, l, right), r)
        BY <2>3, <2>4, <2>7, <2>8, <2>9 DEF Together
    <2>11. QED
        BY <2>10 DEF m
<1>12. QED
    BY <1>10, <1>11

-----------------------------------------------------------------------------
(* The calls of sort. *)

\* x is the innermost of the calls c, rest are the others.
Stacked(c, x, rest) == c # <<>> /\ Head(c) = x /\ Tail(c) = rest

LEMMA CallsStack ==
    ASSUME NEW R, NEW rest \in Seq(R), NEW x \in R, NEW y \in R, NEW z \in R
    PROVE  \E t1, t2 \in Seq(R) : /\ Stacked(<<x, y, z>> \o rest, x, t1)
                                  /\ Stacked(t1, y, t2) /\ Stacked(t2, z, rest)
<1> DEFINE t1 == <<y, z>> \o rest
           t2 == <<z>> \o rest
<1>1. t1 \in Seq(R) /\ t2 \in Seq(R)
    OBVIOUS
<1>2. Stacked(<<x, y, z>> \o rest, x, t1)
    BY DEF Stacked
<1>3. Stacked(t1, y, t2)
    BY DEF Stacked
<1>4. Stacked(t2, z, rest)
    BY DEF Stacked
<1> HIDE DEF t1, t2
<1>5. QED
    BY <1>1, <1>2, <1>3, <1>4

\* The lists there are leave the sentinels of depth d, and of those below.
Fresh(D, d) == d \in Nat \ {0} /\ \A y \in D : y > -(2 * d)

\* The sentinels of a call are not there when it gets them.
LEMMA FreshSentinels ==
    ASSUME NEW D, D \subseteq Int, NEW d, Fresh(D, d), NEW l \in D, NEW x, x = List!Left(d), NEW y, y = List!Right(d)
    PROVE  /\ x \in Int /\ x < 0 /\ x \notin D
           /\ y \in Int /\ y < 0 /\ y \notin D \cup {x}
           /\ Thirds((D \cup {x}) \cup {y}, l, x, y)
           /\ Fresh((D \cup {x}) \cup {y}, d + 1)
<1>1. d \in Nat /\ d >= 1 /\ x = -(2 * d) /\ y = -(2 * d) - 1
    BY DEF Fresh, List!Left, List!Right
<1>2. \A z \in D : z \in Int /\ z > -(2 * d)
    BY DEF Fresh
<1>3. x \in Int /\ x < 0 /\ y \in Int /\ y < 0 /\ y # x
    BY <1>1
<1>4. x \notin D /\ y \notin D
    BY <1>1, <1>2
<1>5. Thirds((D \cup {x}) \cup {y}, l, x, y)
    BY <1>3, <1>4 DEF Thirds
<1>6. ASSUME NEW z \in (D \cup {x}) \cup {y} PROVE z > -(2 * (d + 1))
    <2>1. CASE z \in D
        BY <1>1, <1>2, <2>1
    <2>2. CASE z \notin D
        BY <1>1, <2>2
    <2>3. QED
        BY <2>1, <2>2
<1>7. d + 1 \in Nat \ {0}
    BY <1>1
<1>8. QED
    BY <1>3, <1>4, <1>5, <1>6, <1>7 DEF Fresh

\* r is q with list l sorted.
Arranged(p, q, D, l, s, r) ==
    /\ Sound(s, r, D) /\ Same(q, r, D, {l})
    /\ Sorted(p, r[l]) /\ Len(r[l]) = Len(q[l])

\* A call to sort a list of n elements comes at turn a ...
Calls == [list : Int, depth : Nat, split : BOOLEAN]
Starts(f, m, p, D, q, l, d, rest, a, n) ==
    /\ a \in Nat /\ n \in Nat /\ a + 3 * n + 1 =< m
    /\ l \in D /\ Fresh(D, d) /\ Sound(f[a].s, q, D)
    /\ Len(q[l]) = n /\ Ties(p, q[l])
    /\ rest \in Seq(Calls) /\ Stacked(f[a].calls, List!Call(l, d, FALSE), rest)
\* ... and is done at turn b.
Done(f, p, D, q, l, rest, a, n, b, r) ==
    /\ b \in Nat /\ b =< a + 3 * n + 1
    /\ f[b].calls = rest /\ Arranged(p, q, D, l, f[b].s, r)
Sorts(f, m, p, n) ==
    \A D, q, l, d, rest, a :
      Starts(f, m, p, D, q, l, d, rest, a, n) => \E b, r : Done(f, p, D, q, l, rest, a, n, b, r)
Sortings(f, m) == m \in Nat /\ \A i \in 0 .. m - 1 : f[i + 1] = List!SortTurn(f[i])

\* A list of at most one element is sorted.
LEMMA SortShort ==
    ASSUME NEW f, NEW m, Sortings(f, m), NEW p, NEW D, NEW q, NEW l, NEW d, NEW rest, NEW a, NEW n,
           Starts(f, m, p, D, q, l, d, rest, a, n), n =< 1
    PROVE  \E b, r : Done(f, p, D, q, l, rest, a, n, b, r)
<1>1. /\ a \in Nat /\ n \in Nat /\ a + 3 * n + 1 =< m /\ l \in D /\ Sound(f[a].s, q, D) /\ Len(q[l]) = n
      /\ Stacked(f[a].calls, List!Call(l, d, FALSE), rest)
    BY DEF Starts
<1>2. List!Short(f[a].s, l)
    BY <1>1, ShortIs
<1>3. a \in 0 .. m - 1
    BY <1>1 DEF Sortings
<1>4. f[a + 1] = List!SortTurn(f[a])
    BY <1>3 DEF Sortings
<1>5. f[a].calls # <<>> /\ Head(f[a].calls) = List!Call(l, d, FALSE) /\ Tail(f[a].calls) = rest
    BY <1>1 DEF Stacked
<1>6. Head(f[a].calls).list = l /\ ~ Head(f[a].calls).split
    BY <1>5 DEF List!Call
<1>7. List!SortTurn(f[a]) = [s |-> f[a].s, calls |-> rest]
    BY <1>2, <1>5, <1>6 DEF List!SortTurn
<1>8. f[a + 1].s = f[a].s /\ f[a + 1].calls = rest
    BY <1>4, <1>7
<1>9. Same(q, q, D, {l})
    BY <1>1 DEF Same, Sound, Ringed
<1>10. Sorted(p, q[l])
    <2>1. ASSUME NEW i \in 1 .. Len(q[l]), NEW j \in 1 .. Len(q[l]), i < j PROVE FALSE
        BY <1>1, <2>1
    <2>2. QED
        BY <2>1 DEF Sorted
<1>11. a + 1 \in Nat /\ a + 1 =< a + 3 * n + 1
    BY <1>1
<1>12. Done(f, p, D, q, l, rest, a, n, a + 1, q)
    BY <1>1, <1>8, <1>9, <1>10, <1>11 DEF Done, Arranged
<1>13. QED
    BY <1>12

\* Two halves are to be sorted and put together.
Split(c, l, d, rest) == c.calls = List!Halves(l, d) \o rest

\* A list that is split, by the turn that does it.
LEMMA SortSplits ==
    ASSUME NEW f, NEW m, Sortings(f, m), NEW p, NEW D, NEW q, NEW l, NEW d, NEW rest, NEW a, NEW n,
           Starts(f, m, p, D, q, l, d, rest, a, n), n >= 2,
           NEW x, x = List!Left(d), NEW y, y = List!Right(d)
    PROVE  /\ \E r : Parted(p, Widened(Widened(q, D, x), D \cup {x}, y), (D \cup {x}) \cup {y}, l, x, y, f[a + 1].s, r)
           /\ Split(f[a + 1], l, d, rest)
           /\ Sound(List!GetNode(f[a].s, x), Widened(q, D, x), D \cup {x})
<1>1. /\ a \in Nat /\ n \in Nat /\ a + 3 * n + 1 =< m /\ l \in D /\ Fresh(D, d) /\ Sound(f[a].s, q, D) /\ Len(q[l]) = n
      /\ Ties(p, q[l]) /\ Stacked(f[a].calls, List!Call(l, d, FALSE), rest)
    BY DEF Starts
<1>2. D \subseteq Int
    BY <1>1 DEF Sound, Ringed, Apart
<1>3. /\ x \in Int /\ x < 0 /\ x \notin D /\ y \in Int /\ y < 0 /\ y \notin D \cup {x}
      /\ Thirds((D \cup {x}) \cup {y}, l, x, y)
    BY <1>1, <1>2, FreshSentinels
<1> DEFINE g == Widened(q, D, x)
           h == Widened(g, D \cup {x}, y)
           t == List!GetNode(List!GetNode(f[a].s, x), y)
<1>4. Sound(List!GetNode(f[a].s, x), g, D \cup {x})
    BY <1>1, <1>3, GrownSound
<1>5. Sound(t, h, (D \cup {x}) \cup {y})
    BY <1>3, <1>4, GrownSound
<1>6. h[l] = q[l] /\ h[x] = <<>> /\ h[y] = <<>>
    <2>1. l \in D \cup {x} /\ l # x /\ l # y /\ x # y /\ x \in D \cup {x}
        BY <1>1, <1>3
    <2>2. QED
        BY <2>1 DEF Widened
<1> HIDE DEF g, h, t
<1>7. Len(h[l]) >= 1 /\ Ties(p, h[l])
    BY <1>1, <1>6
<1>8. \E r : Parted(p, h, (D \cup {x}) \cup {y}, l, x, y, List!Split(t, l, x, y), r)
    BY <1>3, <1>5, <1>6, <1>7, SplitIs
<1>9. ~ List!Short(f[a].s, l)
    BY <1>1, ShortIs
<1>10. a \in 0 .. m - 1
    BY <1>1 DEF Sortings
<1>11. f[a + 1] = List!SortTurn(f[a])
    BY <1>10 DEF Sortings
<1>12. f[a].calls # <<>> /\ Head(f[a].calls) = List!Call(l, d, FALSE) /\ Tail(f[a].calls) = rest
    BY <1>1 DEF Stacked
<1>13. Head(f[a].calls).list = l /\ ~ Head(f[a].calls).split /\ Head(f[a].calls).depth = d
    BY <1>12 DEF List!Call
<1>14. List!SortTurn(f[a]) = [s |-> List!Split(t, l, x, y), calls |-> List!Halves(l, d) \o rest]
    BY <1>9, <1>12, <1>13 DEF List!SortTurn, t
<1>15. f[a + 1].s = List!Split(t, l, x, y) /\ f[a + 1].calls = List!Halves(l, d) \o rest
    BY <1>11, <1>14
<1>16. QED
    BY <1>4, <1>6, <1>8, <1>15 DEF g, h, Split

Lengths(u, v, w, n) == Len(u) + Len(v) + Len(w) = n

\* The parts of a list, one sorted after the other, can be joined.
LEMMA PartsJoin ==
    ASSUME NEW p, NEW q, NEW D, NEW l, NEW x, NEW y, Thirds(D, l, x, y),
           NEW s0, NEW r0, Parted(p, q, D, l, x, y, s0, r0), NEW s1, NEW r1, Arranged(p, r0, D, x, s1, r1),
           NEW s2, NEW r2, Arranged(p, r1, D, y, s2, r2)
    PROVE  /\ Joins(p, r2[l], r2[x], r2[y]) /\ Same(q, r2, D, {l, x, y}) /\ Sound(s2, r2, D)
           /\ Lengths(r2[l], r2[x], r2[y], Len(q[l]))
<1>1. l \in D /\ x \in D /\ y \in D /\ l # x /\ l # y /\ x # y
    BY DEF Thirds
<1>2. /\ Sound(s0, r0, D) /\ Same(q, r0, D, {l, x, y}) /\ Len(r0[l]) = 1
      /\ Len(r0[x]) + Len(r0[y]) + 1 = Len(q[l]) /\ Halved(p, r0[l], r0[x], r0[y])
    BY DEF Parted
<1>3. /\ Sound(s1, r1, D) /\ Same(r0, r1, D, {x}) /\ Sorted(p, r1[x]) /\ Len(r1[x]) = Len(r0[x])
      /\ Sound(s2, r2, D) /\ Same(r1, r2, D, {y}) /\ Sorted(p, r2[y]) /\ Len(r2[y]) = Len(r1[y])
    BY DEF Arranged
<1>4. r1[l] = r0[l] /\ r1[y] = r0[y] /\ r2[l] = r1[l] /\ r2[x] = r1[x]
    BY <1>1, <1>3 DEF Same
<1>5. /\ r2[l] \in Seq(Int) /\ r2[x] \in Seq(Int) /\ r2[y] \in Seq(Int) /\ Len(r2[x]) \in Nat /\ Len(r2[y]) \in Nat
    BY <1>1, <1>3, Neighbours
<1>6. ASSUME NEW z \in Int, Among(z, r2[x]) PROVE List!ValueOf(z) < List!ValueOf(r2[l][1])
    <2>1. Among(z, r1[x])
        BY <1>4, <1>6
    <2>2. Among(z, r0[x])
        BY <1>3, <2>1, SameList
    <2>3. QED
        BY <1>2, <1>4, <2>2 DEF Among, Halved
<1>7. ASSUME NEW z \in Int, Among(z, r2[y]) PROVE List!Sooner(p, r2[l][1], z)
    <2>1. Among(z, r1[y])
        BY <1>3, <1>7, SameList
    <2>2. Among(z, r0[y])
        BY <1>4, <2>1
    <2>3. QED
        BY <1>2, <1>4, <2>2 DEF Among, Halved
<1>8. Joins(p, r2[l], r2[x], r2[y])
    BY <1>2, <1>3, <1>4, <1>5, <1>6, <1>7 DEF Joins
<1>9. Same(q, r2, D, {l, x, y})
    <2>1. Same(q, r1, D, {l, x, y} \cup {x})
        BY <1>2, <1>3, SameThrough
    <2>2. {l, x, y} \cup {x} = {l, x, y} /\ {l, x, y} \cup {y} = {l, x, y}
        OBVIOUS
    <2>3. Same(q, r1, D, {l, x, y})
        BY <2>1, <2>2
    <2>4. Same(q, r2, D, {l, x, y} \cup {y})
        BY <1>3, <2>3, SameThrough
    <2>5. QED
        BY <2>2, <2>4
<1>10. Len(r2[l]) + Len(r2[x]) + Len(r2[y]) = Len(q[l])
    <2> DEFINE b == Len(r2[x])
               c == Len(r2[y])
               e == Len(q[l])
    <2>1. b + c + 1 = e /\ b \in Nat /\ c \in Nat
        BY <1>2, <1>3, <1>4, <1>5
    <2> HIDE DEF b, c, e
    <2>2. 1 + b + c = e
        BY <2>1
    <2>3. Len(r2[l]) = 1
        BY <1>2, <1>4
    <2>4. QED
        BY <2>2, <2>3 DEF b, c, e
<1>11. QED
    BY <1>3, <1>8, <1>9, <1>10 DEF Lengths

\* What was put together lies in l, and the sentinels go.
LEMMA PutTogether ==
    ASSUME NEW p, EachOnce(p), NEW D, NEW q, NEW s, Sound(s, q, D), NEW l \in D, NEW d, Fresh(D, d),
           NEW x, x = List!Left(d), NEW y, y = List!Right(d),
           NEW s1, Sound(s1, Widened(q, D, x), D \cup {x}),
           NEW h, h = Widened(Widened(q, D, x), D \cup {x}, y), h[l] = q[l], NEW E, E = (D \cup {x}) \cup {y},
           NEW s2, NEW r, Sound(s2, r, E), Same(h, r, E, {l, x, y}), Joins(p, r[l], r[x], r[y]),
           Lengths(r[l], r[x], r[y], Len(q[l]))
    PROVE  \E k : Arranged(p, q, D, l, List!Joined(s2, l, x, y), k)
<1> DEFINE g == Widened(q, D, x)
           t == List!Splice(List!Merge(s2, l, x), l, y)
<1>1. D \subseteq Int
    BY DEF Sound, Ringed, Apart
<1>2. /\ x \in Int /\ x < 0 /\ x \notin D /\ y \in Int /\ y < 0 /\ y \notin D \cup {x} /\ Thirds(E, l, x, y)
    BY <1>1, FreshSentinels
<1>3. PICK r3 : Together(p, r, E, l, x, y, t, r3)
    BY <1>2, JoinIs
<1> HIDE DEF t
<1>4. /\ Sound(t, r3, E) /\ Same(r, r3, E, {l, x, y}) /\ r3[x] = <<>> /\ r3[y] = <<>>
      /\ Sorted(p, r3[l]) /\ Len(r3[l]) = Len(q[l])
    BY <1>3 DEF Together, Lengths
<1>5. Same(h, r3, E, {l, x, y})
    <2>1. Same(h, r3, E, {l, x, y} \cup {l, x, y})
        BY <1>4, SameThrough
    <2>2. {l, x, y} \cup {l, x, y} = {l, x, y}
        OBVIOUS
    <2>3. QED
        BY <2>1, <2>2
<1>6. {l, x, y} = {l, x} \cup {y} /\ {l, x} = {l} \cup {x} /\ {l, x} \subseteq D \cup {x} /\ {l} \subseteq D
    OBVIOUS
<1>7. Same(Widened(g, D \cup {x}, y), r3, (D \cup {x}) \cup {y}, {l, x} \cup {y}) /\ Sound(t, r3, (D \cup {x}) \cup {y})
    BY <1>4, <1>5, <1>6
<1>8. Sound(s1, g, D \cup {x})
    OBVIOUS
<1> DEFINE k1 == Shrunk(r3, (D \cup {x}) \cup {y}, y)
<1> HIDE DEF g
<1>9. /\ Same(g, k1, D \cup {x}, {l, x}) /\ Sound(List!PutNode(t, y), k1, D \cup {x})
      /\ \A j \in D \cup {x} : k1[j] = r3[j]
    <2>1. /\ y \in Int /\ y < 0 /\ y \notin D \cup {x} /\ Sound(s1, g, D \cup {x})
          /\ Sound(t, r3, (D \cup {x}) \cup {y}) /\ r3[y] = <<>> /\ {l, x} \subseteq D \cup {x}
          /\ Same(Widened(g, D \cup {x}, y), r3, (D \cup {x}) \cup {y}, {l, x} \cup {y})
        BY <1>2, <1>4, <1>6, <1>7, <1>8
    <2>2. Same(g, k1, D \cup {x}, {l, x})
        BY <2>1, SameShrunk
    <2>3. Sound(List!PutNode(t, y), k1, D \cup {x})
        <3>1. y \in (D \cup {x}) \cup {y} /\ ((D \cup {x}) \cup {y}) \ {y} = D \cup {x}
            BY <2>1
        <3>2. Sound(List!PutNode(t, y), k1, ((D \cup {x}) \cup {y}) \ {y})
            BY <2>1, <3>1, ShrunkSound
        <3>3. QED
            BY <3>1, <3>2
    <2>4. \A j \in D \cup {x} : k1[j] = r3[j]
        BY <2>1 DEF k1, Shrunk
    <2>5. QED
        BY <2>2, <2>3, <2>4
<1> HIDE DEF k1
<1>10. Same(Widened(q, D, x), k1, D \cup {x}, {l} \cup {x}) /\ k1[x] = <<>> /\ k1[l] = r3[l]
    BY <1>4, <1>6, <1>9 DEF g
<1> DEFINE k2 == Shrunk(k1, D \cup {x}, x)
<1>11. /\ Same(q, k2, D, {l}) /\ Sound(List!PutNode(List!PutNode(t, y), x), k2, D)
       /\ \A j \in D : k2[j] = k1[j]
    <2>1. /\ x \in Int /\ x < 0 /\ x \notin D /\ Sound(s, q, D)
          /\ Sound(List!PutNode(t, y), k1, D \cup {x}) /\ k1[x] = <<>> /\ {l} \subseteq D
          /\ Same(Widened(q, D, x), k1, D \cup {x}, {l} \cup {x})
        BY <1>2, <1>6, <1>9, <1>10
    <2>2. Same(q, k2, D, {l})
        BY <2>1, SameShrunk
    <2>3. Sound(List!PutNode(List!PutNode(t, y), x), k2, D)
        BY <2>1, SameShrunk
    <2>4. \A j \in D : k2[j] = k1[j]
        BY <2>1 DEF k2, Shrunk
    <2>5. QED
        BY <2>2, <2>3, <2>4
<1> HIDE DEF k2
<1>12. k2[l] = r3[l]
    BY <1>10, <1>11
<1>13. List!Joined(s2, l, x, y) = List!PutNode(List!PutNode(t, y), x)
    BY DEF List!Joined, t
<1>14. Arranged(p, q, D, l, List!Joined(s2, l, x, y), k2)
    BY <1>4, <1>11, <1>12, <1>13 DEF Arranged
<1>15. QED
    BY <1>14

\* A longer one is, if all shorter ones are.
LEMMA SortLong ==
    ASSUME NEW f, NEW m, Sortings(f, m), NEW p, EachOnce(p), NEW D, NEW q, NEW l, NEW d, NEW rest, NEW a, NEW n,
           Starts(f, m, p, D, q, l, d, rest, a, n), n >= 2, \A k \in 0 .. n - 1 : Sorts(f, m, p, k)
    PROVE  \E b, r : Done(f, p, D, q, l, rest, a, n, b, r)
<1> DEFINE x == List!Left(d)
           y == List!Right(d)
           h == Widened(Widened(q, D, x), D \cup {x}, y)
           E == (D \cup {x}) \cup {y}
<1>1. /\ a \in Nat /\ n \in Nat /\ a + 3 * n + 1 =< m /\ l \in D /\ Fresh(D, d) /\ Sound(f[a].s, q, D) /\ Len(q[l]) = n
      /\ Ties(p, q[l]) /\ rest \in Seq(Calls)
    BY DEF Starts
<1>2. D \subseteq Int
    BY <1>1 DEF Sound, Ringed, Apart
<1>3. d \in Nat /\ m \in Nat
    BY <1>1 DEF Fresh, Sortings
<1> HIDE DEF x, y
<1>4. /\ x \in Int /\ y \in Int /\ Thirds(E, l, x, y) /\ Fresh(E, d + 1)
    BY <1>1, <1>2, FreshSentinels DEF x, y
<1>5. /\ \E r : Parted(p, h, E, l, x, y, f[a + 1].s, r)
      /\ f[a + 1].calls = List!Halves(l, d) \o rest
      /\ Sound(List!GetNode(f[a].s, x), Widened(q, D, x), D \cup {x})
      /\ h[l] = q[l]
    <2>1. x = List!Left(d) /\ y = List!Right(d)
        BY DEF x, y
    <2>2. \E r : Parted(p, h, E, l, x, y, f[a + 1].s, r)
        BY <2>1, SortSplits, Zenon
    <2>3. Split(f[a + 1], l, d, rest)
        BY <2>1, SortSplits, Zenon
    <2>4. Sound(List!GetNode(f[a].s, x), Widened(q, D, x), D \cup {x})
        BY <2>1, SortSplits, Zenon
    <2>5. h[l] = q[l]
        <3>1. l \in D \cup {x} /\ l # x /\ l # y
            BY <1>1, <1>4 DEF Thirds
        <3>2. QED
            BY <3>1 DEF Widened
    <2>6. QED
        BY <2>2, <2>3, <2>4, <2>5 DEF Split
<1> HIDE DEF h, E
<1>6. PICK r0 : Parted(p, h, E, l, x, y, f[a + 1].s, r0)
    BY <1>5
<1>7. /\ Sound(f[a + 1].s, r0, E) /\ Len(r0[x]) + Len(r0[y]) + 1 = n /\ Halved(p, r0[l], r0[x], r0[y])
    BY <1>1, <1>5, <1>6 DEF Parted
<1>8. l \in E /\ x \in E /\ y \in E /\ x # y /\ l # x /\ l # y
    BY <1>4 DEF Thirds
<1> DEFINE c1 == List!Call(x, d + 1, FALSE)
           c2 == List!Call(y, d + 1, FALSE)
           c3 == List!Call(l, d, TRUE)
<1>9. PICK t1 \in Seq(Calls), t2 \in Seq(Calls) :
           Stacked(<<c1, c2, c3>> \o rest, c1, t1) /\ Stacked(t1, c2, t2) /\ Stacked(t2, c3, rest)
    <2>1. c1 \in Calls /\ c2 \in Calls /\ c3 \in Calls
        BY <1>1, <1>2, <1>3, <1>4 DEF List!Call, Calls
    <2> HIDE DEF c1, c2, c3
    <2>2. QED
        BY <1>1, <2>1, CallsStack
<1>10. List!Halves(l, d) = <<c1, c2, c3>>
    BY DEF List!Halves, x, y
<1> HIDE DEF c1, c2, c3
<1> DEFINE n1 == Len(r0[x])
           n2 == Len(r0[y])
<1>11. n1 \in Nat /\ n2 \in Nat
    BY <1>7, <1>8, Neighbours
<1>12. n1 + n2 + 1 = n
    BY <1>7
<1> HIDE DEF n1, n2
<1>13. n1 \in 0 .. n - 1 /\ n2 \in 0 .. n - 1 /\ (a + 1) + 3 * n1 + 1 =< m
    BY <1>1, <1>3, <1>11, <1>12
<1>14. Starts(f, m, p, E, r0, x, d + 1, t1, a + 1, n1)
    <2>1. Stacked(f[a + 1].calls, c1, t1)
        BY <1>5, <1>9, <1>10
    <2>2. a + 1 \in Nat /\ Len(r0[x]) = n1 /\ Ties(p, r0[x])
        BY <1>1, <1>7 DEF Halved, n1
    <2>3. QED
        BY <1>4, <1>7, <1>8, <1>9, <1>11, <1>13, <2>1, <2>2 DEF Starts, c1
<1>15. PICK b1, r1 : Done(f, p, E, r0, x, t1, a + 1, n1, b1, r1)
    BY <1>13, <1>14 DEF Sorts
<1>16. b1 \in Nat /\ b1 =< (a + 1) + 3 * n1 + 1 /\ f[b1].calls = t1 /\ Arranged(p, r0, E, x, f[b1].s, r1)
    BY <1>15 DEF Done
<1>17. Sound(f[b1].s, r1, E) /\ r1[y] = r0[y]
    BY <1>8, <1>16 DEF Arranged, Same
<1>18. b1 + 3 * n2 + 1 =< m
    BY <1>1, <1>3, <1>11, <1>12, <1>16
<1>19. Starts(f, m, p, E, r1, y, d + 1, t2, b1, n2)
    BY <1>4, <1>7, <1>8, <1>9, <1>11, <1>16, <1>17, <1>18 DEF Starts, Halved, n2, c2
<1>20. PICK b2, r2 : Done(f, p, E, r1, y, t2, b1, n2, b2, r2)
    BY <1>13, <1>19 DEF Sorts
<1>21. b2 \in Nat /\ b2 =< b1 + 3 * n2 + 1 /\ f[b2].calls = t2 /\ Arranged(p, r1, E, y, f[b2].s, r2)
    BY <1>20 DEF Done
<1>22. /\ Joins(p, r2[l], r2[x], r2[y]) /\ Same(h, r2, E, {l, x, y}) /\ Sound(f[b2].s, r2, E)
       /\ Lengths(r2[l], r2[x], r2[y], Len(q[l]))
    <2>1. Joins(p, r2[l], r2[x], r2[y]) /\ Same(h, r2, E, {l, x, y}) /\ Sound(f[b2].s, r2, E)
        BY <1>4, <1>6, <1>16, <1>21, PartsJoin
    <2>2. Lengths(r2[l], r2[x], r2[y], Len(h[l]))
        BY <1>4, <1>6, <1>16, <1>21, PartsJoin
    <2>3. QED
        BY <1>5, <2>1, <2>2
<1>23. \E k : Arranged(p, q, D, l, List!Joined(f[b2].s, l, x, y), k)
    <2>1. x = List!Left(d) /\ y = List!Right(d) /\ h = Widened(Widened(q, D, x), D \cup {x}, y) /\ E = (D \cup {x}) \cup {y}
        BY DEF x, y, h, E
    <2>2. l \in D /\ Fresh(D, d) /\ Sound(f[a].s, q, D)
        BY <1>1
    <2>3. QED
        BY <1>5, <1>22, <2>1, <2>2, PutTogether, Zenon
<1>24. b2 \in 0 .. m - 1 /\ b2 + 1 \in Nat /\ b2 + 1 =< a + 3 * n + 1
    BY <1>1, <1>3, <1>11, <1>12, <1>16, <1>21
<1>25. f[b2 + 1] = List!SortTurn(f[b2])
    BY <1>24 DEF Sortings
<1>26. f[b2].calls # <<>> /\ Head(f[b2].calls) = c3 /\ Tail(f[b2].calls) = rest
    BY <1>9, <1>21 DEF Stacked
<1>27. Head(f[b2].calls).list = l /\ Head(f[b2].calls).split /\ Head(f[b2].calls).depth = d
    BY <1>26 DEF List!Call, c3
<1>28. List!SortTurn(f[b2]) = [s |-> List!Joined(f[b2].s, l, x, y), calls |-> rest]
    BY <1>26, <1>27 DEF List!SortTurn, x, y
<1>29. f[b2 + 1].s = List!Joined(f[b2].s, l, x, y) /\ f[b2 + 1].calls = rest
    BY <1>25, <1>28
<1>30. PICK k : Arranged(p, q, D, l, f[b2 + 1].s, k)
    BY <1>23, <1>29
<1>31. Done(f, p, D, q, l, rest, a, n, b2 + 1, k)
    BY <1>24, <1>29, <1>30 DEF Done
<1>32. QED
    BY <1>31

\* So are all, or there would be a shortest one that is not.
LEMMA SortsAll ==
    ASSUME NEW f, NEW m, Sortings(f, m), NEW p, EachOnce(p)
    PROVE  \A n \in Nat : Sorts(f, m, p, n)
<1> DEFINE T == {n \in Nat : ~ Sorts(f, m, p, n)}
<1>1. ASSUME T # {} PROVE FALSE
    <2>1. PICK n \in T : \A k \in T : n <= k
        BY <1>1, LeastElement
    <2>2. ASSUME NEW k \in 0 .. n - 1 PROVE Sorts(f, m, p, k)
        <3>1. n \in Nat /\ k \in Nat /\ ~ (n <= k)
            BY <2>1
        <3>2. QED
            BY <2>1, <3>1
    <2>3. ASSUME NEW D, NEW q, NEW l, NEW d, NEW rest, NEW a, Starts(f, m, p, D, q, l, d, rest, a, n)
          PROVE  \E b, r : Done(f, p, D, q, l, rest, a, n, b, r)
        <3>1. CASE n =< 1
            BY <2>3, <3>1, SortShort
        <3>2. CASE n >= 2
            BY <2>2, <2>3, <3>2, SortLong
        <3>3. QED
            BY <2>1, <3>1, <3>2
    <2>4. Sorts(f, m, p, n)
        BY <2>3 DEF Sorts
    <2>5. QED
        BY <2>1, <2>4
<1>2. QED
    BY <1>1

\* The places of a sequence are in its order.
LEMMA OwnTies ==
    ASSUME NEW p, EachOnce(p)
    PROVE  Ties(p, p)
BY DEF EachOnce, Ties, List!Precedes

\* Sort ends sorted, with no sentinel of its own left in memory.
LEMMA SortIs ==
    ASSUME NEW D, NEW q, NEW s, Sound(s, q, D), NEW l \in D, Fresh(D, 1)
    PROVE  \E r : Arranged(q[l], q, D, l, List!Sort(s, l), r)
<1> DEFINE t == List!Turns(s)
           m == 3 * t
           p == q[l]
           n == Len(p)
           loop == [of |-> "sort"]
           c == List!Call(l, 1, FALSE)
<1>1. EachOnce(p) /\ n \in Nat
    BY SameSingle DEF Sound, Ringed
<1>2. t \in Nat /\ n + 1 =< t
    BY TurnsAreEnough DEF Sound
<1>3. m \in Nat /\ 0 + 3 * n + 1 =< m
    <2> HIDE DEF t, n
    <2>1. QED
        BY <1>1, <1>2
<1>4. PICK f : /\ Turning(f, m, loop, [s |-> s, calls |-> <<c>>])
               /\ List!Sort(s, l) = f[m].s
    BY <1>3, SortLoop
<1>5. \A i, e : Step(loop, i, e) = List!SortTurn(e)
    BY DEF Step
<1> HIDE DEF t, m, loop, n, c
<1>6. Sortings(f, m)
    BY <1>3, <1>4, <1>5 DEF Sortings, Turning
<1>7. f[0].s = s /\ f[0].calls = <<c>>
    <2>1. f[0] = [s |-> s, calls |-> <<c>>]
        BY <1>4 DEF Turning
    <2>2. QED
        BY <2>1
<1>8. <<>> \in Seq(Calls) /\ Stacked(<<c>>, c, <<>>)
    BY DEF Stacked
<1>9. Starts(f, m, p, D, q, l, 1, <<>>, 0, n)
    BY <1>1, <1>3, <1>7, <1>8, OwnTies DEF Starts, n, c
<1>10. Sorts(f, m, p, n)
    BY <1>1, <1>6, SortsAll
<1>11. PICK b, r : Done(f, p, D, q, l, <<>>, 0, n, b, r)
    BY <1>9, <1>10 DEF Sorts
<1>12. b \in Nat /\ b =< 0 + 3 * n + 1 /\ f[b].calls = <<>> /\ Arranged(p, q, D, l, f[b].s, r)
    BY <1>11 DEF Done
<1>13. b \in 0 .. m
    BY <1>1, <1>3, <1>12
<1>14. \A i \in 1 .. m : Step(loop, i, f[b]) = f[b]
    BY <1>5, <1>12 DEF List!SortTurn
<1>15. f[m] = f[b]
    BY <1>3, <1>4, <1>13, <1>14, Ended
<1>16. QED
    BY <1>4, <1>12, <1>15

-----------------------------------------------------------------------------
(* Its operations on the two lists of the model. *)

Two == {List!A, List!B}
ListInv == Sound(lists, sequences, Two)

LEMMA TwoAre ==
    /\ List!A \in Two /\ List!B \in Two /\ List!A # List!B /\ List!A \in Int /\ List!B \in Int
    /\ \A l \in Two : l < 10 /\ l > 0 /\ (l = List!A \/ l = List!B)
    /\ Fresh(Two, 1)
BY DEF Two, List!A, List!B, Fresh

LEMMA PlacesAre ==
    ASSUME ListInv, NEW l \in Two
    PROVE  /\ List!Places(l) = 1 .. Len(sequences[l]) + 1
           /\ DOMAIN sequences[l] = 1 .. Len(sequences[l])
           /\ Len(sequences[l]) \in Nat /\ sequences[l] \in Seq(Int) /\ l \in Int
           /\ sequences \in [Two -> Seq(Int)]
           /\ \A i : List!NodeAt(l, i) = NodeOf(sequences[l], l, i)
           /\ \A i \in 1 .. Len(sequences[l]) : List!NodeAt(l, i) = sequences[l][i]
<1>1. sequences[l] \in Seq(Int) /\ Len(sequences[l]) \in Nat /\ l \in Int /\ sequences \in [Two -> Seq(Int)]
    BY Neighbours DEF ListInv
<1>2. \A i : List!NodeAt(l, i) = NodeOf(sequences[l], l, i)
    BY DEF List!NodeAt, NodeOf
<1>3. \A i \in 1 .. Len(sequences[l]) : NodeOf(sequences[l], l, i) = sequences[l][i]
    BY <1>1, NodesAre
<1>4. QED
    BY <1>1, <1>2, <1>3 DEF List!Places

\* The nodes of the model are the cells of the two lists.
LEMMA TwoCells ==
    ASSUME ListInv
    PROVE  Cells(sequences, Two) = List!Nodes \cup Two
<1>1. \A l \in Two : DOMAIN sequences[l] = 1 .. Len(sequences[l]) /\ sequences[l] \in Seq(Int)
    BY PlacesAre
<1>2. List!A \in Two /\ List!B \in Two
    BY TwoAre
<1>3. \A l \in Two : l = List!A \/ l = List!B
    BY TwoAre
<1>4. ASSUME NEW x \in List!Nodes PROVE x \in Cells(sequences, Two)
    <2>1. PICK l \in Two : \E i \in DOMAIN sequences[l] : x = sequences[l][i]
        BY <1>2, <1>4 DEF List!Nodes, List!ToSet
    <2>2. x \in Int /\ \E i \in 1 .. Len(sequences[l]) : sequences[l][i] = x
        BY <1>1, <2>1
    <2>3. QED
        BY <2>2 DEF Cells
<1>5. ASSUME NEW x \in Cells(sequences, Two) PROVE x \in List!Nodes \cup Two
    <2>1. CASE x \in Two
        BY <2>1
    <2>2. CASE x \notin Two
        <3>1. PICK l \in Two : \E i \in 1 .. Len(sequences[l]) : sequences[l][i] = x
            BY <1>5, <2>2 DEF Cells
        <3>2. x \in List!ToSet(sequences[l])
            BY <1>1, <3>1 DEF List!ToSet
        <3>3. QED
            BY <1>3, <3>2 DEF List!Nodes
    <2>3. QED
        BY <2>1, <2>2
<1>6. Two \subseteq Cells(sequences, Two)
    BY DEF Cells
<1>7. QED
    BY <1>4, <1>5, <1>6

\* Soundness is what the model promises of its two lists.
LEMMA ListInvAgrees ==
    ASSUME ListInv
    PROVE  List!ListsAgree
<1>1. lists \in Memory(Cells(sequences, Two)) /\ \A l \in Two : Linked(lists, sequences[l], l)
    BY DEF ListInv, Sound, Ringed
<1>2. lists.ok /\ DOMAIN lists.m = List!Nodes \cup Two
    <2>1. DOMAIN lists.m = Cells(sequences, Two) /\ lists.ok
        BY <1>1 DEF Memory
    <2>2. QED
        BY <2>1, TwoCells
<1>3. ASSUME NEW l \in Two, NEW i \in 0 .. Len(sequences[l])
      PROVE  /\ lists.m[List!NodeAt(l, i)].next = List!NodeAt(l, i + 1)
             /\ lists.m[List!NodeAt(l, i + 1)].prev = List!NodeAt(l, i)
    BY <1>1, <1>3, PlacesAre DEF Linked
<1>4. QED
    BY <1>2, <1>3 DEF List!ListsAgree, Two

\* Two empty rings are sound.
LEMMA ListStarts ==
    ASSUME List!ListInit
    PROVE  ListInv
<1>1. /\ lists = [m |-> [l \in Two |-> [prev |-> l, next |-> l]], ok |-> TRUE]
      /\ sequences = [l \in Two |-> <<>>]
    BY DEF List!ListInit, Two
<1>2. Two \subseteq Int /\ IsFiniteSet(Two)
    <2> DEFINE one == {} \cup {List!A}
               both == one \cup {List!B}
    <2>1. IsFiniteSet(one)
        BY FS_EmptySet, FS_AddElement
    <2> HIDE DEF one
    <2>2. IsFiniteSet(both)
        BY <2>1, FS_AddElement
    <2>3. Two = both
        BY DEF Two, one
    <2>4. Two \subseteq Int
        BY TwoAre
    <2> HIDE DEF both
    <2>5. QED
        BY <2>2, <2>3, <2>4
<1>3. \A l \in Two : sequences[l] = <<>> /\ Len(sequences[l]) = 0
    BY <1>1
<1>4. sequences \in [Two -> Seq(Int)]
    BY <1>1
<1>5. Apart(sequences, Two)
    <2>1. \A l \in Two : \A i \in 1 .. Len(sequences[l]) : FALSE
        BY <1>3
    <2>2. QED
        BY <1>2, <1>4, <2>1 DEF Apart
<1>6. Cells(sequences, Two) = Two
    <2>1. \A l \in Two : \A i \in 1 .. Len(sequences[l]) : FALSE
        BY <1>3
    <2>2. QED
        BY <2>1 DEF Cells
<1>7. lists \in Memory(Two)
    BY <1>1, <1>2 DEF Memory, Cell
<1>8. ASSUME NEW l \in Two PROVE Linked(lists, sequences[l], l)
    <2>1. l \in Int /\ sequences[l] \in Seq(Int) /\ Len(sequences[l]) = 0
        BY <1>2, <1>3, <1>4
    <2>2. NodeOf(sequences[l], l, 0) = l /\ NodeOf(sequences[l], l, 0 + 1) = l
        BY <2>1, NodesAre
    <2>3. lists.m[l].next = l /\ lists.m[l].prev = l
        BY <1>1
    <2>4. QED
        BY <2>1, <2>2, <2>3 DEF Linked
<1>9. Positive(sequences, Two)
    BY <1>3 DEF Positive
<1>10. QED
    BY <1>2, <1>5, <1>6, <1>7, <1>8, <1>9 DEF ListInv, Sound, Ringed

\* One lemma for each action: it leaves the rings of the new sequences.
LEMMA ListInsertStep ==
    ASSUME ListInv, ListAssumption, NEW l \in Two, NEW i \in List!Places(l), NEW x \in List!ListNodes, List!ListInsert(l, i, x)
    PROVE  ListInv'
<1> DEFINE w == sequences[l]
           u == List!PutBefore(w, i, <<x>>)
<1>1. w \in Seq(Int) /\ Len(w) \in Nat /\ i \in 1 .. Len(w) + 1 /\ List!NodeAt(l, i) = NodeOf(w, l, i)
    BY PlacesAre
<1>2. x \in Int /\ x >= 10
    <2>1. PICK v \in ListValues, k \in 0 .. MostNodes - 1 : x = 10 * v + k
        BY DEF List!ListNodes
    <2>2. v \in Nat /\ v >= 1 /\ k \in Nat
        BY ListAssumption DEF ListAssumption
    <2>3. QED
        BY <2>1, <2>2
<1>3. x \notin Cells(sequences, Two)
    <2>1. x \notin Two
        BY <1>2, TwoAre
    <2>2. x \notin List!Nodes
        BY DEF List!ListInsert
    <2>3. QED
        BY <2>1, <2>2, TwoCells
<1>4. Adds(w, u, i - 1, x)
    <2> DEFINE run == <<x>>
    <2>1. run \in Seq(Int) /\ Len(run) = 1 /\ run[1] = x
        BY <1>2
    <2> HIDE DEF w, run
    <2>2. PutIs(w, List!PutBefore(w, i, run), i, run)
        BY <1>1, <2>1, PutBeforeIs
    <2> DEFINE y == List!PutBefore(w, i, run)
    <2> HIDE DEF y
    <2>3. /\ y \in Seq(Int) /\ Len(y) = Len(w) + 1
          /\ \A p \in 1 .. Len(y) : y[p] = IF p < i THEN w[p] ELSE IF p < i + 1 THEN run[p - i + 1] ELSE w[p - 1]
        BY <2>1, <2>2 DEF PutIs, y
    <2>4. ASSUME NEW p \in 1 .. Len(y)
          PROVE  y[p] = IF p =< i - 1 THEN w[p] ELSE IF p =< (i - 1) + (1 - 0) THEN run[p - (i - 1) + 0] ELSE w[p - (1 - 0)]
        <3>1. /\ (p < i <=> p =< i - 1) /\ (p < i + 1 <=> p =< (i - 1) + (1 - 0))
              /\ p - (i - 1) + 0 = p - i + 1 /\ p - (1 - 0) = p - 1
            BY <1>1, <2>3
        <3>2. QED
            BY <2>3, <3>1
    <2>5. Len(w) + (1 - 0) = Len(w) + 1 /\ i - 1 \in 0 .. Len(w)
        BY <1>1
    <2>6. Adds(w, y, i - 1, x)
        BY <2>3, <2>4, <2>5 DEF Adds, Given, run
    <2>7. QED
        BY <2>6 DEF y, run
<1> HIDE DEF u
<1>5. Sound(List!Insert(lists, NodeOf(w, l, (i - 1) + 1), x), [sequences EXCEPT ![l] = u], Two)
    BY <1>2, <1>3, <1>4, InsertSound DEF ListInv
<1>6. (i - 1) + 1 = i
    BY <1>1
<1>7. /\ lists' = List!Insert(lists, NodeOf(w, l, (i - 1) + 1), x)
      /\ sequences' = [sequences EXCEPT ![l] = u]
    BY <1>1, <1>6 DEF List!ListInsert, u
<1>8. Sound(lists', sequences', Two)
    BY <1>5, <1>7
<1>9. QED
    BY <1>8 DEF ListInv, Two

LEMMA ListEraseStep ==
    ASSUME ListInv, NEW l \in Two, NEW i \in DOMAIN sequences[l], List!ListErase(l, i)
    PROVE  ListInv'
<1> DEFINE w == sequences[l]
           v == List!Without(w, i, i + 1)
<1>1. w \in Seq(Int) /\ Len(w) \in Nat /\ i \in 1 .. Len(w) /\ List!NodeAt(l, i) = w[i]
    BY PlacesAre
<1>2. /\ i \in 1 .. Len(w) + 1 /\ i + 1 \in 1 .. Len(w) + 1 /\ i < i + 1
      /\ (i + 1) - 1 = (i - 1) + 1 /\ (i - 1) + 1 = i
    BY <1>1
<1>3. Reduced(w, v, i - 1, (i + 1) - 1) /\ Part(Len(w), i - 1, (i + 1) - 1)
    BY <1>1, <1>2, WithoutIs
<1> HIDE DEF v
<1>4. Loses(w, v, i - 1)
    BY <1>2, <1>3 DEF Loses
<1>5. Sound(List!Erase(lists, w[(i - 1) + 1]), [sequences EXCEPT ![l] = v], Two)
    BY <1>4, EraseSound DEF ListInv
<1>6. lists' = List!Erase(lists, w[(i - 1) + 1]) /\ sequences' = [sequences EXCEPT ![l] = v]
    BY <1>1, <1>2 DEF List!ListErase, v
<1>7. Sound(lists', sequences', Two)
    BY <1>5, <1>6
<1>8. QED
    BY <1>7 DEF ListInv, Two

LEMMA ListRemoveIfStep ==
    ASSUME ListInv, NEW l \in Two, NEW unwanted, List!ListRemoveIf(l, unwanted)
    PROVE  ListInv'
<1> DEFINE w == sequences[l]
           gone == {x \in List!ToSet(w) : List!ValueOf(x) \in unwanted}
<1>1. w \in Seq(Int) /\ DOMAIN w = 1 .. Len(w)
    BY PlacesAre
<1>2. \A i \in 1 .. Len(w) : w[i] \in gone <=> List!ValueOf(w[i]) \in unwanted
    BY <1>1 DEF List!ToSet
<1> HIDE DEF gone
<1>3. Sound(List!RemoveIf(lists, l, unwanted), [sequences EXCEPT ![l] = List!Dropping(w, gone)], Two)
    BY <1>2, RemoveIfIs DEF ListInv
<1>4. lists' = List!RemoveIf(lists, l, unwanted) /\ sequences' = [sequences EXCEPT ![l] = List!Dropping(w, gone)]
    BY DEF List!ListRemoveIf, gone
<1>5. Sound(lists', sequences', Two)
    BY <1>3, <1>4
<1>6. QED
    BY <1>5 DEF ListInv, Two

LEMMA ListUniqueStep ==
    ASSUME ListInv, NEW l \in Two, List!ListUnique(l)
    PROVE  ListInv'
<1> DEFINE w == sequences[l]
           again == {j \in 2 .. Len(w) : List!ValueOf(w[j]) = List!ValueOf(w[j - 1])}
           gone == {w[i] : i \in again}
<1>1. w \in Seq(Int) /\ Len(w) \in Nat
    BY PlacesAre
<1>2. \A i, j \in 1 .. Len(w) : w[i] = w[j] => i = j
    BY SameSingle DEF ListInv, Sound, Ringed, EachOnce
<1>3. ASSUME NEW i \in 1 .. Len(w)
      PROVE  w[i] \in gone <=> i # 1 /\ List!ValueOf(w[i]) = List!ValueOf(w[i - 1])
    <2>1. w[i] \in gone => i \in again
        <3>1. ASSUME w[i] \in gone PROVE i \in again
            <4>1. PICK j \in again : w[i] = w[j]
                BY <3>1
            <4>2. j \in 1 .. Len(w)
                BY <4>1
            <4>3. i = j
                BY <1>2, <4>1, <4>2
            <4>4. QED
                BY <4>1, <4>3
        <3>2. QED
            BY <3>1
    <2>2. i \in again => w[i] \in gone
        OBVIOUS
    <2>3. i \in 2 .. Len(w) <=> i # 1
        BY <1>1
    <2>4. i \in again <=> i # 1 /\ List!ValueOf(w[i]) = List!ValueOf(w[i - 1])
        BY <2>3
    <2>5. QED
        BY <2>1, <2>2, <2>4
<1> HIDE DEF gone
<1>4. Sound(List!Unique(lists, l), [sequences EXCEPT ![l] = List!Dropping(w, gone)], Two)
    BY <1>3, UniquedIs DEF ListInv
<1>5. lists' = List!Unique(lists, l) /\ sequences' = [sequences EXCEPT ![l] = List!Dropping(w, gone)]
    BY DEF List!ListUnique, gone
<1>6. Sound(lists', sequences', Two)
    BY <1>4, <1>5
<1>7. QED
    BY <1>6 DEF ListInv, Two

LEMMA ListReverseStep ==
    ASSUME ListInv, NEW l \in Two, List!ListReverse(l)
    PROVE  ListInv'
<1>1. Sound(List!ReverseList(lists, l), [sequences EXCEPT ![l] = List!Reverse(sequences[l])], Two)
    BY ReverseListIs DEF ListInv
<1>2. lists' = List!ReverseList(lists, l) /\ sequences' = [sequences EXCEPT ![l] = List!Reverse(sequences[l])]
    BY DEF List!ListReverse
<1>3. Sound(lists', sequences', Two)
    BY <1>1, <1>2
<1>4. QED
    BY <1>3 DEF ListInv, Two

LEMMA ListReverseRangeStep ==
    ASSUME ListInv, NEW l \in Two, NEW i \in List!Places(l), NEW j \in List!Places(l), List!ListReverseRange(l, i, j)
    PROVE  ListInv'
<1> DEFINE w == sequences[l]
<1>1. /\ w \in Seq(Int) /\ Len(w) \in Nat /\ i \in 1 .. Len(w) + 1 /\ j \in 1 .. Len(w) + 1 /\ i < j
      /\ List!NodeAt(l, i) = NodeOf(w, l, i) /\ List!NodeAt(l, j) = NodeOf(w, l, j)
    BY PlacesAre DEF List!ListReverseRange
<1>2. Stretch(w, i, j)
    BY <1>1 DEF Stretch
<1>3. Sound(List!ReverseRange(lists, NodeOf(w, l, i), NodeOf(w, l, j)),
            [sequences EXCEPT ![l] = Backed(w, i, j, j - 1 - i)], Two)
    BY <1>2, ReverseRangeIs DEF ListInv
<1>4. Backed(w, i, j, j - 1 - i) = SubSeq(w, 1, i - 1) \o List!Reverse(SubSeq(w, i, j - 1)) \o SubSeq(w, j, Len(w))
    BY <1>1, <1>2, BackedRange
<1>5. /\ lists' = List!ReverseRange(lists, NodeOf(w, l, i), NodeOf(w, l, j))
      /\ sequences' = [sequences EXCEPT ![l] = Backed(w, i, j, j - 1 - i)]
    BY <1>1, <1>4 DEF List!ListReverseRange
<1>6. Sound(lists', sequences', Two)
    BY <1>3, <1>5
<1>7. QED
    BY <1>6 DEF ListInv, Two

LEMMA ListRotateStep ==
    ASSUME ListInv, NEW l \in Two, NEW k \in Nat, List!ListRotate(l, k)
    PROVE  ListInv'
<1>1. Sound(List!Rotate(lists, l, k), [sequences EXCEPT ![l] = Rotated(sequences[l], k)], Two)
    BY RotateIs DEF ListInv, List!ListRotate
<1>2. lists' = List!Rotate(lists, l, k) /\ sequences' = [sequences EXCEPT ![l] = Rotated(sequences[l], k)]
    BY DEF List!ListRotate, Rotated
<1>3. Sound(lists', sequences', Two)
    BY <1>1, <1>2
<1>4. QED
    BY <1>3 DEF ListInv, Two

LEMMA ListSortStep ==
    ASSUME ListInv, NEW l \in Two, List!ListSort(l)
    PROVE  ListInv'
<1> DEFINE p == sequences[l]
<1>1. PICK r : Arranged(p, sequences, Two, l, List!Sort(lists, l), r)
    BY SortIs, TwoAre DEF ListInv
<1>2. /\ Sound(List!Sort(lists, l), r, Two) /\ Same(sequences, r, Two, {l}) /\ Sorted(p, r[l])
      /\ Len(r[l]) = Len(p)
    BY <1>1 DEF Arranged
<1>3. EachOnce(p) /\ EachOnce(r[l])
    BY <1>2, SameSingle DEF Same
<1>4. \A z \in Int : Among(z, r[l]) <=> Among(z, p)
    BY <1>2, SameList
<1>5. Sorting(p, r[l])
    BY <1>2, <1>3, <1>4 DEF Sorting
<1>6. r[l] = List!StablySorted(p)
    BY <1>3, <1>5, StablySortedIs
<1>7. r = [sequences EXCEPT ![l] = List!StablySorted(p)]
    <2>1. sequences \in [Two -> Seq(Int)] /\ r \in [Two -> Seq(Int)]
        BY <1>2 DEF Same, Apart
    <2>2. \A d \in Two : d # l => r[d] = sequences[d]
        BY <1>2 DEF Same
    <2>3. QED
        BY <1>6, <2>1, <2>2
<1>8. lists' = List!Sort(lists, l) /\ sequences' = [sequences EXCEPT ![l] = List!StablySorted(p)]
    BY DEF List!ListSort
<1>9. Sound(lists', sequences', Two)
    BY <1>2, <1>7, <1>8
<1>10. QED
    BY <1>9 DEF ListInv, Two

LEMMA MovedIs ==
    ASSUME ListInv, NEW from \in Two, NEW l \in Two, NEW i, NEW j, NEW k
    PROVE  List!Moved(from, i, j, l, k) = Move(sequences, from, i, j, l, k)
<1>1. sequences \in [Two -> Seq(Int)]
    BY PlacesAre
<1>2. CASE l = from
    BY <1>1, <1>2 DEF List!Moved, Move, Spliced, Shifted
<1>3. CASE l # from
    BY <1>1, <1>3 DEF List!Moved, Move, Given2
<1>4. QED
    BY <1>2, <1>3

LEMMA ListSpliceStep ==
    ASSUME ListInv, NEW k \in List!Places(List!A), List!ListSplice(k)
    PROVE  ListInv'
<1> DEFINE w == sequences[List!B]
           y == sequences[List!A]
           n == Len(w)
           M == Move(sequences, List!B, 1, n + 1, List!A, k)
<1>1. List!A \in Two /\ List!B \in Two /\ List!A # List!B
    BY TwoAre
<1>2. /\ w \in Seq(Int) /\ n \in Nat /\ k \in 1 .. Len(y) + 1 /\ List!B \in Int
      /\ List!NodeAt(List!A, k) = NodeOf(y, List!A, k)
    BY <1>1, PlacesAre
<1>3. NodeOf(w, List!B, n + 1) = List!B
    BY <1>2, NodesAre
<1>4. List!Begin(lists, List!B) = NodeOf(w, List!B, 1)
    BY <1>1, Neighbours DEF ListInv
<1>5. 1 \in 1 .. n + 1 /\ n + 1 \in 1 .. n + 1 /\ 1 =< n + 1 /\ (1 < n + 1 \/ 1 = n + 1)
    BY <1>2
<1>6. /\ 1 < n + 1 => Sound(List!Transfer(lists, NodeOf(y, List!A, k), NodeOf(w, List!B, 1), NodeOf(w, List!B, n + 1)), M, Two)
      /\ 1 = n + 1 => Sound(lists, M, Two)
    BY <1>1, <1>2, <1>5, RangeMoves DEF ListInv
<1> DEFINE t == List!Splice(lists, NodeOf(y, List!A, k), List!B)
<1> HIDE DEF M
<1>7. t = List!Transfer(lists, NodeOf(y, List!A, k), NodeOf(w, List!B, 1), NodeOf(w, List!B, n + 1))
    BY <1>3, <1>4 DEF List!Splice
<1>8. 1 = n + 1 => t = lists
    BY <1>7 DEF List!Transfer
<1> HIDE DEF t
<1>9. Sound(t, M, Two)
    BY <1>5, <1>6, <1>7, <1>8
<1>10. lists' = t /\ sequences' = M
    BY <1>1, <1>2, MovedIs DEF List!ListSplice, t, M
<1>11. Sound(lists', sequences', Two)
    BY <1>9, <1>10
<1>12. QED
    BY <1>11 DEF ListInv, Two

LEMMA ListSpliceRangeStep ==
    ASSUME ListInv, NEW from \in Two, NEW k \in List!Places(List!A), NEW i \in List!Places(from), NEW j \in List!Places(from),
           List!ListSpliceRange(from, i, j, k)
    PROVE  ListInv'
<1> DEFINE w == sequences[from]
           y == sequences[List!A]
           M == Move(sequences, from, i, j, List!A, k)
<1>1. List!A \in Two
    BY TwoAre
<1>2. /\ k \in 1 .. Len(y) + 1 /\ i \in 1 .. Len(w) + 1 /\ j \in 1 .. Len(w) + 1
      /\ List!NodeAt(List!A, k) = NodeOf(y, List!A, k)
      /\ List!NodeAt(from, i) = NodeOf(w, from, i) /\ List!NodeAt(from, j) = NodeOf(w, from, j)
    BY <1>1, PlacesAre
<1>3. i =< j /\ (List!A = from => k < i \/ k >= j)
    BY DEF List!ListSpliceRange
<1>4. Sound(List!SpliceRange(lists, NodeOf(y, List!A, k), NodeOf(w, from, i), NodeOf(w, from, j)), M, Two)
    BY <1>1, <1>2, <1>3, RangeMoves DEF ListInv
<1>5. /\ lists' = List!SpliceRange(lists, NodeOf(y, List!A, k), NodeOf(w, from, i), NodeOf(w, from, j))
      /\ sequences' = M
    BY <1>1, <1>2, MovedIs DEF List!ListSpliceRange
<1>6. Sound(lists', sequences', Two)
    BY <1>4, <1>5
<1>7. QED
    BY <1>6 DEF ListInv, Two

LEMMA ListSpliceOneStep ==
    ASSUME ListInv, NEW from \in Two, NEW k \in List!Places(List!A), NEW i \in DOMAIN sequences[from],
           List!ListSpliceOne(from, i, k)
    PROVE  ListInv'
<1> DEFINE w == sequences[from]
           y == sequences[List!A]
           M == Move(sequences, from, i, i + 1, List!A, k)
           u == NodeOf(y, List!A, k)
           first == NodeOf(w, from, i)
           last == NodeOf(w, from, i + 1)
<1>1. List!A \in Two
    BY TwoAre
<1>2. /\ k \in 1 .. Len(y) + 1 /\ i \in 1 .. Len(w) /\ w \in Seq(Int) /\ Len(w) \in Nat /\ y \in Seq(Int) /\ Len(y) \in Nat
      /\ List!NodeAt(List!A, k) = u /\ List!NodeAt(from, i) = first /\ sequences \in [Two -> Seq(Int)]
    BY <1>1, PlacesAre
<1>3. /\ i \in 1 .. Len(w) + 1 /\ i + 1 \in 1 .. Len(w) + 1 /\ i =< i + 1 /\ i < i + 1 /\ i \in 0 .. Len(w)
    BY <1>2
<1>4. List!At(lists, first, "next") = last
    BY <1>3, Neighbours DEF ListInv
<1>5. u = first <=> from = List!A /\ k = i
    <2>1. Apart(sequences, Two)
        BY DEF ListInv, Sound, Ringed
    <2>2. u = first => List!A = from /\ k = i
        BY <1>1, <1>2, <1>3, <2>1, NodesDiffer
    <2>3. QED
        BY <2>2
<1>6. u = last <=> from = List!A /\ k = i + 1
    <2>1. Apart(sequences, Two)
        BY DEF ListInv, Sound, Ringed
    <2>2. u = last => List!A = from /\ k = i + 1
        BY <1>1, <1>2, <1>3, <2>1, NodesDiffer
    <2>3. QED
        BY <2>2
<1>7. CASE from = List!A /\ k = i
    <2>1. lists' = lists /\ sequences' = sequences
        BY <1>2, <1>4, <1>5, <1>7 DEF List!ListSpliceOne, List!SpliceOne
    <2>2. Sound(lists', sequences', Two)
        BY <2>1 DEF ListInv
    <2>3. QED
        BY <2>2 DEF ListInv, Two
<1>8. CASE from = List!A /\ k = i + 1
    <2>1. Shifted(w, i, i + 1, i + 1) = w
        BY <1>2, <1>3, MovedWithin
    <2>2. M = sequences
        BY <1>2, <1>8, <2>1 DEF Move, Spliced
    <2>3. lists' = lists
        BY <1>2, <1>4, <1>6, <1>8 DEF List!ListSpliceOne, List!SpliceOne
    <2>4. sequences' = M
        <3>1. ~ (from = List!A /\ k = i)
            BY <1>2, <1>8
        <3>2. QED
            BY <1>1, <3>1, MovedIs DEF List!ListSpliceOne
    <2> HIDE DEF M
    <2>5. Sound(lists', sequences', Two)
        BY <2>2, <2>3, <2>4 DEF ListInv
    <2>6. QED
        BY <2>5 DEF ListInv, Two
<1>9. CASE ~ (from = List!A /\ k = i) /\ ~ (from = List!A /\ k = i + 1)
    <2>1. List!A = from => k < i \/ k >= i + 1
        BY <1>2, <1>9
    <2>2. Sound(List!Transfer(lists, u, first, last), M, Two)
        BY <1>1, <1>2, <1>3, <2>1, RangeMoves DEF ListInv
    <2> HIDE DEF u, first, last
    <2>3. lists' = List!Transfer(lists, u, first, last)
        BY <1>2, <1>4, <1>5, <1>6, <1>9 DEF List!ListSpliceOne, List!SpliceOne
    <2>4. sequences' = M
        BY <1>1, <1>9, MovedIs DEF List!ListSpliceOne
    <2> HIDE DEF M
    <2>5. Sound(lists', sequences', Two)
        BY <2>2, <2>3, <2>4
    <2>6. QED
        BY <2>5 DEF ListInv, Two
<1>10. QED
    BY <1>7, <1>8, <1>9

\* Two lists one behind the other, for which merge finds the order.
LEMMA BehindEachOther ==
    ASSUME NEW D, NEW q, Apart(q, D), NEW l \in D, NEW x \in D, l # x, NEW p, p = q[l] \o q[x],
           List!Ordered(q[l]), List!Ordered(q[x])
    PROVE  /\ EachOnce(p) /\ Len(p) = Len(q[l]) + Len(q[x]) /\ Merges(p, q[l], q[x], 1)
           /\ \A z \in Int : Among(z, p) <=> Among(z, q[l]) \/ Among(z, q[x])
<1> DEFINE v == q[l]
           u == q[x]
           n == Len(v)
           e == Len(u)
<1>1. v \in Seq(Int) /\ n \in Nat /\ u \in Seq(Int) /\ e \in Nat
    BY SameSingle
<1>2. /\ DOMAIN v = 1 .. n /\ DOMAIN u = 1 .. e
      /\ \A i \in 1 .. n : v[i] \in Int
      /\ \A i \in 1 .. e : u[i] \in Int
    BY <1>1
<1>3. /\ \A i, j \in 1 .. n : v[i] = v[j] => i = j
      /\ \A i, j \in 1 .. e : u[i] = u[j] => i = j
      /\ \A i \in 1 .. n, j \in 1 .. e : v[i] # u[j]
    BY OnePlace
<1>4. /\ \A i, j \in 1 .. n : i < j => List!ValueOf(v[i]) =< List!ValueOf(v[j])
      /\ \A i, j \in 1 .. e : i < j => List!ValueOf(u[i]) =< List!ValueOf(u[j])
    BY <1>2 DEF List!Ordered
<1> HIDE DEF v, u
<1>5. p \in Seq(Int) /\ Len(p) = n + e /\ \A i \in 1 .. n + e : p[i] = IF i =< n THEN v[i] ELSE u[i - n]
    <2>1. p = v \o u
        BY DEF v, u
    <2>2. QED
        BY <1>1, <2>1
<1>6. n \in Nat /\ e \in Nat
    BY <1>1
<1> HIDE DEF n, e
<1>7. /\ \A i \in 1 .. n : p[i] = v[i] /\ i \in 1 .. n + e
      /\ \A i \in 1 .. e : p[i + n] = u[i] /\ i + n \in 1 .. n + e
    <2>1. ASSUME NEW i \in 1 .. n PROVE p[i] = v[i] /\ i \in 1 .. n + e
        <3>1. i \in 1 .. n + e /\ i =< n
            BY <1>6
        <3>2. QED
            BY <1>5, <3>1
    <2>2. ASSUME NEW i \in 1 .. e PROVE p[i + n] = u[i] /\ i + n \in 1 .. n + e
        <3>1. i + n \in 1 .. n + e /\ ~ (i + n =< n) /\ (i + n) - n = i
            BY <1>1
        <3>2. QED
            BY <1>5, <3>1
    <2>3. QED
        BY <2>1, <2>2
<1>8. ASSUME NEW i \in 1 .. n + e
      PROVE  (i \in 1 .. n /\ p[i] = v[i]) \/ (i - n \in 1 .. e /\ p[i] = u[i - n])
    <2>1. CASE i =< n
        <3>1. i \in 1 .. n
            BY <1>6, <2>1
        <3>2. QED
            BY <1>5, <2>1, <3>1
    <2>2. CASE ~ (i =< n)
        <3>1. i - n \in 1 .. e
            BY <1>6, <2>2
        <3>2. QED
            BY <1>5, <2>2, <3>1
    <2>3. QED
        BY <2>1, <2>2
<1>9. EachOnce(p)
    <2>1. ASSUME NEW i \in 1 .. n + e, NEW j \in 1 .. n + e, p[i] = p[j] PROVE i = j
        <3>1. CASE i \in 1 .. n /\ j \in 1 .. n
            BY <1>3, <1>7, <2>1, <3>1
        <3>2. CASE i - n \in 1 .. e /\ j - n \in 1 .. e /\ p[i] = u[i - n] /\ p[j] = u[j - n]
            <4>1. i - n = j - n
                BY <1>3, <2>1, <3>2
            <4>2. QED
                BY <1>6, <4>1
        <3>3. CASE i \in 1 .. n /\ p[i] = v[i] /\ j - n \in 1 .. e /\ p[j] = u[j - n]
            BY <1>3, <2>1, <3>3
        <3>4. CASE j \in 1 .. n /\ p[j] = v[j] /\ i - n \in 1 .. e /\ p[i] = u[i - n]
            BY <1>3, <2>1, <3>4
        <3>5. QED
            BY <1>8, <3>1, <3>2, <3>3, <3>4
    <2>2. QED
        BY <1>5, <2>1 DEF EachOnce
<1>10. DOMAIN p = 1 .. n + e
    <2>1. p \in Seq(Int) /\ Len(p) = n + e
        BY <1>5
    <2>2. DOMAIN p = 1 .. Len(p)
        BY <2>1, LenProperties, Zenon
    <2>3. QED
        BY <2>1, <2>2
<1>11. ASSUME NEW i \in 1 .. n, NEW j \in 1 .. n, i < j PROVE List!Sooner(p, v[i], v[j])
    <2>1. List!ValueOf(v[i]) \in Int /\ List!ValueOf(v[j]) \in Int /\ List!ValueOf(v[i]) =< List!ValueOf(v[j])
        BY <1>2, <1>4, <1>11, ValueIs
    <2>2. List!Precedes(p, v[i], v[j])
        BY <1>7, <1>10, <1>11 DEF List!Precedes
    <2>3. QED
        BY <2>1, <2>2 DEF List!Sooner
<1>12. ASSUME NEW i \in 1 .. e, NEW j \in 1 .. e, i < j PROVE List!Sooner(p, u[i], u[j])
    <2>1. List!ValueOf(u[i]) \in Int /\ List!ValueOf(u[j]) \in Int /\ List!ValueOf(u[i]) =< List!ValueOf(u[j])
        BY <1>2, <1>4, <1>12, ValueIs
    <2>2. List!Precedes(p, u[i], u[j])
        <3>1. i + n < j + n
            BY <1>1, <1>12
        <3>2. QED
            BY <1>7, <1>10, <3>1 DEF List!Precedes
    <2>3. QED
        BY <2>1, <2>2 DEF List!Sooner
<1>13. ASSUME NEW i \in 1 .. n, NEW j \in 1 .. e, List!ValueOf(v[i]) =< List!ValueOf(u[j]) PROVE List!Sooner(p, v[i], u[j])
    <2>1. List!ValueOf(v[i]) \in Int /\ List!ValueOf(u[j]) \in Int
        BY <1>2, ValueIs
    <2>2. List!Precedes(p, v[i], u[j])
        <3>1. i < j + n
            BY <1>1
        <3>2. QED
            BY <1>7, <1>10, <3>1 DEF List!Precedes
    <2>3. QED
        BY <1>13, <2>1, <2>2 DEF List!Sooner
<1>14. Merges(p, v, u, 1)
    <2>1. \A j \in 1 .. n : ~ (j < 1)
        OBVIOUS
    <2>2. 1 \in 1 .. n + 1
        BY <1>1
    <2>3. Sorted(p, v) /\ Sorted(p, u)
        BY <1>11, <1>12 DEF Sorted, n, e
    <2>4. QED
        BY <1>1, <1>13, <2>1, <2>2, <2>3 DEF Merges, n, e
<1>15. ASSUME NEW z \in Int PROVE Among(z, p) <=> Among(z, v) \/ Among(z, u)
    <2>1. Among(z, v) => Among(z, p)
        BY <1>5, <1>7 DEF Among, n
    <2>2. Among(z, u) => Among(z, p)
        BY <1>5, <1>7 DEF Among, e
    <2>3. Among(z, p) => Among(z, v) \/ Among(z, u)
        BY <1>5, <1>8 DEF Among, n, e
    <2>4. QED
        BY <2>1, <2>2, <2>3
<1>16. QED
    BY <1>5, <1>9, <1>14, <1>15 DEF v, u, n, e

LEMMA ListMergeStep ==
    ASSUME ListInv, List!ListMerge
    PROVE  ListInv'
<1> DEFINE l == List!A
           x == List!B
           p == sequences[l] \o sequences[x]
           R == [sequences EXCEPT ![l] = List!StablySorted(p), ![x] = <<>>]
<1>1. l \in Two /\ x \in Two /\ l # x /\ \A d \in Two : d = l \/ d = x
    BY TwoAre
<1>2. Apart(sequences, Two) /\ Sound(lists, sequences, Two)
    BY DEF ListInv, Sound, Ringed
<1>3. List!Ordered(sequences[l]) /\ List!Ordered(sequences[x])
    BY DEF List!ListMerge
<1> HIDE DEF l, x, p
<1>4. EachOnce(p) /\ Merges(p, sequences[l], sequences[x], 1)
    BY <1>1, <1>2, <1>3, BehindEachOther DEF p
<1>5. Len(p) = Len(sequences[l]) + Len(sequences[x])
    BY <1>1, <1>2, <1>3, BehindEachOther DEF p
<1>6. \A z \in Int : Among(z, p) <=> Among(z, sequences[l]) \/ Among(z, sequences[x])
    BY <1>1, <1>2, <1>3, BehindEachOther DEF p
<1>7. PICK r : Merged(p, sequences, Two, l, x, List!Merge(lists, l, x), r)
    BY <1>1, <1>2, <1>4, MergeIs
<1>8. /\ Sound(List!Merge(lists, l, x), r, Two) /\ Same(sequences, r, Two, {l, x}) /\ r[x] = <<>>
      /\ Sorted(p, r[l]) /\ Len(r[l]) = Len(p)
    BY <1>5, <1>7 DEF Merged
<1>9. ASSUME NEW z \in Int PROVE Among(z, r[l]) <=> Among(z, p)
    <2>1. InOne(z, sequences, {l, x}) <=> InOne(z, r, {l, x})
        BY <1>8, SameContent
    <2>2. ~ Among(z, r[x])
        <3>1. \A i \in 1 .. Len(<<>>) : FALSE
            OBVIOUS
        <3>2. QED
            BY <1>8, <3>1 DEF Among
    <2>3. QED
        BY <1>6, <2>1, <2>2 DEF InOne
<1>10. EachOnce(r[l])
    BY <1>1, <1>8, SameSingle DEF Same
<1>11. Sorting(p, r[l])
    BY <1>8, <1>9, <1>10 DEF Sorting
<1>12. r[l] = List!StablySorted(p)
    BY <1>4, <1>11, StablySortedIs
<1>13. r = R
    <2>1. sequences \in [Two -> Seq(Int)] /\ r \in [Two -> Seq(Int)]
        BY <1>8 DEF Same, Apart
    <2>2. QED
        BY <1>1, <1>8, <1>12, <2>1
<1>14. lists' = List!Merge(lists, l, x) /\ sequences' = R
    BY DEF List!ListMerge, l, x, p
<1>15. Sound(lists', sequences', Two)
    BY <1>8, <1>13, <1>14
<1>16. QED
    BY <1>15 DEF ListInv, Two

\* Every action keeps the lists sound.
LEMMA ListStep ==
    ASSUME ListInv, ListAssumption, List!ListNext
    PROVE  ListInv'
<1>1. CASE \E l \in Two : \E i \in List!Places(l), x \in List!ListNodes : List!ListInsert(l, i, x)
    BY <1>1, ListInsertStep
<1>2. CASE \E l \in Two : \E i \in DOMAIN sequences[l] : List!ListErase(l, i)
    BY <1>2, ListEraseStep
<1>3. CASE \E l \in Two : \E unwanted \in SUBSET ListValues : List!ListRemoveIf(l, unwanted)
    BY <1>3, ListRemoveIfStep
<1>4. CASE \E l \in Two : List!ListUnique(l)
    BY <1>4, ListUniqueStep
<1>5. CASE \E l \in Two : List!ListReverse(l)
    BY <1>5, ListReverseStep
<1>6. CASE \E l \in Two : \E i, j \in List!Places(l) : List!ListReverseRange(l, i, j)
    BY <1>6, ListReverseRangeStep
<1>7. CASE \E l \in Two : \E k \in 1 .. MostNodes + 1 : List!ListRotate(l, k)
    <2>1. PICK l \in Two, k \in 1 .. MostNodes + 1 : List!ListRotate(l, k)
        BY <1>7
    <2>2. k \in Nat
        BY ListAssumption DEF ListAssumption
    <2>3. QED
        BY <2>1, <2>2, ListRotateStep
<1>8. CASE \E l \in Two : List!ListSort(l)
    BY <1>8, ListSortStep
<1>9. CASE \E k \in List!Places(List!A) : List!ListSplice(k)
    BY <1>9, ListSpliceStep
<1>10. CASE \E from \in Two, k \in List!Places(List!A) : \E i \in DOMAIN sequences[from] : List!ListSpliceOne(from, i, k)
    BY <1>10, ListSpliceOneStep
<1>11. CASE \E from \in Two, k \in List!Places(List!A) : \E i, j \in List!Places(from) : List!ListSpliceRange(from, i, j, k)
    BY <1>11, ListSpliceRangeStep
<1>12. CASE List!ListMerge
    BY <1>12, ListMergeStep
<1>13. QED
    BY <1>1, <1>2, <1>3, <1>4, <1>5, <1>6, <1>7, <1>8, <1>9, <1>10, <1>11, <1>12 DEF List!ListNext, Two

\* The invariant: memory holds the rings of the two sequences.
ListKept == which = "list" => ListInv

\* Every step of the model keeps it.
LEMMA ListKeptStep ==
    ASSUME ListAssumption, ListKept, [NodesNext]_nodesVars
    PROVE  ListKept'
<1>1. CASE UNCHANGED nodesVars
    BY <1>1 DEF ListKept, ListInv, nodesVars, nodes
<1>2. CASE NodesNext /\ which # "list"
    BY <1>2 DEF NodesNext, ListKept
<1>3. CASE NodesNext /\ which = "list"
    <2>1. which' = which /\ List!ListNext /\ ListInv
        BY <1>3 DEF NodesNext, ListKept
    <2>2. ListInv'
        BY <2>1, ListAssumption, ListStep
    <2>3. QED
        BY <2>2 DEF ListKept
<1>4. QED
    BY <1>1, <1>2, <1>3

\* Whatever is inserted, erased, spliced, reversed, rotated, merged and sorted:
\* both lists hold the right nodes in the right order, read forwards and
\* backwards, and no node is lost or in two places.  For any values and any
\* number of nodes.
THEOREM ListAlwaysHolds == NodesSpec => []ListHolds
<1>1. NodesInit => ListKept
    BY ListStarts DEF NodesInit, ListKept
<1>2. ListKept /\ [NodesNext]_nodesVars => ListKept'
    BY ListAssumption, ListKeptStep
<1>3. ListKept => ListHolds
    BY ListInvAgrees DEF ListKept, ListHolds
<1>4. QED
    BY <1>1, <1>2, <1>3, PTL DEF NodesSpec

\* All three: the hash table's and the trie's lookups answer with what was put
\* in and not removed, and the trie lists as many strings as it holds (not
\* necessarily those); the list holds its sequences.  For callers that
\* erase no second key of a chain and no range from a table with longer chains
\* than one, and never remove the empty string.
THEOREM NodesAlwaysAgree ==
    ASSUME CarefulHash, CarefulTrie
    PROVE  NodesSpec => []NodesAgree
<1>1. NodesAgree <=> HashAgrees /\ TrieFinds /\ ListHolds
    BY DEF NodesAgree
<1>2. QED
    BY <1>1, HashAlwaysAgrees, TrieAlwaysFinds, ListAlwaysHolds, PTL

=============================================================================

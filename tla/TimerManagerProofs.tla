------------------------- MODULE TimerManagerProofs -------------------------
(***************************************************************************)
(* Proofs about TimerManager, for any timers, intervals and bounds.        *)
(*                                                                         *)
(* The types hold whatever callers do.  The two tables hold the same       *)
(* timers as long as no timer is cancelled that expires with another       *)
(* (~Ties): cancelInLoop then erases the right one.  What carries the      *)
(* other results is that the multimap is sorted and holds no timer twice   *)
(* (InOrder), and that the timers of the batch being run are in no table   *)
(* (BatchApart): one of them cancelled by a callback is remembered in      *)
(* cancelledTimers, any other is taken out of both tables.                 *)
(*                                                                         *)
(* The loop of reset goes through a batch of any length.  Facts about it,  *)
(* and about the position std::multimap::insert finds, are proved by       *)
(* induction in the form of a least counterexample (LeastElement), which   *)
(* needs no operator as a parameter.                                       *)
(***************************************************************************)
EXTENDS TimerManager, SequenceTheorems, FiniteSetTheorems, TLAPS

-----------------------------------------------------------------------------
(* Induction over the naturals, as the existence of a least counterexample. *)

Below == {ss \in Nat \X Nat : ss[1] < ss[2]}

LEMMA LeastElement ==
    ASSUME NEW T \in SUBSET Nat, T # {}
    PROVE  \E x \in T : \A y \in T : x <= y
<1>1. IsWellFoundedOn(Below, Nat)
    BY NatLessThanWellFounded, Zenon DEF OpToRel, Below
<1>2. PICK x \in T : \A y \in T : <<y, x>> \notin Below
    BY <1>1, WFMin
<1>3. ASSUME NEW y \in T PROVE x <= y
    <2>1. <<y, x>> \notin Below /\ x \in Nat /\ y \in Nat
        BY <1>2
    <2>2. ~ (y < x)
        BY <2>1 DEF Below
    <2>3. QED
        BY <2>1, <2>2
<1>4. QED
    BY <1>3

\* A set of naturals that holds 0 and the successor of each of its elements
\* up to n holds all of 0 .. n.
LEMMA Induction ==
    ASSUME NEW n \in Nat, NEW P, 0 \in P, \A i \in 0 .. n - 1 : i \in P => i + 1 \in P
    PROVE  \A i \in 0 .. n : i \in P
<1> SUFFICES ASSUME NEW i \in 0 .. n, i \notin P PROVE FALSE
    OBVIOUS
<1>1. {j \in 0 .. n : j \notin P} \in SUBSET Nat /\ i \in {j \in 0 .. n : j \notin P}
    OBVIOUS
<1>2. PICK m \in {j \in 0 .. n : j \notin P} :
           \A y \in {j \in 0 .. n : j \notin P} : m <= y
    BY <1>1, LeastElement
<1>3. m # 0 /\ m \in 0 .. n /\ m \notin P
    BY <1>2
<1>4. m - 1 \in 0 .. n - 1 /\ m - 1 \in 0 .. n /\ m = (m - 1) + 1
    BY <1>3
<1>5. m - 1 \notin P
    BY <1>3, <1>4
<1>6. QED
    BY <1>2, <1>4, <1>5

-----------------------------------------------------------------------------
(* Where a timer goes in the multimap. *)

AnyTimer == [at : Int, id : Timers]

LEMMA UpperBoundExists ==
    ASSUME NEW s \in Seq(AnyTimer), NEW at \in Int
    PROVE  \E n \in 0 .. Len(s) :
               /\ \A i \in 1 .. n : s[i].at <= at
               /\ n < Len(s) => s[n + 1].at > at
<1> DEFINE T == {i \in 1 .. Len(s) : s[i].at > at}
<1>1. Len(s) \in Nat /\ \A i \in 1 .. Len(s) : s[i].at \in Int
    <2>1. \A i \in 1 .. Len(s) : s[i] \in AnyTimer
        OBVIOUS
    <2>2. QED
        BY <2>1 DEF AnyTimer
<1>2. CASE T = {}
    <2>1. \A i \in 1 .. Len(s) : s[i].at <= at
        BY <1>1, <1>2
    <2>2. QED
        BY <1>1, <2>1
<1>3. CASE T # {}
    <2>1. T \in SUBSET Nat
        BY <1>1
    <2>2. PICK m \in T : \A y \in T : m <= y
        BY <1>3, <2>1, LeastElement
    <2>3. m \in 1 .. Len(s) /\ s[m].at > at
        BY <2>2
    <2>4. ASSUME NEW i \in 1 .. m - 1 PROVE s[i].at <= at
        <3>1. i \in 1 .. Len(s) /\ ~ (m <= i)
            BY <1>1, <2>3
        <3>2. i \notin T
            BY <2>2, <3>1
        <3>3. QED
            BY <1>1, <3>1, <3>2
    <2>5. m - 1 \in 0 .. Len(s) /\ (m - 1) + 1 = m
        BY <1>1, <2>3
    <2>6. QED
        BY <2>3, <2>4, <2>5
<1>4. QED
    BY <1>2, <1>3

LEMMA UpperBoundIs ==
    ASSUME NEW s \in Seq(AnyTimer), NEW at \in Int
    PROVE  /\ UpperBound(s, at) \in 0 .. Len(s)
           /\ \A i \in 1 .. UpperBound(s, at) : s[i].at <= at
           /\ UpperBound(s, at) < Len(s) => s[UpperBound(s, at) + 1].at > at
<1> DEFINE Fits(n) == (\A i \in 1 .. n : s[i].at <= at) /\ (n < Len(s) => s[n + 1].at > at)
<1>1. \E n \in 0 .. Len(s) : Fits(n)
    BY UpperBoundExists
<1>2. UpperBound(s, at) = CHOOSE n \in 0 .. Len(s) : Fits(n)
    BY DEF UpperBound
<1> HIDE DEF Fits
<1>3. UpperBound(s, at) \in 0 .. Len(s) /\ Fits(UpperBound(s, at))
    BY <1>1, <1>2, Zenon
<1>4. QED
    BY <1>3 DEF Fits

LEMMA SuffixIs ==
    ASSUME NEW R, NEW s \in Seq(R), NEW n \in 0 .. Len(s)
    PROVE  /\ SubSeq(s, n + 1, Len(s)) \in Seq(R)
           /\ Len(SubSeq(s, n + 1, Len(s))) = Len(s) - n
           /\ \A i \in 1 .. Len(s) - n : SubSeq(s, n + 1, Len(s))[i] = s[n + i]
<1>1. Len(s) \in Nat /\ n \in Nat /\ n <= Len(s)
    OBVIOUS
<1>2. QED
    BY <1>1

LEMMA InsertAtIs ==
    ASSUME NEW R, NEW s \in Seq(R), NEW x \in R, NEW n \in 0 .. Len(s)
    PROVE  /\ InsertAt(s, n + 1, x) \in Seq(R)
           /\ Len(InsertAt(s, n + 1, x)) = Len(s) + 1
           /\ \A i \in 1 .. n : InsertAt(s, n + 1, x)[i] = s[i]
           /\ InsertAt(s, n + 1, x)[n + 1] = x
           /\ \A i \in n + 1 .. Len(s) : InsertAt(s, n + 1, x)[i + 1] = s[i]
<1> DEFINE a == SubSeq(s, 1, n)
           b == SubSeq(s, n + 1, Len(s))
           c == a \o <<x>>
           t == InsertAt(s, n + 1, x)
<1>1. Len(s) \in Nat /\ n \in Nat /\ n <= Len(s) /\ (n + 1) - 1 = n
    OBVIOUS
<1>2. a \in Seq(R) /\ Len(a) = n /\ \A i \in 1 .. n : a[i] = s[i]
    BY <1>1
<1>3. b \in Seq(R) /\ Len(b) = Len(s) - n /\ \A i \in 1 .. Len(s) - n : b[i] = s[n + i]
    BY <1>1
<1>4. t = c \o b
    BY <1>1 DEF InsertAt
<1> HIDE DEF a, b, t
<1>5. c \in Seq(R) /\ Len(c) = n + 1 /\ (\A i \in 1 .. n : c[i] = s[i]) /\ c[n + 1] = x
    BY <1>1, <1>2
<1> HIDE DEF c
<1>6. b \in Seq(R) /\ c \in Seq(R)
    BY <1>3, <1>5
<1>7. /\ t \in Seq(R) /\ Len(t) = Len(c) + Len(b)
      /\ \A i \in 1 .. Len(c) + Len(b) : t[i] = IF i <= Len(c) THEN c[i] ELSE b[i - Len(c)]
    BY ONLY <1>4, <1>6, ConcatProperties
<1>8. Len(c) = n + 1 /\ Len(b) = Len(s) - n
    BY <1>3, <1>5
<1>9. ASSUME NEW i \in 1 .. n PROVE t[i] = s[i]
    BY <1>1, <1>5, <1>7, <1>8
<1>10. t[n + 1] = x
    BY <1>1, <1>5, <1>7, <1>8
<1>11. ASSUME NEW i \in n + 1 .. Len(s) PROVE t[i + 1] = s[i]
    <2>1. /\ i + 1 \in 1 .. Len(c) + Len(b) /\ ~ (i + 1 <= Len(c))
          /\ (i + 1) - Len(c) = i - n
          /\ i - n \in 1 .. Len(s) - n /\ n + (i - n) = i
        BY ONLY <1>1, <1>8, <1>11
    <2>2. t[i + 1] = b[i - n]
        BY <1>7, <2>1
    <2>3. QED
        BY <1>3, <2>1, <2>2
<1>12. Len(t) = Len(s) + 1
    BY <1>1, <1>7, <1>8
<1>13. QED
    BY <1>7, <1>9, <1>10, <1>11, <1>12 DEF t

LEMMA RemoveAtIs ==
    ASSUME NEW R, NEW s \in Seq(R), NEW k \in 1 .. Len(s)
    PROVE  /\ RemoveAt(s, k) \in Seq(R)
           /\ Len(RemoveAt(s, k)) = Len(s) - 1
           /\ \A i \in 1 .. k - 1 : RemoveAt(s, k)[i] = s[i]
           /\ \A i \in k .. Len(s) - 1 : RemoveAt(s, k)[i] = s[i + 1]
<1> DEFINE a == SubSeq(s, 1, k - 1)
           b == SubSeq(s, k + 1, Len(s))
           t == RemoveAt(s, k)
<1>1. Len(s) \in Nat /\ k \in Nat /\ 1 <= k /\ k <= Len(s)
    OBVIOUS
<1>2. a \in Seq(R) /\ Len(a) = k - 1 /\ \A i \in 1 .. k - 1 : a[i] = s[i]
    BY <1>1
<1>3. b \in Seq(R) /\ Len(b) = Len(s) - k /\ \A i \in 1 .. Len(s) - k : b[i] = s[k + i]
    BY <1>1
<1>4. t = a \o b
    BY DEF RemoveAt
<1> HIDE DEF a, b, t
<1>5. a \in Seq(R) /\ b \in Seq(R)
    BY <1>2, <1>3
<1>6. /\ t \in Seq(R) /\ Len(t) = Len(a) + Len(b)
      /\ \A i \in 1 .. Len(a) + Len(b) : t[i] = IF i <= Len(a) THEN a[i] ELSE b[i - Len(a)]
    BY ONLY <1>4, <1>5, ConcatProperties
<1>7. Len(a) = k - 1 /\ Len(b) = Len(s) - k
    BY <1>2, <1>3
<1>8. Len(t) = Len(s) - 1
    BY <1>1, <1>6, <1>7
<1>9. ASSUME NEW i \in 1 .. k - 1 PROVE t[i] = s[i]
    BY <1>1, <1>2, <1>6, <1>7
<1>10. ASSUME NEW i \in k .. Len(s) - 1 PROVE t[i] = s[i + 1]
    <2>1. /\ i \in 1 .. Len(a) + Len(b) /\ ~ (i <= Len(a))
          /\ i - Len(a) = i - (k - 1)
          /\ i - (k - 1) \in 1 .. Len(s) - k /\ k + (i - (k - 1)) = i + 1
        BY ONLY <1>1, <1>7, <1>10
    <2>2. t[i] = b[i - (k - 1)]
        BY <1>6, <2>1
    <2>3. QED
        BY <1>3, <2>1, <2>2
<1>11. QED
    BY <1>6, <1>8, <1>9, <1>10 DEF t

-----------------------------------------------------------------------------
(* The multimap: sorted, and no timer in it twice. *)

InOrder(s) ==
    /\ s \in Seq(AnyTimer)
    /\ \A i, j \in 1 .. Len(s) : i <= j => s[i].at <= s[j].at
    /\ \A i, j \in 1 .. Len(s) : s[i].id = s[j].id => i = j

LEMMA TimerOf ==
    ASSUME NEW s \in Seq(AnyTimer)
    PROVE  /\ Len(s) \in Nat
           /\ \A i \in 1 .. Len(s) : s[i] \in AnyTimer /\ s[i].at \in Int /\ s[i].id \in Timers
<1>1. \A i \in 1 .. Len(s) : s[i] \in AnyTimer
    OBVIOUS
<1>2. QED
    BY <1>1 DEF AnyTimer

LEMMA InToSet ==
    ASSUME NEW s, InOrder(s)
    PROVE  \A k \in 1 .. Len(s) : s[k] \in ToSet(s)
BY DEF InOrder, ToSet

\* The elements of a sequence that is another one with an element inserted.
LEMMA ElementsWithInsert ==
    ASSUME NEW s, NEW t, NEW x, NEW n \in 0 .. Len(s), Len(s) \in Nat,
           DOMAIN s = 1 .. Len(s), DOMAIN t = 1 .. Len(s) + 1,
           \A i \in 1 .. n : t[i] = s[i],
           t[n + 1] = x,
           \A i \in n + 1 .. Len(s) : t[i + 1] = s[i]
    PROVE  ToSet(t) = ToSet(s) \cup {x}
<1>1. ASSUME NEW i \in 1 .. Len(s) PROVE s[i] \in ToSet(t)
    <2>1. CASE i <= n
        <3>1. i \in DOMAIN t /\ t[i] = s[i]
            BY <2>1
        <3>2. QED
            BY <3>1 DEF ToSet
    <2>2. CASE ~ (i <= n)
        <3>1. i + 1 \in DOMAIN t /\ t[i + 1] = s[i]
            BY <2>2
        <3>2. QED
            BY <3>1 DEF ToSet
    <2>3. QED
        BY <2>1, <2>2
<1>2. x \in ToSet(t)
    <2>1. n + 1 \in DOMAIN t
        OBVIOUS
    <2>2. QED
        BY <2>1 DEF ToSet
<1>3. ASSUME NEW i \in 1 .. Len(s) + 1 PROVE t[i] \in ToSet(s) \cup {x}
    <2>1. CASE i <= n
        BY <2>1 DEF ToSet
    <2>2. CASE i = n + 1
        BY <2>2
    <2>3. CASE i > n + 1
        <3>1. i - 1 \in n + 1 .. Len(s) /\ i - 1 \in DOMAIN s /\ (i - 1) + 1 = i
            BY <2>3
        <3>2. QED
            BY <3>1 DEF ToSet
    <2>4. QED
        BY <2>1, <2>2, <2>3
<1>4. QED
    BY <1>1, <1>2, <1>3 DEF ToSet

LEMMA InsertKeepsOrder ==
    ASSUME NEW s, InOrder(s), NEW x \in AnyTimer, \A i \in 1 .. Len(s) : s[i].id # x.id
    PROVE  /\ InOrder(InsertTimer(s, x))
           /\ ToSet(InsertTimer(s, x)) = ToSet(s) \cup {x}
           /\ s # <<>> /\ s[1].at <= x.at => InsertTimer(s, x)[1] = s[1]
           /\ InsertTimer(s, x) # <<>>
<1> DEFINE n == UpperBound(s, x.at)
           t == InsertTimer(s, x)
<1>1. s \in Seq(AnyTimer) /\ x.at \in Int /\ x.id \in Timers
    BY DEF InOrder, AnyTimer
<1>2. /\ n \in 0 .. Len(s)
      /\ \A i \in 1 .. n : s[i].at <= x.at
      /\ n < Len(s) => s[n + 1].at > x.at
    BY <1>1, UpperBoundIs
<1>3. t = InsertAt(s, n + 1, x)
    BY DEF InsertTimer
<1> HIDE DEF n, t
<1>4. /\ t \in Seq(AnyTimer) /\ Len(t) = Len(s) + 1
      /\ \A i \in 1 .. n : t[i] = s[i]
      /\ t[n + 1] = x
      /\ \A i \in n + 1 .. Len(s) : t[i + 1] = s[i]
    <2>1. n \in 0 .. Len(s)
        BY <1>2
    <2>2. /\ InsertAt(s, n + 1, x) \in Seq(AnyTimer)
          /\ Len(InsertAt(s, n + 1, x)) = Len(s) + 1
        BY <1>1, <2>1, InsertAtIs
    <2>3. \A i \in 1 .. n : InsertAt(s, n + 1, x)[i] = s[i]
        BY <1>1, <2>1, InsertAtIs
    <2>4. /\ InsertAt(s, n + 1, x)[n + 1] = x
          /\ \A i \in n + 1 .. Len(s) : InsertAt(s, n + 1, x)[i + 1] = s[i]
        BY <1>1, <2>1, InsertAtIs
    <2>5. QED
        BY <1>3, <2>2, <2>3, <2>4
<1>5. /\ Len(s) \in Nat
      /\ \A i \in 1 .. Len(s) : s[i].at \in Int /\ s[i].id \in Timers
    BY <1>1, TimerOf
<1> DEFINE Old(i) == IF i <= n THEN i ELSE i - 1
<1>6. ASSUME NEW i \in 1 .. Len(s) + 1, i # n + 1
      PROVE  /\ Old(i) \in 1 .. Len(s) /\ t[i] = s[Old(i)]
             /\ i <= n => s[Old(i)].at <= x.at
             /\ i > n => s[Old(i)].at > x.at
    <2>1. CASE i <= n
        BY <1>2, <1>4, <2>1
    <2>2. CASE i > n + 1
        <3>1. i - 1 \in n + 1 .. Len(s) /\ (i - 1) + 1 = i /\ i - 1 \in 1 .. Len(s)
              /\ n + 1 \in 1 .. Len(s) /\ n + 1 <= i - 1 /\ n < Len(s)
            BY <1>2, <1>5, <1>6, <2>2
        <3>2. t[i] = s[i - 1]
            BY <1>4, <3>1
        <3>3. s[n + 1].at <= s[i - 1].at
            BY <3>1 DEF InOrder
        <3>4. s[i - 1].at > x.at
            BY <1>1, <1>2, <1>5, <3>1, <3>3
        <3>5. QED
            BY <1>2, <2>2, <3>1, <3>2, <3>4
    <2>3. QED
        BY <1>2, <1>5, <1>6, <2>1, <2>2
<1> HIDE DEF Old
<1>7. ASSUME NEW i \in 1 .. Len(t), NEW j \in 1 .. Len(t), i <= j PROVE t[i].at <= t[j].at
    <2>1. i \in 1 .. Len(s) + 1 /\ j \in 1 .. Len(s) + 1
        BY <1>4
    <2>2. CASE i = n + 1 /\ j = n + 1
        BY <1>1, <1>4, <2>2
    <2>3. CASE i = n + 1 /\ j # n + 1
        <3>1. j > n /\ t[i] = x
            BY <1>2, <1>4, <1>5, <1>7, <2>1, <2>3
        <3>2. t[j] = s[Old(j)] /\ Old(j) \in 1 .. Len(s) /\ s[Old(j)].at > x.at
            BY <1>6, <2>1, <2>3, <3>1
        <3>3. s[Old(j)].at \in Int
            BY <1>5, <3>2
        <3>4. QED
            BY <1>1, <3>1, <3>2, <3>3
    <2>4. CASE i # n + 1 /\ j = n + 1
        <3>1. i <= n /\ t[j] = x
            BY <1>2, <1>4, <1>7, <2>1, <2>4
        <3>2. t[i] = s[Old(i)] /\ Old(i) \in 1 .. Len(s) /\ s[Old(i)].at <= x.at
            BY <1>6, <2>1, <2>4, <3>1
        <3>3. QED
            BY <3>1, <3>2
    <2>5. CASE i # n + 1 /\ j # n + 1
        <3>1. Old(i) <= Old(j)
            BY <1>2, <1>5, <1>7, <2>1, <2>5 DEF Old
        <3>2. QED
            BY <1>6, <2>1, <2>5, <3>1 DEF InOrder
    <2>6. QED
        BY <2>2, <2>3, <2>4, <2>5
<1>8. ASSUME NEW i \in 1 .. Len(t), NEW j \in 1 .. Len(t), t[i].id = t[j].id PROVE i = j
    <2>1. i \in 1 .. Len(s) + 1 /\ j \in 1 .. Len(s) + 1
        BY <1>4
    <2>2. ASSUME NEW k \in 1 .. Len(s) + 1, k # n + 1 PROVE t[k].id # x.id
        <3>1. t[k] = s[Old(k)] /\ Old(k) \in 1 .. Len(s)
            BY <1>6, <2>2
        <3>2. QED
            BY <3>1
    <2>3. CASE i # n + 1 /\ j # n + 1
        <3>1. Old(i) = Old(j)
            BY <1>6, <1>8, <2>1, <2>3 DEF InOrder
        <3>2. QED
            BY <1>2, <1>5, <2>1, <2>3, <3>1 DEF Old
    <2>4. QED
        BY <1>4, <1>8, <2>1, <2>2, <2>3
<1>9. ToSet(t) = ToSet(s) \cup {x}
    <2>1. DOMAIN s = 1 .. Len(s) /\ DOMAIN t = 1 .. Len(s) + 1
        BY <1>1, <1>4
    <2>2. QED
        BY <1>2, <1>4, <1>5, <2>1, ElementsWithInsert
<1>10. ASSUME s # <<>>, s[1].at <= x.at PROVE t[1] = s[1]
    <2>1. 1 \in 1 .. Len(s)
        BY <1>1, <1>5, <1>10
    <2>2. n # 0
        BY <1>1, <1>2, <1>5, <1>10, <2>1
    <2>3. QED
        BY <1>2, <1>4, <1>5, <2>2
<1>11. t # <<>>
    BY <1>4, <1>5
<1>12. QED
    BY <1>4, <1>7, <1>8, <1>9, <1>10, <1>11 DEF InOrder, t

LEMMA TailInOrder ==
    ASSUME NEW s, InOrder(s), NEW n \in 0 .. Len(s)
    PROVE  /\ InOrder(SubSeq(s, n + 1, Len(s)))
           /\ ToSet(SubSeq(s, n + 1, Len(s))) = ToSet(s) \ {s[i] : i \in 1 .. n}
<1> DEFINE t == SubSeq(s, n + 1, Len(s))
<1>1. s \in Seq(AnyTimer) /\ Len(s) \in Nat /\ DOMAIN s = 1 .. Len(s)
    BY DEF InOrder
<1>2. /\ t \in Seq(AnyTimer) /\ Len(t) = Len(s) - n /\ DOMAIN t = 1 .. Len(s) - n
      /\ \A i \in 1 .. Len(s) - n : t[i] = s[n + i]
    <2>1. t \in Seq(AnyTimer) /\ Len(t) = Len(s) - n
        BY <1>1, SuffixIs
    <2>2. \A i \in 1 .. Len(s) - n : t[i] = s[n + i]
        BY <1>1, SuffixIs
    <2> HIDE DEF t
    <2>3. DOMAIN t = 1 .. Len(s) - n
        BY <2>1
    <2>4. QED
        BY <2>1, <2>2, <2>3
<1> HIDE DEF t
<1>3. \A i \in 1 .. Len(t) : t[i] = s[n + i] /\ n + i \in 1 .. Len(s)
    BY <1>1, <1>2
<1>4. \A i, j \in 1 .. Len(t) : i <= j => t[i].at <= t[j].at
    <2>1. \A i, j \in 1 .. Len(t) : i <= j => n + i <= n + j
        BY <1>1, <1>2
    <2>2. QED
        BY <1>3, <2>1 DEF InOrder
<1>5. \A i, j \in 1 .. Len(t) : t[i].id = t[j].id => i = j
    <2>1. \A i, j \in 1 .. Len(t) : n + i = n + j => i = j
        BY <1>1, <1>2
    <2>2. QED
        BY <1>3, <2>1 DEF InOrder
<1>6. ASSUME NEW i \in 1 .. Len(t) PROVE t[i] \in ToSet(s) \ {s[k] : k \in 1 .. n}
    <2>1. t[i] = s[n + i] /\ n + i \in 1 .. Len(s)
        BY <1>3
    <2>2. ASSUME NEW k \in 1 .. n, s[n + i] = s[k] PROVE FALSE
        <3>1. k \in 1 .. Len(s) /\ s[n + i].id = s[k].id
            BY <1>1, <2>2
        <3>2. n + i = k
            BY <2>1, <3>1 DEF InOrder
        <3>3. QED
            BY <1>2, <3>2
    <2>3. QED
        BY <1>1, <2>1, <2>2 DEF ToSet
<1>7. ASSUME NEW k \in 1 .. Len(s), ~ (k \in 1 .. n) PROVE s[k] \in ToSet(t)
    <2>1. k - n \in DOMAIN t /\ k - n \in 1 .. Len(s) - n /\ n + (k - n) = k
        BY <1>1, <1>2, <1>7
    <2>2. t[k - n] = s[k]
        BY <1>2, <2>1
    <2>3. QED
        BY <2>1, <2>2 DEF ToSet
<1>8. ToSet(t) = ToSet(s) \ {s[i] : i \in 1 .. n}
    BY <1>1, <1>2, <1>6, <1>7 DEF ToSet
<1>9. QED
    BY <1>2, <1>4, <1>5, <1>8 DEF InOrder, t

LEMMA RemoveKeepsOrder ==
    ASSUME NEW s, InOrder(s), NEW k \in 1 .. Len(s)
    PROVE  /\ InOrder(RemoveAt(s, k))
           /\ ToSet(RemoveAt(s, k)) = ToSet(s) \ {s[k]}
           /\ RemoveAt(s, k) # <<>> => s # <<>> /\ s[1].at <= RemoveAt(s, k)[1].at
<1> DEFINE t == RemoveAt(s, k)
           Old(i) == IF i < k THEN i ELSE i + 1
<1>1. s \in Seq(AnyTimer) /\ Len(s) \in Nat /\ DOMAIN s = 1 .. Len(s)
    BY DEF InOrder
<1>2. /\ t \in Seq(AnyTimer) /\ Len(t) = Len(s) - 1 /\ DOMAIN t = 1 .. Len(s) - 1
      /\ \A i \in 1 .. k - 1 : t[i] = s[i]
      /\ \A i \in k .. Len(s) - 1 : t[i] = s[i + 1]
    <2>1. t \in Seq(AnyTimer) /\ Len(t) = Len(s) - 1
        BY <1>1, RemoveAtIs
    <2>2. \A i \in 1 .. k - 1 : t[i] = s[i]
        BY <1>1, RemoveAtIs
    <2>3. \A i \in k .. Len(s) - 1 : t[i] = s[i + 1]
        BY <1>1, RemoveAtIs
    <2> HIDE DEF t
    <2>4. DOMAIN t = 1 .. Len(s) - 1
        BY <2>1
    <2>5. QED
        BY <2>1, <2>2, <2>3, <2>4
<1> HIDE DEF t
<1>3. ASSUME NEW i \in 1 .. Len(t)
      PROVE  Old(i) \in 1 .. Len(s) /\ t[i] = s[Old(i)] /\ Old(i) # k /\ i <= Old(i)
    BY <1>1, <1>2
<1>4. /\ \A i, j \in 1 .. Len(t) : i <= j => Old(i) <= Old(j)
      /\ \A i, j \in 1 .. Len(t) : Old(i) = Old(j) => i = j
    BY <1>1, <1>2
<1>5. \A j \in 1 .. Len(s) : j # k => \E i \in 1 .. Len(t) : Old(i) = j
    <2>1. ASSUME NEW j \in 1 .. Len(s), j # k PROVE \E i \in 1 .. Len(t) : Old(i) = j
        <3>1. CASE j < k
            <4>1. j \in 1 .. Len(t) /\ Old(j) = j
                BY <1>1, <1>2, <3>1
            <4>2. QED
                BY <4>1
        <3>2. CASE j > k
            <4>1. j - 1 \in 1 .. Len(t) /\ Old(j - 1) = j
                BY <1>1, <1>2, <3>2
            <4>2. QED
                BY <4>1
        <3>3. QED
            BY <2>1, <3>1, <3>2
    <2>2. QED
        BY <2>1
<1> HIDE DEF Old
<1>6. \A i, j \in 1 .. Len(t) : i <= j => t[i].at <= t[j].at
    BY <1>3, <1>4 DEF InOrder
<1>7. \A i, j \in 1 .. Len(t) : t[i].id = t[j].id => i = j
    BY <1>3, <1>4 DEF InOrder
<1>8. ToSet(t) = ToSet(s) \ {s[k]}
    <2>1. ASSUME NEW i \in 1 .. Len(t) PROVE t[i] \in ToSet(s) \ {s[k]}
        <3>1. s[Old(i)] # s[k]
            BY <1>3 DEF InOrder
        <3>2. QED
            BY <1>1, <1>3, <3>1 DEF ToSet
    <2>2. ASSUME NEW j \in 1 .. Len(s), j # k PROVE s[j] \in ToSet(t)
        <3>1. PICK i \in 1 .. Len(t) : Old(i) = j
            BY <1>5, <2>2
        <3>2. i \in DOMAIN t /\ t[i] = s[j]
            BY <1>2, <1>3, <3>1
        <3>3. QED
            BY <3>2 DEF ToSet
    <2>3. QED
        BY <1>1, <1>2, <2>1, <2>2 DEF ToSet
<1>9. ASSUME t # <<>> PROVE s # <<>> /\ s[1].at <= t[1].at
    <2>1. 1 \in 1 .. Len(t) /\ 1 \in 1 .. Len(s) /\ s # <<>>
        BY <1>1, <1>2, <1>9
    <2>2. Old(1) \in 1 .. Len(s) /\ t[1] = s[Old(1)] /\ 1 <= Old(1)
        BY <1>3, <2>1
    <2>3. QED
        BY <2>1, <2>2 DEF InOrder
<1>10. QED
    BY <1>2, <1>6, <1>7, <1>8, <1>9 DEF InOrder, t

LEMMA CloserIs ==
    ASSUME NEW x \in AnyTimer
    PROVE  /\ Closer(x) \in AnyTimer
           /\ Closer(x).id = x.id
           /\ Closer(x).at = Later(x.at - 1, -MaxLate)
<1>1. x.at \in Int /\ x.id \in Timers /\ x = [at |-> x.at, id |-> x.id]
    BY DEF AnyTimer
<1>2. Later(x.at - 1, -MaxLate) \in Int
    BY <1>1, BoundsAssumption DEF Later
<1>3. Closer(x) = [at |-> Later(x.at - 1, -MaxLate), id |-> x.id]
    BY <1>1 DEF Closer
<1>4. QED
    BY <1>1, <1>2, <1>3 DEF AnyTimer

LEMMA TickKeepsOrder ==
    ASSUME NEW s, InOrder(s)
    PROVE  /\ InOrder([i \in DOMAIN s |-> Closer(s[i])])
           /\ ToSet([i \in DOMAIN s |-> Closer(s[i])]) = {Closer(x) : x \in ToSet(s)}
<1> DEFINE t == [i \in DOMAIN s |-> Closer(s[i])]
<1>1. s \in Seq(AnyTimer) /\ Len(s) \in Nat /\ DOMAIN s = 1 .. Len(s)
    BY DEF InOrder
<1>2. \A i \in 1 .. Len(s) : s[i] \in AnyTimer /\ s[i].at \in Int
    BY <1>1, TimerOf
<1>3. \A i \in 1 .. Len(s) :
          Closer(s[i]) \in AnyTimer /\ Closer(s[i]).id = s[i].id
          /\ Closer(s[i]).at = Later(s[i].at - 1, -MaxLate)
    BY <1>2, CloserIs
<1>4. t \in Seq(AnyTimer) /\ Len(t) = Len(s) /\ \A i \in 1 .. Len(s) : t[i] = Closer(s[i])
    BY <1>1, <1>3
<1>5. ToSet(t) = {Closer(x) : x \in ToSet(s)}
    BY DEF ToSet
<1> HIDE DEF t
<1>6. ASSUME NEW i \in 1 .. Len(t), NEW j \in 1 .. Len(t), i <= j PROVE t[i].at <= t[j].at
    <2>1. s[i].at <= s[j].at /\ s[i].at \in Int /\ s[j].at \in Int
        BY <1>2, <1>4, <1>6 DEF InOrder
    <2>2. t[i].at = Later(s[i].at - 1, -MaxLate) /\ t[j].at = Later(s[j].at - 1, -MaxLate)
        BY <1>3, <1>4
    <2>3. QED
        BY <2>1, <2>2, BoundsAssumption DEF Later
<1>7. \A i, j \in 1 .. Len(t) : t[i].id = t[j].id => i = j
    BY <1>3, <1>4 DEF InOrder
<1>8. QED
    BY <1>4, <1>5, <1>6, <1>7 DEF InOrder, t

\* The assertions about the sizes of the two tables.
LEMMA CountInOrder ==
    ASSUME NEW s, InOrder(s)
    PROVE  Len(s) = Cardinality(ToSet(s))
<1>1. s \in Seq(AnyTimer) /\ Len(s) \in Nat /\ DOMAIN s = 1 .. Len(s)
    BY DEF InOrder
<1>2. s \in Bijection(1 .. Len(s), ToSet(s))
    <2>1. s \in [1 .. Len(s) -> ToSet(s)]
        BY <1>1 DEF ToSet
    <2>2. \A i, j \in 1 .. Len(s) : s[i] = s[j] => i = j
        BY DEF InOrder
    <2>3. \A x \in ToSet(s) : \E i \in 1 .. Len(s) : s[i] = x
        BY <1>1 DEF ToSet
    <2>4. QED
        BY <2>1, <2>2, <2>3 DEF Bijection, Injection, Surjection, IsInjective
<1>3. ExistsBijection(1 .. Len(s), ToSet(s))
    BY <1>2 DEF ExistsBijection
<1>4. QED
    BY <1>1, <1>3, FS_CountingElements

-----------------------------------------------------------------------------
(* The loop of reset. *)

\* The tables of reset's loop exist: one for every timer gone through.
RestartStep(s, id) == IF Restarts(id) THEN InsertTimer(s, Again(id)) ELSE s

Tables(table, s, ids, m) ==
    table = [n \in 0 .. m |-> IF n = 0 THEN s ELSE RestartStep(table[n - 1], ids[n])]

LEMMA TablesExist ==
    ASSUME NEW s, NEW ids, Len(ids) \in Nat
    PROVE  \E table : Tables(table, s, ids, Len(ids))
<1> DEFINE P == {m \in 0 .. Len(ids) : \E table : Tables(table, s, ids, m)}
<1>1. 0 \in P
    <2>1. Tables([n \in 0 .. 0 |-> s], s, ids, 0)
        BY DEF Tables
    <2>2. QED
        BY <2>1
<1>2. ASSUME NEW i \in 0 .. Len(ids) - 1, i \in P PROVE i + 1 \in P
    <2>1. PICK table : Tables(table, s, ids, i)
        BY <1>2
    <2> DEFINE longer == [n \in 0 .. i + 1 |->
                             IF n = 0 THEN s ELSE RestartStep(table[n - 1], ids[n])]
    <2>2. \A n \in 0 .. i : longer[n] = table[n]
        BY <2>1 DEF Tables
    <2>3. ASSUME NEW n \in 0 .. i + 1, n # 0 PROVE longer[n - 1] = table[n - 1]
        <3>1. n - 1 \in 0 .. i
            BY <1>2, <2>3
        <3>2. QED
            BY <2>2, <3>1
    <2>4. Tables(longer, s, ids, i + 1)
        BY <2>3 DEF Tables
    <2>5. QED
        BY <1>2, <2>4
<1> HIDE DEF P
<1>3. \A i \in 0 .. Len(ids) : i \in P
    BY <1>1, <1>2, Induction, Zenon
<1>4. Len(ids) \in P
    BY <1>3
<1>5. QED
    BY <1>4 DEF P

LEMMA RestartedIs ==
    ASSUME NEW s, NEW ids, Len(ids) \in Nat
    PROVE  \E table : /\ Tables(table, s, ids, Len(ids))
                      /\ Restarted(s, ids) = table[Len(ids)]
<1>1. Restarted(s, ids) = (CHOOSE table : Tables(table, s, ids, Len(ids)))[Len(ids)]
    BY DEF Restarted, Tables, RestartStep
<1>2. Tables(CHOOSE table : Tables(table, s, ids, Len(ids)), s, ids, Len(ids))
    BY TablesExist, Zenon
<1>3. QED
    BY <1>1, <1>2

LEMMA InsertTyped ==
    ASSUME NEW R \in SUBSET AnyTimer, NEW s \in Seq(R), NEW x \in R
    PROVE  InsertTimer(s, x) \in Seq(R) /\ InsertTimer(s, x) # <<>>
<1>1. s \in Seq(AnyTimer) /\ x.at \in Int
    <2>1. x \in AnyTimer
        OBVIOUS
    <2>2. QED
        BY <2>1, SeqMonotonic DEF AnyTimer
<1>2. UpperBound(s, x.at) \in 0 .. Len(s)
    BY <1>1, UpperBoundIs
<1>3. /\ InsertAt(s, UpperBound(s, x.at) + 1, x) \in Seq(R)
      /\ Len(InsertAt(s, UpperBound(s, x.at) + 1, x)) = Len(s) + 1
    BY <1>2, InsertAtIs
<1>4. Len(s) \in Nat
    OBVIOUS
<1>5. QED
    BY <1>3, <1>4 DEF InsertTimer

\* The table after reset holds timers of the kind it held and restarted.
LEMMA RestartedTyped ==
    ASSUME NEW R \in SUBSET AnyTimer, NEW s \in Seq(R), NEW ids, Len(ids) \in Nat,
           \A i \in 1 .. Len(ids) : Restarts(ids[i]) => Again(ids[i]) \in R
    PROVE  Restarted(s, ids) \in Seq(R)
<1>1. PICK table : Tables(table, s, ids, Len(ids)) /\ Restarted(s, ids) = table[Len(ids)]
    BY RestartedIs
<1> DEFINE P == {m \in 0 .. Len(ids) : table[m] \in Seq(R)}
<1>2. table[0] = s
    BY <1>1 DEF Tables
<1>3. \A n \in 0 .. Len(ids) - 1 : table[n + 1] = RestartStep(table[n], ids[n + 1])
    BY <1>1 DEF Tables
<1>4. 0 \in P
    BY <1>2
<1>5. ASSUME NEW i \in 0 .. Len(ids) - 1, i \in P PROVE i + 1 \in P
    <2>1. table[i] \in Seq(R) /\ i + 1 \in 1 .. Len(ids)
        BY <1>5
    <2>2. RestartStep(table[i], ids[i + 1]) \in Seq(R)
        BY <2>1, InsertTyped DEF RestartStep
    <2>3. QED
        BY <1>3, <2>1, <2>2
<1> HIDE DEF P
<1>6. \A i \in 0 .. Len(ids) : i \in P
    BY <1>4, <1>5, Induction, Zenon
<1>7. QED
    BY <1>1, <1>6 DEF P

\* After reset the table is in order, and holds the timers that start again
\* besides those it held.
LEMMA RestartKeepsOrder ==
    ASSUME NEW s, InOrder(s), NEW ids \in Seq(Timers),
           \A i, j \in 1 .. Len(ids) : ids[i] = ids[j] => i = j,
           \A i \in 1 .. Len(ids), k \in 1 .. Len(s) : s[k].id # ids[i]
    PROVE  /\ InOrder(Restarted(s, ids))
           /\ ToSet(Restarted(s, ids)) =
                  ToSet(s) \cup {Again(id) : id \in {x \in ToSet(ids) : Restarts(x)}}
<1>1. Len(ids) \in Nat /\ DOMAIN ids = 1 .. Len(ids)
    OBVIOUS
<1>2. PICK table : Tables(table, s, ids, Len(ids)) /\ Restarted(s, ids) = table[Len(ids)]
    BY <1>1, RestartedIs
<1> DEFINE New(m) == {Again(ids[k]) : k \in {i \in 1 .. m : Restarts(ids[i])}}
           P == {m \in 0 .. Len(ids) :
                    InOrder(table[m]) /\ ToSet(table[m]) = ToSet(s) \cup New(m)}
<1>3. table[0] = s
    BY <1>2 DEF Tables
<1>4. \A n \in 0 .. Len(ids) - 1 : table[n + 1] = RestartStep(table[n], ids[n + 1])
    BY <1>2 DEF Tables
<1>5. \A i \in 1 .. Len(ids) : Again(ids[i]) \in AnyTimer /\ Again(ids[i]).id = ids[i]
    <2>1. \A i \in 1 .. Len(ids) : ids[i] \in Timers
        OBVIOUS
    <2>2. \A i \in 1 .. Len(ids) : Interval[ids[i]] \in Int
        BY <2>1, IntervalAssumption
    <2>3. QED
        BY <2>1, <2>2 DEF Again, AnyTimer
<1>6. 0 \in P
    BY <1>3
<1>7. ASSUME NEW i \in 0 .. Len(ids) - 1, i \in P PROVE i + 1 \in P
    <2>1. InOrder(table[i]) /\ ToSet(table[i]) = ToSet(s) \cup New(i)
        BY <1>7
    <2>2. /\ i + 1 \in 1 .. Len(ids) /\ i + 1 \in 0 .. Len(ids)
          /\ 1 .. i + 1 = (1 .. i) \cup {i + 1}
          /\ \A j \in 1 .. i : j \in 1 .. Len(ids) /\ j # i + 1
        BY <1>1, <1>7
    <2>3. CASE Restarts(ids[i + 1])
        <3>1. table[i + 1] = InsertTimer(table[i], Again(ids[i + 1]))
            BY <1>4, <2>3 DEF RestartStep
        <3>2. ASSUME NEW k \in 1 .. Len(table[i]) PROVE table[i][k].id # ids[i + 1]
            <4>1. table[i][k] \in ToSet(table[i])
                BY <2>1 DEF InOrder, ToSet
            <4>2. CASE table[i][k] \in ToSet(s)
                <5>1. PICK l \in 1 .. Len(s) : table[i][k] = s[l]
                    BY <4>2 DEF InOrder, ToSet
                <5>2. QED
                    BY <2>2, <5>1
            <4>3. CASE table[i][k] \in New(i)
                <5>1. PICK j \in 1 .. i : table[i][k] = Again(ids[j])
                    BY <4>3
                <5>2. table[i][k].id = ids[j]
                    BY <1>5, <2>2, <5>1
                <5>3. QED
                    BY <2>2, <5>2
            <4>4. QED
                BY <2>1, <4>1, <4>2, <4>3
        <3>3. /\ InOrder(table[i + 1])
              /\ ToSet(table[i + 1]) = ToSet(table[i]) \cup {Again(ids[i + 1])}
            BY <1>5, <2>1, <2>2, <3>1, <3>2, InsertKeepsOrder
        <3>4. New(i + 1) = New(i) \cup {Again(ids[i + 1])}
            BY <2>2, <2>3
        <3>5. QED
            BY <2>1, <2>2, <3>3, <3>4
    <2>4. CASE ~Restarts(ids[i + 1])
        <3>1. table[i + 1] = table[i]
            BY <1>4, <2>4 DEF RestartStep
        <3>2. New(i + 1) = New(i)
            BY <2>2, <2>4
        <3>3. QED
            BY <2>1, <2>2, <3>1, <3>2
    <2>5. QED
        BY <2>3, <2>4
<1> HIDE DEF P
<1>8. \A i \in 0 .. Len(ids) : i \in P
    BY <1>1, <1>6, <1>7, Induction, Zenon
<1>9. Len(ids) \in P
    BY <1>1, <1>8
<1>10. New(Len(ids)) = {Again(id) : id \in {x \in ToSet(ids) : Restarts(x)}}
    BY <1>1 DEF ToSet
<1>11. QED
    BY <1>2, <1>9, <1>10 DEF P

-----------------------------------------------------------------------------
(* Types. *)

LEMMA DueIsTimer ==
    ASSUME created \in SUBSET Timers
    PROVE  /\ Due \in SUBSET AnyTimer
           /\ \A timer \in Due : timer.at \in Int /\ timer.id \in created
BY DEF Due, AnyTimer

LEMMA DeadlineTyped ==
    ASSUME NEW s \in Seq(AnyTimer), s # <<>>
    PROVE  FirstDeadline(s) \in Nat /\ FirstDeadline(s) = Later(s[1].at, 1) /\ s[1].at \in Int
<1>1. Head(s) = s[1] /\ 1 \in 1 .. Len(s)
    OBVIOUS
<1>2. s[1].at \in Int
    BY <1>1, TimerOf
<1>3. QED
    BY <1>1, <1>2 DEF FirstDeadline, Later

\* The position cancelInLoop erases.
LEMMA FirstOfSameTime ==
    ASSUME NEW s, Len(s) \in Nat, DOMAIN s = 1 .. Len(s), NEW at,
           {i \in DOMAIN s : s[i].at = at} # {}
    PROVE  Min({i \in DOMAIN s : s[i].at = at}) \in {i \in DOMAIN s : s[i].at = at}
<1> DEFINE T == {i \in DOMAIN s : s[i].at = at}
<1>1. T \in SUBSET Nat
    OBVIOUS
<1> HIDE DEF T
<1>2. \E x \in T : \A y \in T : x <= y
    BY <1>1, LeastElement DEF T
<1>3. Min(T) \in T
    BY <1>2, Zenon DEF Min
<1>4. QED
    BY <1>3 DEF T

LEMMA AddTyped ==
    ASSUME TypeOK, NEW id \in Timers, NEW at \in -1 .. MaxDelay, AddTimerInLoop(id, at)
    PROVE  TypeOK'
<1> DEFINE timer == [at |-> at, id |-> id]
<1>1. /\ created' = created \cup {id} /\ created' \in SUBSET Timers
      /\ created \in SUBSET Timers
    BY DEF AddTimerInLoop, TypeOK
<1>2. timer \in Due'
    <2>1. at \in Int /\ -MaxLate <= at /\ at <= Later(MaxDelay, Interval[id])
        BY BoundsAssumption, IntervalAssumption DEF Later
    <2>2. QED
        BY <1>1, <2>1 DEF Due
<1>3. Due \subseteq Due'
    BY <1>1 DEF Due
<1>4. Due' \in SUBSET AnyTimer
    BY <1>1 DEF Due, AnyTimer
<1>5. timers \in Seq(Due') /\ activeTimers \in SUBSET Due'
    <2>1. timers \in Seq(Due) /\ activeTimers \in SUBSET Due
        BY DEF TypeOK
    <2>2. QED
        BY <1>3, <2>1, SeqMonotonic
<1>6. timers' = InsertTimer(timers, timer) /\ activeTimers' = activeTimers \cup {timer}
    BY DEF AddTimerInLoop
<1> HIDE DEF timer
<1>7. timers' \in Seq(Due') /\ timers' # <<>>
    BY <1>2, <1>4, <1>5, <1>6, InsertTyped
<1>8. armed' \in BOOLEAN /\ deadline' \in Nat
    <2>1. timers' \in Seq(AnyTimer)
        BY <1>4, <1>7, SeqMonotonic
    <2>2. FirstDeadline(timers') \in Nat
        BY <1>7, <2>1, DeadlineTyped
    <2>3. QED
        BY <2>2 DEF AddTimerInLoop, TypeOK, timerfd
<1>9. /\ UNCHANGED <<cancelledTimers, executing, pc, expireds, next, dead>>
    BY DEF AddTimerInLoop, batch
<1>10. expireds \in Seq(created') /\ next \in 1 .. Len(expireds) + 1
    <2>1. expireds \in Seq(created) /\ created \subseteq created'
        BY <1>1 DEF TypeOK
    <2>2. QED
        BY <2>1, SeqMonotonic DEF TypeOK
<1>11. QED
    BY <1>1, <1>2, <1>5, <1>6, <1>7, <1>8, <1>9, <1>10 DEF TypeOK

LEMMA CancelTyped ==
    ASSUME TypeOK, NEW id \in Timers, CancelInLoop(id)
    PROVE  TypeOK'
<1>1. /\ id \in created /\ dead' = dead \cup {id}
      /\ UNCHANGED <<executing, armed, deadline, expireds, next, created>>
    BY DEF CancelInLoop, timerfd, batch
<1>2. timers \in Seq(Due) /\ activeTimers \in SUBSET Due /\ cancelledTimers \in SUBSET created
    BY DEF TypeOK
<1>3. ASSUME NEW timer \in activeTimers, CancelActive(timer)
      PROVE  /\ timers' \in Seq(Due) /\ activeTimers' \in SUBSET Due
             /\ cancelledTimers' \in SUBSET created
             /\ pc' \in {"idle", "callbacks", "aborted"}
    <2> DEFINE same == {i \in DOMAIN timers : timers[i].at = timer.at}
    <2>1. UNCHANGED cancelledTimers
        BY <1>3 DEF CancelActive
    <2>2. CASE same # {}
        <3>1. /\ timers' = RemoveAt(timers, Min(same))
              /\ activeTimers' = activeTimers \ {timer} /\ UNCHANGED pc
            BY <1>3, <2>2 DEF CancelActive
        <3>2. Len(timers) \in Nat /\ DOMAIN timers = 1 .. Len(timers)
            BY <1>2
        <3>3. Min(same) \in 1 .. Len(timers)
            BY <2>2, <3>2, FirstOfSameTime
        <3> HIDE DEF same
        <3>4. timers' \in Seq(Due)
            BY <1>2, <3>1, <3>3, RemoveAtIs
        <3>5. QED
            BY <1>2, <2>1, <3>1, <3>4 DEF TypeOK
    <2>3. CASE same = {}
        <3>1. pc' = "aborted" /\ UNCHANGED <<timers, activeTimers>>
            BY <1>3, <2>3 DEF CancelActive
        <3>2. QED
            BY <1>2, <2>1, <3>1
    <2>4. QED
        BY <2>2, <2>3
<1>4. ASSUME CancelInactive(id)
      PROVE  /\ timers' \in Seq(Due) /\ activeTimers' \in SUBSET Due
             /\ cancelledTimers' \in SUBSET created
             /\ pc' \in {"idle", "callbacks", "aborted"}
    BY <1>1, <1>2, <1>4 DEF CancelInactive, TypeOK
<1>5. /\ timers' \in Seq(Due) /\ activeTimers' \in SUBSET Due
      /\ cancelledTimers' \in SUBSET created
      /\ pc' \in {"idle", "callbacks", "aborted"}
    BY <1>3, <1>4 DEF CancelInLoop
<1>6. Due' = Due
    BY <1>1 DEF Due
<1>7. QED
    BY <1>1, <1>5, <1>6 DEF TypeOK

LEMMA HandleReadTyped ==
    ASSUME TypeOK, HandleRead
    PROVE  TypeOK'
<1> DEFINE n == UpperBound(timers, 0)
<1>1. timers \in Seq(Due) /\ created \in SUBSET Timers
    BY DEF TypeOK
<1>2. timers \in Seq(AnyTimer)
    BY <1>1, DueIsTimer, SeqMonotonic
<1>3. n \in 0 .. Len(timers) /\ Len(timers) \in Nat
    BY <1>2, UpperBoundIs
<1>4. /\ timers' = SubSeq(timers, n + 1, Len(timers))
      /\ expireds' = [i \in 1 .. n |-> timers[i].id]
      /\ activeTimers' = activeTimers \ {timers[i] : i \in 1 .. n}
      /\ cancelledTimers' = {} /\ executing' = TRUE /\ next' = 1
      /\ armed' = FALSE /\ deadline' = 0
      /\ UNCHANGED <<created, dead>>
    BY DEF HandleRead
<1>5. pc' \in {"callbacks", "aborted"}
    BY DEF HandleRead
<1> HIDE DEF n
<1>6. timers' \in Seq(Due)
    BY <1>1, <1>3, <1>4, SuffixIs
<1>7. expireds' \in Seq(created) /\ Len(expireds') \in Nat
    <2>1. \A i \in 1 .. n : timers[i] \in Due
        BY <1>1, <1>3
    <2>2. \A i \in 1 .. n : timers[i].id \in created
        BY <1>1, <2>1, DueIsTimer
    <2>3. QED
        BY <1>3, <1>4, <2>2
<1>8. Due' = Due
    BY <1>4 DEF Due
<1>9. executing' \in BOOLEAN /\ armed' \in BOOLEAN /\ deadline' \in Nat
    BY <1>4
<1>10. /\ activeTimers' \in SUBSET Due' /\ cancelledTimers' \in SUBSET created'
       /\ next' \in 1 .. Len(expireds') + 1
       /\ created' \in SUBSET Timers /\ dead' \in SUBSET created'
    <2>1. activeTimers \in SUBSET Due /\ created \in SUBSET Timers /\ dead \in SUBSET created
        BY DEF TypeOK
    <2>2. next' \in 1 .. Len(expireds') + 1
        <3>1. next' = 1 /\ Len(expireds') \in Nat
            BY <1>4, <1>7
        <3>2. QED
            BY ONLY <3>1
    <2>3. QED
        BY <1>4, <1>8, <2>1, <2>2
<1>11. expireds' \in Seq(created') /\ timers' \in Seq(Due')
    BY <1>4, <1>6, <1>7, <1>8
<1>12. QED
    BY <1>5, <1>9, <1>10, <1>11, Zenon DEF TypeOK

LEMMA ResetTyped ==
    ASSUME TypeOK, Reset
    PROVE  TypeOK'
<1>1. /\ timers' = Restarted(timers, expireds)
      /\ activeTimers' = activeTimers
             \cup {Again(id) : id \in {x \in ToSet(expireds) : Restarts(x)}}
      /\ executing' = FALSE /\ pc' = "idle" /\ expireds' = <<>> /\ next' = 1
      /\ UNCHANGED <<cancelledTimers, created, dead>>
    BY DEF Reset
<1>2. /\ timers \in Seq(Due) /\ created \in SUBSET Timers /\ expireds \in Seq(created)
      /\ Len(expireds) \in Nat /\ DOMAIN expireds = 1 .. Len(expireds)
    BY DEF TypeOK
<1>3. Due \in SUBSET AnyTimer
    BY <1>2, DueIsTimer
<1>4. ASSUME NEW id \in created PROVE Again(id) \in Due
    <2>1. id \in Timers /\ Interval[id] \in Nat
        BY <1>2, IntervalAssumption
    <2>2. -MaxLate <= Interval[id] /\ Interval[id] <= Later(MaxDelay, Interval[id])
        BY <2>1, BoundsAssumption DEF Later
    <2>3. QED
        BY <2>1, <2>2 DEF Again, Due
<1>5. \A i \in 1 .. Len(expireds) : Again(expireds[i]) \in Due
    BY <1>2, <1>4
<1>6. timers' \in Seq(Due)
    BY <1>1, <1>2, <1>3, <1>5, RestartedTyped
<1>7. activeTimers' \in SUBSET Due
    <2>1. ToSet(expireds) \subseteq created
        BY <1>2 DEF ToSet
    <2>2. QED
        BY <1>1, <1>4, <2>1 DEF TypeOK
<1>8. armed' \in BOOLEAN /\ deadline' \in Nat
    <2>1. timers' \in Seq(AnyTimer)
        BY <1>3, <1>6, SeqMonotonic
    <2>2. timers' # <<>> => FirstDeadline(timers') \in Nat
        BY <2>1, DeadlineTyped
    <2>3. QED
        BY <2>2 DEF Reset, TypeOK, timerfd
<1>9. Due' = Due
    BY <1>1 DEF Due
<1>10. <<>> \in Seq(created) /\ 1 \in 1 .. Len(<<>>) + 1
    OBVIOUS
<1>11. QED
    BY <1>1, <1>6, <1>7, <1>8, <1>9, <1>10 DEF TypeOK

LEMMA TickTyped ==
    ASSUME TypeOK, Tick
    PROVE  TypeOK'
<1>1. /\ timers' = [i \in DOMAIN timers |-> Closer(timers[i])]
      /\ activeTimers' = {Closer(timer) : timer \in activeTimers}
      /\ deadline' = Later(deadline - 1, 0)
      /\ UNCHANGED <<cancelledTimers, executing, armed, pc, expireds, next, created, dead>>
    BY DEF Tick, batch
<1>2. timers \in Seq(Due) /\ activeTimers \in SUBSET Due /\ created \in SUBSET Timers
    BY DEF TypeOK
<1>3. ASSUME NEW x \in Due PROVE Closer(x) \in Due
    <2>1. /\ x \in AnyTimer /\ x.at \in Int /\ x.id \in created
          /\ -MaxLate <= x.at /\ x.at <= Later(MaxDelay, Interval[x.id])
        BY <1>2, DueIsTimer DEF Due
    <2>2. /\ Closer(x) \in AnyTimer /\ Closer(x).id = x.id
          /\ Closer(x).at = Later(x.at - 1, -MaxLate)
        BY <2>1, CloserIs
    <2>3. Interval[x.id] \in Nat
        BY <1>2, <2>1, IntervalAssumption
    <2>4. /\ Later(x.at - 1, -MaxLate) \in Int
          /\ -MaxLate <= Later(x.at - 1, -MaxLate)
          /\ Later(x.at - 1, -MaxLate) <= Later(MaxDelay, Interval[x.id])
        BY <2>1, <2>3, BoundsAssumption DEF Later
    <2>5. Closer(x) \in [at : Int, id : created]
        BY <2>1, <2>2, <2>4 DEF AnyTimer
    <2>6. QED
        BY <2>2, <2>4, <2>5 DEF Due
<1>4. timers' \in Seq(Due)
    BY <1>1, <1>2, <1>3
<1>5. activeTimers' \in SUBSET Due
    BY <1>1, <1>2, <1>3
<1>6. deadline' \in Nat
    BY <1>1 DEF TypeOK, Later
<1>7. Due' = Due
    BY <1>1 DEF Due
<1>8. QED
    BY <1>1, <1>4, <1>5, <1>6, <1>7 DEF TypeOK

LEMMA TypesKept == TypeOK /\ [Next]_vars => TypeOK'
<1> SUFFICES ASSUME TypeOK, [Next]_vars PROVE TypeOK'
    OBVIOUS
<1>1. CASE HandleReadAtExpiry
    BY <1>1 DEF HandleReadAtExpiry, TypeOK, Due, batch
<1>2. CASE RunTimer
    BY <1>2 DEF RunTimer, TypeOK, Due, timerfd
<1>3. CASE UNCHANGED vars
    BY <1>3 DEF vars, TypeOK, Due, timerfd, batch
<1>4. QED
    BY <1>1, <1>2, <1>3, AddTyped, CancelTyped, HandleReadTyped, ResetTyped, TickTyped
    DEF Next

LEMMA InitTyped == Init => TypeOK
<1> SUFFICES ASSUME Init PROVE TypeOK
    OBVIOUS
<1>1. timers \in Seq(Due) /\ expireds \in Seq(created) /\ next \in 1 .. Len(expireds) + 1
    BY DEF Init
<1>2. executing \in BOOLEAN /\ armed \in BOOLEAN
    BY Zenon DEF Init
<1>3. QED
    BY <1>1, <1>2 DEF Init, TypeOK

\* Every variable keeps its type, with or without ties: no timer in the tables
\* is unknown to addTimer, and no time leaves its bounds.
THEOREM TypeCorrect == Spec => []TypeOK
BY InitTyped, TypesKept, PTL DEF Spec

-----------------------------------------------------------------------------
(* The tables, for callers that cancel no timer that expires with another. *)

\* While a batch runs, its timers are in no table, each once in the batch, and
\* those cancelled since are remembered.
BatchApart ==
    pc = "callbacks" =>
        /\ executing
        /\ \A i, j \in 1 .. Len(expireds) : expireds[i] = expireds[j] => i = j
        /\ \A i \in 1 .. Len(expireds), k \in 1 .. Len(timers) : timers[k].id # expireds[i]
        /\ \A i \in 1 .. Len(expireds) : expireds[i] \in dead => expireds[i] \in cancelledTimers

NoneDead == \A timer \in activeTimers : timer.id \notin dead

IInv ==
    /\ TypeOK
    /\ InOrder(timers)
    /\ ToSet(timers) = activeTimers
    /\ BatchApart
    /\ NoneDead
    /\ ArmedForFirst

\* What the timerfd is set to, once the table is not empty.
LEMMA FirstArmed ==
    ASSUME NEW s, InOrder(s), s # <<>>
    PROVE  /\ FirstDeadline(s) = Later(s[1].at, 1) /\ s[1].at \in Int
           /\ Head(s) = s[1] /\ 1 \in 1 .. Len(s)
<1>1. s \in Seq(AnyTimer)
    BY DEF InOrder
<1>2. QED
    BY <1>1, DeadlineTyped

LEMMA AddKeeps ==
    ASSUME IInv, NEW id \in Timers, NEW at \in -1 .. MaxDelay, AddTimerInLoop(id, at)
    PROVE  IInv'
<1> DEFINE timer == [at |-> at, id |-> id]
<1>1. /\ timers' = InsertTimer(timers, timer) /\ activeTimers' = activeTimers \cup {timer}
      /\ id \notin created
      /\ UNCHANGED <<cancelledTimers, executing, pc, expireds, next, dead>>
    BY DEF AddTimerInLoop, batch
<1>2. /\ timer \in AnyTimer /\ timer.id = id /\ timer.at = at /\ at \in Int
    BY BoundsAssumption DEF AnyTimer
<1> HIDE DEF timer
<1>3. /\ created \in SUBSET Timers /\ dead \in SUBSET created
      /\ timers \in Seq(Due) /\ expireds \in Seq(created)
    BY DEF IInv, TypeOK
<1>4. /\ \A i \in 1 .. Len(timers) : timers[i].id \in created
    <2>1. \A i \in 1 .. Len(timers) : timers[i] \in Due
        BY <1>3
    <2>2. QED
        BY <1>3, <2>1, DueIsTimer
<1>5. \A i \in 1 .. Len(timers) : timers[i].id # timer.id
    BY <1>1, <1>2, <1>4
<1>6. /\ InOrder(timers')
      /\ ToSet(timers') = ToSet(timers) \cup {timer}
      /\ timers # <<>> /\ timers[1].at <= at => timers'[1] = timers[1]
      /\ timers' # <<>>
    BY <1>1, <1>2, <1>5, InsertKeepsOrder DEF IInv
<1>7. ToSet(timers') = activeTimers'
    BY <1>1, <1>6 DEF IInv
<1>8. BatchApart'
    <2>1. SUFFICES ASSUME pc = "callbacks" PROVE BatchApart'
        BY <1>1 DEF BatchApart
    <2>2. \A i \in 1 .. Len(expireds) : expireds[i] \in created
        BY <1>3
    <2>3. ASSUME NEW i \in 1 .. Len(expireds), NEW k \in 1 .. Len(timers')
          PROVE  timers'[k].id # expireds[i]
        <3>1. timers'[k] \in ToSet(timers) \cup {timer}
            BY <1>6, InToSet
        <3>2. CASE timers'[k] = timer
            BY <1>1, <1>2, <2>2, <3>2
        <3>3. CASE timers'[k] \in ToSet(timers)
            <4>1. PICK l \in 1 .. Len(timers) : timers'[k] = timers[l]
                BY <1>3, <3>3 DEF ToSet
            <4>2. QED
                BY <2>1, <4>1 DEF IInv, BatchApart
        <3>4. QED
            BY <3>1, <3>2, <3>3
    <2>4. QED
        BY <1>1, <2>1, <2>3 DEF IInv, BatchApart
<1>9. NoneDead'
    BY <1>1, <1>2, <1>3 DEF IInv, NoneDead
<1>10. ArmedForFirst'
    <2>1. CASE FirstChanges(timers, at)
        BY <1>6, <2>1, FirstArmed DEF AddTimerInLoop, ArmedForFirst, Later
    <2>2. CASE ~FirstChanges(timers, at)
        <3>1. timers # <<>> /\ ~ (at < Head(timers).at)
            BY <2>2 DEF FirstChanges
        <3>2. Head(timers) = timers[1] /\ timers[1].at \in Int
              /\ FirstDeadline(timers) = Later(timers[1].at, 1)
            BY <3>1, FirstArmed DEF IInv
        <3>3. timers'[1] = timers[1]
            BY <1>2, <1>6, <3>1, <3>2
        <3>4. FirstDeadline(timers') = FirstDeadline(timers)
            BY <1>6, <3>2, <3>3, FirstArmed
        <3>5. UNCHANGED <<armed, deadline, pc>>
            BY <1>1, <2>2 DEF AddTimerInLoop, timerfd
        <3>6. QED
            BY <3>1, <3>4, <3>5 DEF IInv, ArmedForFirst
    <2>3. QED
        BY <2>1, <2>2
<1>11. TypeOK'
    BY TypesKept DEF IInv, Next
<1>12. QED
    BY <1>6, <1>7, <1>8, <1>9, <1>10, <1>11 DEF IInv

\* Without ties the timer erased is the one to cancel.
LEMMA CancelKeeps ==
    ASSUME ~Ties, IInv, NEW id \in Timers, CancelInLoop(id)
    PROVE  IInv'
<1>1. /\ id \in created /\ dead' = dead \cup {id}
      /\ UNCHANGED <<executing, armed, deadline, expireds, next, created>>
    BY DEF CancelInLoop, timerfd, batch
<1>2. TypeOK'
    BY TypesKept DEF IInv, Next
<1>3. /\ timers \in Seq(AnyTimer) /\ Len(timers) \in Nat /\ DOMAIN timers = 1 .. Len(timers)
    BY DEF IInv, InOrder
<1>4. ASSUME NEW timer \in activeTimers, timer.id = id, CancelActive(timer)
      PROVE  IInv'
    <2> DEFINE same == {i \in DOMAIN timers : timers[i].at = timer.at}
    <2>1. PICK k \in 1 .. Len(timers) : timers[k] = timer
        BY <1>3 DEF IInv, ToSet
    <2>2. \A i \in DOMAIN timers : timers[i].at = timer.at => timers[i].id = timer.id
        BY <1>4 DEF CancelActive, MayCancel
    <2>3. same = {k}
        BY <1>3, <2>1, <2>2 DEF IInv, InOrder
    <2>4. Min(same) = k
        <3>1. same # {}
            BY <2>3
        <3>2. Min(same) \in same
            BY <1>3, <3>1, FirstOfSameTime
        <3>3. QED
            BY <2>3, <3>2
    <2>5. /\ timers' = RemoveAt(timers, k)
          /\ activeTimers' = activeTimers \ {timer}
          /\ UNCHANGED <<pc, cancelledTimers>>
        BY <1>4, <2>3, <2>4 DEF CancelActive
    <2> HIDE DEF same
    <2>6. /\ InOrder(timers')
          /\ ToSet(timers') = ToSet(timers) \ {timers[k]}
          /\ timers' # <<>> => timers # <<>> /\ timers[1].at <= timers'[1].at
        BY <2>5, RemoveKeepsOrder DEF IInv
    <2>7. ToSet(timers') = activeTimers'
        BY <2>1, <2>5, <2>6 DEF IInv
    <2>8. ASSUME NEW x \in activeTimers' PROVE x.id \notin dead'
        <3>1. x \in activeTimers /\ x # timer
            BY <2>5
        <3>2. PICK l \in 1 .. Len(timers) : timers[l] = x
            BY <1>3, <3>1 DEF IInv, ToSet
        <3>3. x.id # timer.id
            BY <2>1, <3>1, <3>2 DEF IInv, InOrder
        <3>4. QED
            BY <1>1, <1>4, <3>1, <3>3 DEF IInv, NoneDead
    <2>9. BatchApart'
        <3>1. SUFFICES ASSUME pc = "callbacks" PROVE BatchApart'
            BY <2>5 DEF BatchApart
        <3>2. \A i \in 1 .. Len(expireds) : expireds[i] # id
            BY <1>4, <2>1, <3>1 DEF IInv, BatchApart
        <3>3. ASSUME NEW i \in 1 .. Len(expireds), NEW j \in 1 .. Len(timers')
              PROVE  timers'[j].id # expireds[i]
            <4>1. timers'[j] \in ToSet(timers)
                BY <2>6, InToSet
            <4>2. PICK l \in 1 .. Len(timers) : timers'[j] = timers[l]
                BY <1>3, <4>1 DEF ToSet
            <4>3. QED
                BY <3>1, <4>2 DEF IInv, BatchApart
        <3>4. QED
            BY <1>1, <2>5, <3>1, <3>2, <3>3 DEF IInv, BatchApart
    <2>10. ArmedForFirst'
        <3>1. SUFFICES ASSUME pc = "idle", timers' # <<>>
                       PROVE  armed /\ deadline <= FirstDeadline(timers')
            BY <1>1, <2>5 DEF ArmedForFirst
        <3>2. timers # <<>> /\ timers[1].at <= timers'[1].at
            BY <2>6, <3>1
        <3>3. /\ FirstDeadline(timers) = Later(timers[1].at, 1) /\ timers[1].at \in Int
              /\ FirstDeadline(timers') = Later(timers'[1].at, 1) /\ timers'[1].at \in Int
            BY <2>6, <3>1, <3>2, FirstArmed DEF IInv
        <3>4. armed /\ deadline <= FirstDeadline(timers) /\ deadline \in Int
            BY <3>1, <3>2 DEF IInv, ArmedForFirst, TypeOK
        <3>5. QED
            BY <3>2, <3>3, <3>4 DEF Later
    <2>11. QED
        BY <1>2, <2>6, <2>7, <2>8, <2>9, <2>10 DEF IInv, NoneDead
<1>5. ASSUME CancelInactive(id) PROVE IInv'
    <2>1. /\ \A x \in activeTimers : x.id # id
          /\ cancelledTimers' = IF executing THEN cancelledTimers \cup {id} ELSE cancelledTimers
          /\ UNCHANGED <<timers, activeTimers, pc>>
        BY <1>5 DEF CancelInactive, Ids
    <2>2. NoneDead'
        BY <1>1, <2>1 DEF IInv, NoneDead
    <2>3. BatchApart'
        BY <1>1, <2>1 DEF IInv, BatchApart
    <2>4. ArmedForFirst'
        BY <1>1, <2>1 DEF IInv, ArmedForFirst, FirstDeadline
    <2>5. InOrder(timers') /\ ToSet(timers') = activeTimers'
        BY <2>1 DEF IInv
    <2>6. QED
        BY <1>2, <2>2, <2>3, <2>4, <2>5 DEF IInv
<1>6. QED
    BY <1>4, <1>5 DEF CancelInLoop

\* The batch is the front of the multimap, and leaves it.
LEMMA HandleReadKeeps ==
    ASSUME IInv, HandleRead
    PROVE  IInv'
<1> DEFINE n == UpperBound(timers, 0)
<1>1. /\ timers \in Seq(AnyTimer) /\ Len(timers) \in Nat /\ DOMAIN timers = 1 .. Len(timers)
    BY DEF IInv, InOrder
<1>2. n \in 0 .. Len(timers)
    BY <1>1, UpperBoundIs
<1>3. /\ timers' = SubSeq(timers, n + 1, Len(timers))
      /\ expireds' = [i \in 1 .. n |-> timers[i].id]
      /\ activeTimers' = activeTimers \ {timers[i] : i \in 1 .. n}
      /\ UNCHANGED <<created, dead>>
    BY DEF HandleRead
<1>4. executing' /\ pc' \in {"callbacks", "aborted"}
    BY DEF HandleRead
<1> HIDE DEF n
<1>5. /\ InOrder(timers')
      /\ ToSet(timers') = ToSet(timers) \ {timers[i] : i \in 1 .. n}
    BY <1>2, <1>3, TailInOrder DEF IInv
<1>6. ToSet(timers') = activeTimers'
    BY <1>3, <1>5 DEF IInv
<1>7. Len(expireds') = n /\ \A i \in 1 .. n : expireds'[i] = timers[i].id /\ i \in 1 .. Len(timers)
    BY <1>1, <1>2, <1>3
<1>8. \A i, j \in 1 .. Len(expireds') : expireds'[i] = expireds'[j] => i = j
    BY <1>7 DEF IInv, InOrder
<1>9. ASSUME NEW i \in 1 .. Len(expireds'), NEW k \in 1 .. Len(timers')
      PROVE  timers'[k].id # expireds'[i]
    <2>1. timers'[k] \in ToSet(timers) \ {timers[j] : j \in 1 .. n}
        BY <1>5, InToSet
    <2>2. PICK l \in 1 .. Len(timers) : timers'[k] = timers[l]
        BY <1>1, <2>1 DEF ToSet
    <2>3. l # i /\ i \in 1 .. Len(timers) /\ expireds'[i] = timers[i].id
        BY <1>7, <2>1, <2>2
    <2>4. QED
        BY <2>2, <2>3 DEF IInv, InOrder
<1>10. \A i \in 1 .. Len(expireds') : expireds'[i] \notin dead
    <2>1. \A i \in 1 .. n : timers[i] \in activeTimers
        BY <1>7, InToSet DEF IInv
    <2>2. QED
        BY <1>7, <2>1 DEF IInv, NoneDead
<1>11. BatchApart'
    <2>1. dead' = dead
        BY <1>3
    <2>2. QED
        BY ONLY <1>4, <1>8, <1>9, <1>10, <2>1 DEF BatchApart
<1>12. NoneDead'
    BY <1>3 DEF IInv, NoneDead
<1>13. ArmedForFirst'
    BY <1>4 DEF ArmedForFirst
<1>14. TypeOK'
    BY TypesKept DEF IInv, Next
<1>15. QED
    BY <1>5, <1>6, <1>11, <1>12, <1>13, <1>14 DEF IInv

\* What starts again was not cancelled.
LEMMA ResetKeeps ==
    ASSUME IInv, Reset
    PROVE  IInv'
<1> DEFINE again == {Again(id) : id \in {x \in ToSet(expireds) : Restarts(x)}}
<1>1. /\ pc = "callbacks"
      /\ timers' = Restarted(timers, expireds)
      /\ activeTimers' = activeTimers \cup again
      /\ pc' = "idle"
      /\ UNCHANGED <<cancelledTimers, created, dead>>
    BY DEF Reset
<1>2. /\ expireds \in Seq(Timers) /\ DOMAIN expireds = 1 .. Len(expireds)
    BY SeqMonotonic DEF IInv, TypeOK
<1>3. /\ InOrder(timers')
      /\ ToSet(timers') = ToSet(timers) \cup again
    BY <1>1, <1>2, RestartKeepsOrder DEF IInv, BatchApart
<1>4. ToSet(timers') = activeTimers'
    BY <1>1, <1>3 DEF IInv
<1>5. NoneDead'
    <2>1. ASSUME NEW id \in ToSet(expireds), Restarts(id) PROVE Again(id).id \notin dead
        <3>1. PICK i \in 1 .. Len(expireds) : expireds[i] = id
            BY <1>2 DEF ToSet
        <3>2. id \notin cancelledTimers
            BY <2>1 DEF Restarts
        <3>3. QED
            BY <1>1, <3>1, <3>2 DEF IInv, BatchApart, Again
    <2>2. QED
        BY <1>1, <2>1 DEF IInv, NoneDead
<1>6. BatchApart'
    BY <1>1 DEF BatchApart
<1>7. ArmedForFirst'
    <2>1. SUFFICES ASSUME timers' # <<>> PROVE armed' /\ deadline' <= FirstDeadline(timers')
        BY DEF ArmedForFirst
    <2>2. armed' = TRUE /\ deadline' = FirstDeadline(timers')
        BY <2>1 DEF Reset
    <2>3. FirstDeadline(timers') \in Int
        BY <1>3, <2>1, FirstArmed DEF Later
    <2>4. QED
        BY <2>2, <2>3
<1>8. TypeOK'
    BY TypesKept DEF IInv, Next
<1>9. QED
    BY <1>3, <1>4, <1>5, <1>6, <1>7, <1>8 DEF IInv

LEMMA TickKeeps ==
    ASSUME IInv, Tick
    PROVE  IInv'
<1>1. /\ timers' = [i \in DOMAIN timers |-> Closer(timers[i])]
      /\ activeTimers' = {Closer(timer) : timer \in activeTimers}
      /\ deadline' = Later(deadline - 1, 0)
      /\ UNCHANGED <<cancelledTimers, executing, armed, pc, expireds, next, created, dead>>
    BY DEF Tick, batch
<1>2. /\ timers \in Seq(AnyTimer) /\ Len(timers) \in Nat /\ DOMAIN timers = 1 .. Len(timers)
    BY DEF IInv, InOrder
<1>3. InOrder(timers') /\ ToSet(timers') = {Closer(x) : x \in ToSet(timers)}
    BY <1>1, TickKeepsOrder DEF IInv
<1>4. ToSet(timers') = activeTimers'
    BY <1>1, <1>3 DEF IInv
<1>5. \A k \in 1 .. Len(timers) :
          timers[k] \in AnyTimer /\ timers[k].at \in Int
          /\ timers'[k].id = timers[k].id /\ timers'[k].at = Later(timers[k].at - 1, -MaxLate)
    <2>1. \A k \in 1 .. Len(timers) :
              timers[k] \in AnyTimer /\ timers[k].at \in Int /\ timers'[k] = Closer(timers[k])
        BY <1>1, <1>2, TimerOf
    <2>2. QED
        BY <2>1, CloserIs
<1>6. Len(timers') = Len(timers)
    BY <1>1, <1>2, <1>3
<1>7. BatchApart'
    <2>1. SUFFICES ASSUME pc = "callbacks" PROVE BatchApart'
        BY <1>1 DEF BatchApart
    <2>2. \A i \in 1 .. Len(expireds), k \in 1 .. Len(timers') : timers'[k].id # expireds[i]
        BY <1>5, <1>6, <2>1 DEF IInv, BatchApart
    <2>3. /\ executing
          /\ \A i, j \in 1 .. Len(expireds) : expireds[i] = expireds[j] => i = j
          /\ \A i \in 1 .. Len(expireds) : expireds[i] \in dead => expireds[i] \in cancelledTimers
        BY <2>1 DEF IInv, BatchApart
    <2>4. UNCHANGED <<executing, expireds, dead, cancelledTimers>>
        BY <1>1
    <2>5. QED
        BY ONLY <2>2, <2>3, <2>4 DEF BatchApart
<1>8. NoneDead'
    <2>1. \A x \in activeTimers : x \in AnyTimer
        BY <1>2 DEF IInv, ToSet
    <2>2. \A x \in activeTimers : Closer(x).id = x.id
        BY <2>1, CloserIs
    <2>3. QED
        BY <1>1, <2>2 DEF IInv, NoneDead
<1>9. ArmedForFirst'
    <2>1. SUFFICES ASSUME pc = "idle", timers' # <<>>
                   PROVE  armed /\ deadline' <= FirstDeadline(timers')
        BY <1>1 DEF ArmedForFirst
    <2>2. timers # <<>> /\ 1 \in 1 .. Len(timers)
        BY <1>2, <1>3, <1>6, <2>1, FirstArmed
    <2>3. /\ FirstDeadline(timers) = Later(timers[1].at, 1) /\ timers[1].at \in Int
          /\ FirstDeadline(timers') = Later(timers'[1].at, 1)
          /\ timers'[1].at = Later(timers[1].at - 1, -MaxLate)
        BY <1>3, <1>5, <2>1, <2>2, FirstArmed DEF IInv
    <2>4. armed /\ deadline <= FirstDeadline(timers) /\ deadline \in Nat
        BY <2>1, <2>2 DEF IInv, ArmedForFirst, TypeOK
    <2>5. QED
        BY <1>1, <2>3, <2>4, BoundsAssumption DEF Later
<1>10. TypeOK'
    BY TypesKept DEF IInv, Next
<1>11. QED
    BY <1>3, <1>4, <1>7, <1>8, <1>9, <1>10 DEF IInv

LEMMA RestKeeps ==
    ASSUME IInv, HandleReadAtExpiry \/ RunTimer \/ UNCHANGED vars
    PROVE  IInv'
<1>1. UNCHANGED <<timers, activeTimers, dead>>
    BY DEF HandleReadAtExpiry, RunTimer, vars
<1>2. InOrder(timers') /\ ToSet(timers') = activeTimers' /\ NoneDead'
    BY <1>1 DEF IInv, NoneDead
<1>3. CASE HandleReadAtExpiry
    <2>1. pc' = "aborted"
        BY <1>3 DEF HandleReadAtExpiry
    <2>2. BatchApart' /\ ArmedForFirst'
        BY <2>1 DEF BatchApart, ArmedForFirst
    <2>3. TypeOK'
        BY <1>3, TypesKept DEF IInv, Next
    <2>4. QED
        BY <1>2, <2>2, <2>3 DEF IInv
<1>4. CASE RunTimer \/ UNCHANGED vars
    <2>1. UNCHANGED <<cancelledTimers, executing, armed, deadline, pc, expireds>>
        BY <1>4 DEF RunTimer, vars, timerfd, batch
    <2>2. BatchApart'
        BY <1>1, <2>1 DEF IInv, BatchApart
    <2>3. ArmedForFirst'
        BY <1>1, <2>1 DEF IInv, ArmedForFirst, FirstDeadline
    <2>4. TypeOK'
        BY <1>4, TypesKept DEF IInv, Next
    <2>5. QED
        BY <1>2, <2>2, <2>3, <2>4 DEF IInv
<1>5. QED
    BY <1>3, <1>4

\* The inductive invariant holds in every reachable state.
LEMMA Inductive ==
    ASSUME ~Ties
    PROVE  Spec => []IInv
<1>1. Init => IInv
    <2> SUFFICES ASSUME Init PROVE IInv
        OBVIOUS
    <2>1. timers = <<>> /\ activeTimers = {} /\ pc = "idle"
        BY DEF Init
    <2>2. InOrder(timers) /\ ToSet(timers) = activeTimers
        BY <2>1 DEF InOrder, ToSet
    <2>3. BatchApart /\ NoneDead /\ ArmedForFirst
        BY <2>1 DEF BatchApart, NoneDead, ArmedForFirst
    <2>4. QED
        BY <2>2, <2>3, InitTyped DEF IInv
<1>2. IInv /\ [Next]_vars => IInv'
    BY AddKeeps, CancelKeeps, HandleReadKeeps, ResetKeeps, TickKeeps, RestKeeps DEF Next
<1>3. QED
    BY <1>1, <1>2, PTL DEF Spec

\* As long as no timer is cancelled that expires with another, the multimap and
\* the set hold the same timers, each once, and the assertions about their
\* sizes hold, whatever is added and cancelled between and within batches.
THEOREM TablesAlwaysMatch ==
    ASSUME ~Ties
    PROVE  Spec => []TablesMatch
<1>1. IInv => TablesMatch
    <2> SUFFICES ASSUME IInv PROVE TablesMatch
        OBVIOUS
    <2>1. InOrder(timers) /\ ToSet(timers) = activeTimers
        BY DEF IInv
    <2>2. Len(timers) = Cardinality(activeTimers)
        BY <2>1, CountInOrder
    <2>3. \A i \in 1 .. Len(timers) - 1 : i \in 1 .. Len(timers) /\ i + 1 \in 1 .. Len(timers)
                                          /\ i <= i + 1
        BY <2>1 DEF InOrder
    <2>4. QED
        BY <2>1, <2>2, <2>3 DEF TablesMatch, InOrder
<1>2. QED
    BY <1>1, Inductive, PTL

\* Under the same condition, a timer whose cancel was executed never starts again.
THEOREM CancelledStayDead ==
    ASSUME ~Ties
    PROVE  Spec => []CancelledStaysDead
<1>1. IInv => CancelledStaysDead
    BY DEF IInv, NoneDead, CancelledStaysDead, Ids
<1>2. QED
    BY <1>1, Inductive, PTL

\* Under the same condition, the loop never waits with timers pending and a
\* timerfd that is unset or set later than the first of them.
THEOREM AlwaysArmedForFirst ==
    ASSUME ~Ties
    PROVE  Spec => []ArmedForFirst
<1>1. IInv => ArmedForFirst
    BY DEF IInv
<1>2. QED
    BY <1>1, Inductive, PTL
=============================================================================

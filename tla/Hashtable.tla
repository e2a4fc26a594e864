----------------------------- MODULE Hashtable -----------------------------
(***************************************************************************)
(* The hash table behind Hashset: a vector of chains, rehashed to the next *)
(* prime when it would hold more elements than it has buckets.  A chain is *)
(* the sequence of its keys, the head first; a key is its own hash and its *)
(* own node.  primesList is a parameter: the real one starts at 53.        *)
(* copy_from names members that do not exist and is never instantiated;    *)
(* swap exchanges two tables whole.                                        *)
(***************************************************************************)
EXTENDS Integers, Sequences, SequencesExt, FiniteSets

CONSTANTS HashKeys,     \* natural numbers, each its own hash
          PrimesList,   \* the numbers of buckets, increasing
          HashAvoids    \* calls the callers do not make, see HashErase

VARIABLES table,        \* [b: buckets, n: _numElements, ok: no invalid pointer met]
          hashed        \* the keys that were put in and not taken out

hashVars == <<table, hashed>>

\* What an iterator is besides a key: end(), or a freed node.
End == -1
Freed == -2

NextPrime(n) ==
    LET enough == {i \in DOMAIN PrimesList : PrimesList[i] >= n}
    IN IF enough = {} THEN Last(PrimesList)
       ELSE PrimesList[CHOOSE i \in enough : \A j \in enough : i =< j]

Buckets(t) == Cardinality(DOMAIN t.b)
BucketNum(k, n) == k % n
ChainOf(t, k) == t.b[BucketNum(k, Buckets(t))]
NoBuckets(n) == [i \in 0 .. NextPrime(n) - 1 |-> <<>>]

\* The nodes in the order of the buckets, each chain from its head.
Gathered(t) ==
    LET nodes[i \in 0 .. Buckets(t)] == IF i = 0 THEN <<>> ELSE nodes[i - 1] \o t.b[i - 1]
    IN nodes[Buckets(t)]

\* The buckets b with each of the nodes pushed to the head of its chain of n.
Pushed(b, nodes, n) ==
    LET pushed[i \in 0 .. Len(nodes)] ==
            IF i = 0 THEN b
            ELSE [pushed[i - 1] EXCEPT ![BucketNum(nodes[i], n)] = <<nodes[i]>> \o @]
    IN pushed[Len(nodes)]

\* Mutant of Resize: nodes go by the old number of buckets.
ResizeOldHash(t, potential) ==
    IF potential =< Buckets(t) THEN t
    ELSE [t EXCEPT !.b = Pushed(NoBuckets(potential), Gathered(t), Buckets(t))]

Resize(t, potential) ==
    IF potential =< Buckets(t) THEN t
    ELSE [t EXCEPT !.b = Pushed(NoBuckets(potential), Gathered(t), NextPrime(potential))]

\* The table, and whether k was inserted.
InsertUniqueNoresize(t, k) ==
    IF Contains(ChainOf(t, k), k) THEN <<t, FALSE>>
    ELSE <<[t EXCEPT !.b[BucketNum(k, Buckets(t))] = <<k>> \o @, !.n = @ + 1], TRUE>>

InsertUnique(t, k) == InsertUniqueNoresize(Resize(t, t.n + 1), k)

\* A hint is dereferenced, so it is the iterator of some key.
InsertHintUnique(t, hint, k) ==
    LET resized == Resize(t, t.n + 1)
    IN IF hint = k THEN resized ELSE InsertUniqueNoresize(resized, k)[1]

FirstFrom(t, bucket) ==
    LET full == {i \in bucket .. Buckets(t) - 1 : t.b[i] # <<>>}
    IN IF full = {} THEN End ELSE Head(t.b[CHOOSE i \in full : \A j \in full : i =< j])

GetFirstElem(t) == IF t.n = 0 THEN End ELSE FirstFrom(t, 0)

\* increment moves on only from the end of a chain.
Increment(t, k) ==
    IF k = Last(ChainOf(t, k)) THEN FirstFrom(t, BucketNum(k, Buckets(t)) + 1) ELSE k

Find(t, k) == IF Contains(ChainOf(t, k), k) THEN k ELSE End

\* The second node of a chain is taken for the first: the head goes with it.
EraseNode(t, k) ==
    LET chain == ChainOf(t, k)
        i == CHOOSE j \in DOMAIN chain : chain[j] = k
        rest == IF i =< 2 THEN SubSeq(chain, i + 1, Len(chain)) ELSE RemoveAt(chain, i)
    IN [t EXCEPT !.b[BucketNum(k, Buckets(t))] = rest, !.n = @ - 1]

\* erase(iterator): the table and the next iterator.
Erase(t, k) ==
    IF k = End THEN <<t, End>>
    ELSE <<EraseNode(t, k), IF Increment(t, k) = k THEN Freed ELSE Increment(t, k)>>

\* erase(first, last): every turn takes a node out, or fails.
EraseTurn(t, iter, last) ==
    CASE iter = last -> <<t, iter>>
      [] iter # last /\ iter \in {Freed, End} -> <<[t EXCEPT !.ok = FALSE], iter>>
      [] OTHER -> Erase(t, iter)
EraseRange(t, first, last) ==
    LET erased[i \in 0 .. t.n + 1] ==
            IF i = 0 THEN <<t, first>> ELSE EraseTurn(erased[i - 1][1], erased[i - 1][2], last)
    IN erased[t.n + 1][1]

EmptyTable(n) == [b |-> NoBuckets(n), n |-> 0, ok |-> TRUE]
ClearTable(t) == [t EXCEPT !.b = [i \in DOMAIN @ |-> <<>>], !.n = 0]

-----------------------------------------------------------------------------
(* The operations of Hashset *)

SecondInChain(t, k) == Len(ChainOf(t, k)) > 1 /\ ChainOf(t, k)[2] = k

\* The keys from the iterator first on, as increment orders them.
KeysFrom(t, first) ==
    LET walked[i \in 0 .. t.n] ==
            IF i = 0 THEN <<<<>>, first>>
            ELSE LET met == walked[i - 1][1]
                     iter == walked[i - 1][2]
                 IN IF iter = End THEN <<met, End>> ELSE <<Append(met, iter), Increment(t, iter)>>
    IN walked[t.n][1]

HashInit ==
    /\ table = EmptyTable(0)
    /\ hashed = {}

HashInsert(k) ==
    /\ table' = InsertUnique(table, k)[1]
    /\ hashed' = hashed \cup {k}

HashInsertHint(hint, k) ==
    /\ table' = InsertHintUnique(table, hint, k)
    /\ hashed' = hashed \cup {k}

HashErase(k) ==
    /\ "second" \in HashAvoids /\ k \in hashed => ~SecondInChain(table, k)
    /\ table' = Erase(table, Find(table, k))[1]
    /\ hashed' = hashed \ {k}

\* erase(find(k), end()); in a chain of two it uses a freed iterator.
HashEraseFrom(k) ==
    /\ "chains" \in HashAvoids => \A i \in DOMAIN table.b : Len(table.b[i]) =< 1
    /\ table' = EraseRange(table, k, End)
    /\ hashed' = hashed \ ToSet(KeysFrom(table, k))

HashClear ==
    /\ table' = ClearTable(table)
    /\ hashed' = {}

HashNext ==
    /\ table.ok
    /\ \/ \E k \in HashKeys : HashInsert(k)
       \/ \E hint \in hashed, k \in HashKeys : HashInsertHint(hint, k)
       \/ \E k \in HashKeys : HashErase(k)
       \/ \E k \in hashed : HashEraseFrom(k)
       \/ HashClear

-----------------------------------------------------------------------------
(* Properties *)

\* After every insertion, erasure and rehash a key is found exactly when it
\* is in the set, sits once and in the bucket of its hash, and the count is
\* right; the table has a bucket for every element until the primes end.
\* Where no chain has two nodes, iteration meets every key once.
TableAgrees ==
    LET nodes(i) == ToSet(table.b[i])
    IN /\ table.ok
       /\ table.n = Cardinality(hashed)
       /\ UNION {nodes(i) : i \in DOMAIN table.b} = hashed
       /\ \A i \in DOMAIN table.b :
            /\ IsInjective(table.b[i])
            /\ \A k \in nodes(i) : BucketNum(k, Buckets(table)) = i
       /\ \A k \in HashKeys : (Find(table, k) = k) = (k \in hashed)
       /\ table.n =< Buckets(table) \/ Buckets(table) = Last(PrimesList)
       /\ (\A i \in DOMAIN table.b : Len(table.b[i]) =< 1) =>
            LET walk == KeysFrom(table, GetFirstElem(table))
            IN ToSet(walk) = hashed /\ Len(walk) = Cardinality(hashed)

=============================================================================

----------------------------- MODULE NodesProofs -----------------------------
(***************************************************************************)
(* The containers over one array, the hash table and the trie, proved for  *)
(* any elements, sizes, keys, byte strings and texts.  Each operation has  *)
(* a lemma that says what it leaves in memory, loops included, in terms of *)
(* a predicate of its container: Holds (buffer), Fits (vector), Indexed    *)
(* and Ordered (heap), Tabled (hash table), Owned and Reached (trie).  The *)
(* theorems SequencesAlwaysAgree, HeapAlwaysAgrees, HashAlwaysAgrees and   *)
(* TrieAlwaysFinds put them together; that of the linked list is in        *)
(* LinkedlistProofs.  Each Careful... names the calls that are left out,   *)
(* which fail assertions or lose elements in the code.                     *)
(***************************************************************************)
EXTENDS Nodes, SequenceTheorems, FiniteSetTheorems, TLAPS

-----------------------------------------------------------------------------
(* Induction over the naturals, as the existence of a least counterexample. *)

Below == {ss \in Nat \X Nat : ss[1] < ss[2]}

LEMMA LeastElement ==
    ASSUME NEW T \in SUBSET Nat, T # {}
    PROVE  \E x \in T : \A y \in T : x <= y
<1>1. IsWellFoundedOn(Below, Nat)
    BY NatLessThanWellFounded, Zenon DEF OpToRel, Below
<1>2. PICK x \in T : \A y \in T : <<y, x>> \notin Below
    BY <1>1, WFMin
<1>3. ASSUME NEW y \in T PROVE x <= y
    <2>1. <<y, x>> \notin Below /\ x \in Nat /\ y \in Nat
        BY <1>2
    <2>2. ~ (y < x)
        BY <2>1 DEF Below
    <2>3. QED
        BY <2>1, <2>2
<1>4. QED
    BY <1>3

\* A set of naturals that holds 0 and the successor of each of its elements
\* up to n holds all of 0 .. n.
LEMMA Induction ==
    ASSUME NEW n \in Nat, NEW P, 0 \in P, \A i \in 0 .. n - 1 : i \in P => i + 1 \in P
    PROVE  \A i \in 0 .. n : i \in P
<1> SUFFICES ASSUME NEW i \in 0 .. n, i \notin P PROVE FALSE
    OBVIOUS
<1>1. {j \in 0 .. n : j \notin P} \in SUBSET Nat /\ i \in {j \in 0 .. n : j \notin P}
    OBVIOUS
<1>2. PICK m \in {j \in 0 .. n : j \notin P} :
           \A y \in {j \in 0 .. n : j \notin P} : m <= y
    BY <1>1, LeastElement
<1>3. m # 0 /\ m \in 0 .. n /\ m \notin P
    BY <1>2
<1>4. m - 1 \in 0 .. n - 1 /\ m - 1 \in 0 .. n /\ m = (m - 1) + 1
    BY <1>3
<1>5. m - 1 \notin P
    BY <1>3, <1>4
<1>6. QED
    BY <1>2, <1>4, <1>5

-----------------------------------------------------------------------------
(* Parts of sequences. *)

LEMMA PrefixIs ==
    ASSUME NEW R, NEW s \in Seq(R), NEW n \in 0 .. Len(s)
    PROVE  /\ SubSeq(s, 1, n) \in Seq(R)
           /\ Len(SubSeq(s, 1, n)) = n
           /\ \A i \in 1 .. n : SubSeq(s, 1, n)[i] = s[i]
<1>1. Len(s) \in Nat /\ n \in Nat /\ n <= Len(s)
    OBVIOUS
<1>2. QED
    BY <1>1

LEMMA SuffixIs ==
    ASSUME NEW R, NEW s \in Seq(R), NEW n \in 0 .. Len(s)
    PROVE  /\ SubSeq(s, n + 1, Len(s)) \in Seq(R)
           /\ Len(SubSeq(s, n + 1, Len(s))) = Len(s) - n
           /\ \A i \in 1 .. Len(s) - n : SubSeq(s, n + 1, Len(s))[i] = s[n + i]
<1>1. Len(s) \in Nat /\ n \in Nat /\ n <= Len(s)
    OBVIOUS
<1>2. QED
    BY <1>1

-----------------------------------------------------------------------------
(* Buffer: the bytes are where the indices say. *)

Bytes == 0 .. 255
Contents == UNION {[I -> Bytes] : I \in SUBSET Int}
Buffers == [r : Nat, w : Nat, size : Nat, data : Contents, prependable : Prependables, ok : BOOLEAN]

\* b is intact and holds the bytes of the sequence s.
Holds(b, s) ==
    /\ b \in Buffers
    /\ b.ok
    /\ s \in Seq(Bytes)
    /\ b.w = b.r + Len(s)
    /\ b.w =< b.size
    /\ b.prependable =< b.size
    /\ b.data = [i \in b.r .. b.w - 1 |-> s[i - b.r + 1]]

LEMMA HoldsMeansAgrees ==
    ASSUME NEW b, NEW s, Holds(b, s)
    PROVE  Buf!Peek(b, Buf!ReadableBytes(b)) = s
<1>1. /\ b.r \in Nat /\ b.w \in Nat /\ s \in Seq(Bytes) /\ b.w = b.r + Len(s)
      /\ b.data = [i \in b.r .. b.w - 1 |-> s[i - b.r + 1]]
    BY DEF Holds, Buffers
<1>2. Len(s) \in Nat /\ Buf!ReadableBytes(b) = Len(s)
    BY <1>1 DEF Buf!ReadableBytes
<1>3. ASSUME NEW i \in 1 .. Len(s) PROVE Buf!ByteAt(b, b.r + i - 1) = s[i]
    <2>1. b.r + i - 1 \in b.r .. b.w - 1 /\ (b.r + i - 1) - b.r + 1 = i
        BY <1>1, <1>2
    <2>2. QED
        BY <1>1, <2>1 DEF Buf!ByteAt
<1>4. Buf!Peek(b, Buf!ReadableBytes(b)) = [i \in 1 .. Len(s) |-> s[i]]
    BY <1>2, <1>3 DEF Buf!Peek
<1>5. s = [i \in 1 .. Len(s) |-> s[i]]
    BY <1>1
<1>6. QED
    BY <1>4, <1>5


LEMMA Sizes ==
    /\ PrependSize \in Nat /\ InitialSize \in Nat /\ MostReadable \in Nat
    /\ \A p \in Prependables : p \in Nat
BY BufferAssumption

LEMMA HeldIs ==
    ASSUME NEW b \in Buffers, b.ok, b.prependable =< b.size,
           NEW s \in Seq(Bytes), NEW r \in Nat, NEW w \in Nat, w = r + Len(s), w =< b.size,
           NEW data, data = [i \in r .. w - 1 |-> s[i - r + 1]]
    PROVE  Holds([b EXCEPT !.r = r, !.w = w, !.data = data, !.ok = @ /\ w =< b.size], s)
<1> DEFINE held == [b EXCEPT !.r = r, !.w = w, !.data = data, !.ok = @ /\ w =< b.size]
<1>1. data \in Contents
    <2>1. ASSUME NEW i \in r .. w - 1 PROVE s[i - r + 1] \in Bytes
        <3>1. i - r + 1 \in 1 .. Len(s)
            BY <2>1
        <3>2. QED
            BY <3>1
    <2>2. data \in [r .. w - 1 -> Bytes] /\ r \in Int /\ w - 1 \in Int
        BY <2>1
    <2>3. r .. w - 1 \in SUBSET Int
        BY <2>2
    <2>4. QED
        BY <2>2, <2>3 DEF Contents
<1>2. /\ held.r = r /\ held.w = w /\ held.data = data
      /\ held.size = b.size /\ held.prependable = b.prependable
    BY DEF Buffers
<1>3. held.ok = TRUE
    BY DEF Buffers
<1>4. held \in Buffers
    BY <1>1 DEF Buffers
<1>5. QED
    BY <1>2, <1>3, <1>4 DEF Holds

LEMMA PartsOf ==
    ASSUME NEW b, NEW s, Holds(b, s)
    PROVE  /\ b \in Buffers /\ b.r \in Nat /\ b.w \in Nat /\ b.size \in Nat /\ b.prependable \in Nat
           /\ s \in Seq(Bytes) /\ Len(s) \in Nat
           /\ b.w = b.r + Len(s) /\ b.w =< b.size
           /\ Buf!ReadableBytes(b) = Len(s)
           /\ \A i \in b.r .. b.w - 1 : Buf!ByteAt(b, i) = s[i - b.r + 1]
<1>1. b \in Buffers /\ b.r \in Nat /\ b.w \in Nat /\ b.size \in Nat /\ b.prependable \in Nat
    BY Sizes DEF Holds, Buffers
<1>2. s \in Seq(Bytes) /\ Len(s) \in Nat /\ b.w = b.r + Len(s) /\ b.w =< b.size
    BY DEF Holds
<1>3. b.data = [i \in b.r .. b.w - 1 |-> s[i - b.r + 1]]
    BY DEF Holds
<1>4. \A i \in b.r .. b.w - 1 : Buf!ByteAt(b, i) = s[i - b.r + 1]
    BY <1>3 DEF Buf!ByteAt
<1>5. Buf!ReadableBytes(b) = Len(s)
    BY <1>1, <1>2 DEF Buf!ReadableBytes
<1>6. QED
    BY <1>1, <1>2, <1>4, <1>5

LEMMA ResetHolds ==
    ASSUME NEW b, NEW s, Holds(b, s)
    PROVE  Holds(Buf!Reset(b), <<>>)
<1> DEFINE p == b.prependable
           data == [i \in p .. p - 1 |-> Buf!Junk]
<1>1. Buf!Reset(b) = [b EXCEPT !.r = p, !.w = p, !.data = data, !.ok = @ /\ p =< b.size]
    BY DEF Buf!Reset, Buf!Hold
<1>2. b \in Buffers /\ b.ok /\ p \in Nat /\ p =< b.size /\ p = p + Len(<<>>) /\ <<>> \in Seq(Bytes)
    BY Sizes DEF Holds, Buffers
<1>3. data = [i \in p .. p - 1 |-> <<>>[i - p + 1]]
    <2>1. p .. p - 1 = {}
        BY <1>2
    <2>2. QED
        BY <2>1
<1> HIDE DEF p, data
<1>4. Holds([b EXCEPT !.r = p, !.w = p, !.data = data, !.ok = @ /\ p =< b.size], <<>>)
    BY <1>2, <1>3, HeldIs DEF p
<1>5. QED
    BY <1>1, <1>4

LEMMA RetrieveHolds ==
    ASSUME NEW b, NEW s, Holds(b, s), NEW n \in Nat, n =< Buf!ReadableBytes(b)
    PROVE  Holds(Buf!Retrieve(b, n), SubSeq(s, n + 1, Len(s)))
<1> DEFINE rest == SubSeq(s, n + 1, Len(s))
           r == b.r + n
           data == [i \in r .. b.w - 1 |-> Buf!ByteAt(b, i)]
<1>1. /\ b \in Buffers /\ b.r \in Nat /\ b.w \in Nat /\ b.size \in Nat
      /\ s \in Seq(Bytes) /\ Len(s) \in Nat /\ b.w = b.r + Len(s) /\ b.w =< b.size
    BY PartsOf
<1>2. Buf!ReadableBytes(b) = Len(s) /\ \A i \in b.r .. b.w - 1 : Buf!ByteAt(b, i) = s[i - b.r + 1]
    BY PartsOf
<1>3. n =< Len(s)
    BY <1>2
<1>4. /\ rest \in Seq(Bytes) /\ Len(rest) = Len(s) - n
      /\ \A i \in 1 .. Len(s) - n : rest[i] = s[n + i]
    <2>1. n \in 0 .. Len(s)
        BY <1>1, <1>3
    <2>2. QED
        BY <1>1, <2>1, SuffixIs
<1>5. CASE n = Len(s)
    <2>1. rest = <<>>
        BY <1>1, <1>5
    <2>2. Buf!Retrieve(b, n) = Buf!Reset(b)
        BY <1>1, <1>2, <1>5 DEF Buf!Retrieve
    <2>3. QED
        BY <2>1, <2>2, ResetHolds
<1>6. CASE n # Len(s)
    <2>1. Buf!Retrieve(b, n) = [b EXCEPT !.r = r, !.w = b.w, !.data = data, !.ok = @ /\ b.w =< b.size]
        BY <1>1, <1>2, <1>3, <1>6 DEF Buf!Retrieve, Buf!Hold
    <2>2. data = [i \in r .. b.w - 1 |-> rest[i - r + 1]]
        <3>1. ASSUME NEW i \in r .. b.w - 1 PROVE Buf!ByteAt(b, i) = rest[i - r + 1]
            <4>1. /\ i \in b.r .. b.w - 1 /\ i - r + 1 \in 1 .. Len(s) - n
                  /\ n + (i - r + 1) = i - b.r + 1
                BY <1>1, <1>3, <3>1
            <4>2. QED
                BY <1>2, <1>4, <4>1
        <3>2. QED
            BY <3>1
    <2>3. r \in Nat /\ b.w = r + Len(rest) /\ b.ok /\ b.prependable =< b.size
        <3>1. r \in Nat /\ b.w = r + Len(rest)
            BY <1>1, <1>4
        <3>2. QED
            BY <3>1 DEF Holds
    <2> HIDE DEF r, data, rest
    <2>4. Holds([b EXCEPT !.r = r, !.w = b.w, !.data = data, !.ok = @ /\ b.w =< b.size], rest)
        BY <1>1, <1>4, <2>2, <2>3, HeldIs
    <2>5. QED
        BY <2>1, <2>4 DEF rest
<1>7. QED
    BY <1>5, <1>6

\* Moved down or resized, the bytes are the same and n more fit.
LEMMA ExtendHolds ==
    ASSUME NEW b, NEW s, Holds(b, s), NEW n \in Nat
    PROVE  /\ Holds(Buf!ExtendIfNeeded(b, n), s)
           /\ Buf!ExtendIfNeeded(b, n).w + n =< Buf!ExtendIfNeeded(b, n).size
<1> DEFINE e == Buf!ExtendIfNeeded(b, n)
           down == b.r - PrependSize
           w == PrependSize + Len(s)
           data == [i \in PrependSize .. w - 1 |-> Buf!ByteAt(b, i + down)]
<1>1. /\ b \in Buffers /\ b.r \in Nat /\ b.w \in Nat /\ b.size \in Nat
      /\ s \in Seq(Bytes) /\ Len(s) \in Nat /\ b.w = b.r + Len(s) /\ b.w =< b.size
    BY PartsOf
<1>2. Buf!ReadableBytes(b) = Len(s) /\ \A i \in b.r .. b.w - 1 : Buf!ByteAt(b, i) = s[i - b.r + 1]
    BY PartsOf
<1>3. PrependSize \in Nat
    BY BufferAssumption
<1>4. CASE n =< b.size - b.w
    <2>1. e = b
        BY <1>1, <1>4 DEF Buf!ExtendIfNeeded, Buf!WritableBytes
    <2>2. b.w + n =< b.size
        BY <1>1, <1>4
    <2>3. QED
        BY <2>1, <2>2
<1>5. CASE n > b.size - b.w /\ b.r + (b.size - b.w) < n + PrependSize
    <2>1. e = [b EXCEPT !.size = b.w + n]
        BY <1>1, <1>5 DEF Buf!ExtendIfNeeded, Buf!WritableBytes, Buf!PrependableBytes
    <2>2. /\ b.w + n \in Nat /\ b.size =< b.w + n /\ b.w =< b.w + n
          /\ b.prependable \in Nat /\ b.prependable =< b.size
        BY <1>1, <1>5, Sizes DEF Holds, Buffers
    <2>3. /\ e \in Buffers /\ e.r = b.r /\ e.w = b.w /\ e.size = b.w + n /\ e.ok = b.ok
          /\ e.data = b.data /\ e.prependable = b.prependable
        BY <1>1, <2>1, <2>2 DEF Buffers
    <2>4. e.prependable =< e.size /\ e.w =< e.size /\ e.w + n =< e.size
        BY <1>1, <2>2, <2>3
    <2> HIDE DEF e
    <2>5. Holds(e, s)
        BY <2>3, <2>4 DEF Holds
    <2>6. QED
        BY <2>4, <2>5 DEF e
<1>6. CASE n > b.size - b.w /\ ~ (b.r + (b.size - b.w) < n + PrependSize)
    <2>1. e = [b EXCEPT !.r = PrependSize, !.w = w, !.data = data, !.ok = @ /\ w =< b.size]
        BY <1>1, <1>2, <1>6 DEF Buf!ExtendIfNeeded, Buf!WritableBytes, Buf!PrependableBytes, Buf!Hold
    <2>2. w + n =< b.size /\ w \in Nat /\ w =< b.size
        BY <1>1, <1>3, <1>6
    <2>3. data = [i \in PrependSize .. w - 1 |-> s[i - PrependSize + 1]]
        <3>1. ASSUME NEW i \in PrependSize .. w - 1
              PROVE  Buf!ByteAt(b, i + down) = s[i - PrependSize + 1]
            <4>1. /\ i + down \in b.r .. b.w - 1
                  /\ (i + down) - b.r + 1 = i - PrependSize + 1
                BY <1>1, <1>3, <3>1
            <4>2. QED
                BY <1>2, <4>1
        <3>2. QED
            BY <3>1
    <2>4. b.ok /\ b.prependable =< b.size
        BY DEF Holds
    <2>5. w = PrependSize + Len(s)
        OBVIOUS
    <2> HIDE DEF w, data
    <2>6. Holds([b EXCEPT !.r = PrependSize, !.w = w, !.data = data, !.ok = @ /\ w =< b.size], s)
        BY <1>1, <1>3, <2>2, <2>3, <2>4, <2>5, HeldIs
    <2>7. e.w = w /\ e.size = b.size
        BY <1>1, <2>1 DEF Buffers
    <2>8. QED
        BY <2>1, <2>2, <2>6, <2>7
<1>7. QED
    BY <1>1, <1>4, <1>5, <1>6

\* A buffer to which bytes were written behind those it holds.
Written(b, bytes) ==
    LET w == b.w + Len(bytes)
    IN [b EXCEPT !.r = b.r, !.w = w,
                 !.data = [i \in b.r .. w - 1 |->
                              IF i < b.w THEN Buf!ByteAt(b, i) ELSE bytes[i - b.w + 1]],
                 !.ok = @ /\ w =< b.size]

LEMMA WrittenHolds ==
    ASSUME NEW b, NEW s, Holds(b, s), NEW bytes \in Seq(Bytes), b.w + Len(bytes) =< b.size
    PROVE  Holds(Written(b, bytes), s \o bytes)
<1> DEFINE r == b.r
           w == b.w + Len(bytes)
           all == s \o bytes
           data == [i \in r .. w - 1 |-> IF i < b.w THEN Buf!ByteAt(b, i) ELSE bytes[i - b.w + 1]]
<1>1. /\ b \in Buffers /\ b.r \in Nat /\ b.w \in Nat /\ b.size \in Nat
      /\ s \in Seq(Bytes) /\ Len(s) \in Nat /\ b.w = b.r + Len(s) /\ b.w =< b.size
      /\ \A i \in b.r .. b.w - 1 : Buf!ByteAt(b, i) = s[i - b.r + 1]
    BY PartsOf
<1>2. /\ all \in Seq(Bytes) /\ Len(all) = Len(s) + Len(bytes)
      /\ \A i \in 1 .. Len(s) + Len(bytes) : all[i] = IF i <= Len(s) THEN s[i] ELSE bytes[i - Len(s)]
    BY <1>1, ConcatProperties
<1>3. Len(bytes) \in Nat
    OBVIOUS
<1>4. ASSUME NEW i \in b.r .. w - 1
      PROVE  (IF i < b.w THEN Buf!ByteAt(b, i) ELSE bytes[i - b.w + 1]) = all[i - b.r + 1]
    <2>1. i - b.r + 1 \in 1 .. Len(s) + Len(bytes)
        BY <1>1, <1>3, <1>4
    <2>2. CASE i < b.w
        <3>1. i \in b.r .. b.w - 1 /\ i - b.r + 1 <= Len(s)
            BY <1>1, <1>4, <2>2
        <3>2. QED
            BY <1>1, <1>2, <2>1, <2>2, <3>1
    <2>3. CASE ~ (i < b.w)
        <3>1. b.r \in Nat /\ Len(s) \in Nat /\ b.w = b.r + Len(s) /\ i \in Int
            BY <1>1, <1>4
        <3>2. ~ (i - b.r + 1 <= Len(s)) /\ (i - b.r + 1) - Len(s) = i - b.w + 1
            BY <2>3, <3>1
        <3>3. QED
            BY <1>2, <2>1, <2>3, <3>2
    <2>4. QED
        BY <2>2, <2>3
<1>5. data = [i \in r .. w - 1 |-> all[i - r + 1]]
    BY <1>4
<1>6. r \in Nat /\ w \in Nat /\ w = r + Len(all) /\ w =< b.size
    BY <1>1, <1>2, <1>3
<1>7. b.ok /\ b.prependable =< b.size
    BY DEF Holds
<1>8. Written(b, bytes) = [b EXCEPT !.r = r, !.w = w, !.data = data, !.ok = @ /\ w =< b.size]
    BY DEF Written
<1> HIDE DEF all, data, w, r
<1>9. Holds([b EXCEPT !.r = r, !.w = w, !.data = data, !.ok = @ /\ w =< b.size], all)
    BY <1>1, <1>2, <1>5, <1>6, <1>7, HeldIs
<1>10. QED
    BY <1>8, <1>9 DEF all

LEMMA AppendHolds ==
    ASSUME NEW b, NEW s, Holds(b, s), NEW bytes \in Seq(Bytes)
    PROVE  Holds(Buf!AppendBytes(b, bytes), s \o bytes)
<1> DEFINE e == Buf!ExtendIfNeeded(b, Len(bytes))
<1>1. Len(bytes) \in Nat
    OBVIOUS
<1>2. Holds(e, s) /\ e.w + Len(bytes) =< e.size
    BY <1>1, ExtendHolds
<1>3. Buf!AppendBytes(b, bytes) = Written(e, bytes)
    BY DEF Buf!AppendBytes, Buf!Hold, Written
<1> HIDE DEF e
<1>4. QED
    BY <1>2, <1>3, WrittenHolds

LEMMA PrependHolds ==
    ASSUME NEW b, NEW s, Holds(b, s), NEW bytes \in Seq(Bytes), Len(bytes) =< b.r
    PROVE  Holds(Buf!Prepend(b, bytes), bytes \o s)
<1> DEFINE r == b.r - Len(bytes)
           all == bytes \o s
           data == [i \in r .. b.w - 1 |-> IF i < b.r THEN bytes[i - r + 1] ELSE Buf!ByteAt(b, i)]
<1>1. /\ b \in Buffers /\ b.r \in Nat /\ b.w \in Nat /\ b.size \in Nat
      /\ s \in Seq(Bytes) /\ Len(s) \in Nat /\ b.w = b.r + Len(s) /\ b.w =< b.size
      /\ \A i \in b.r .. b.w - 1 : Buf!ByteAt(b, i) = s[i - b.r + 1]
    BY PartsOf
<1>2. /\ all \in Seq(Bytes) /\ Len(all) = Len(bytes) + Len(s)
      /\ \A i \in 1 .. Len(bytes) + Len(s) :
             all[i] = IF i <= Len(bytes) THEN bytes[i] ELSE s[i - Len(bytes)]
    BY <1>1, ConcatProperties
<1>3. Len(bytes) \in Nat
    OBVIOUS
<1>4. ASSUME NEW i \in r .. b.w - 1
      PROVE  (IF i < b.r THEN bytes[i - r + 1] ELSE Buf!ByteAt(b, i)) = all[i - r + 1]
    <2>1. i - r + 1 \in 1 .. Len(bytes) + Len(s)
        BY <1>1, <1>3, <1>4
    <2>2. CASE i < b.r
        <3>1. i - r + 1 <= Len(bytes)
            BY <1>1, <1>3, <1>4, <2>2
        <3>2. QED
            BY <1>2, <2>1, <2>2, <3>1
    <2>3. CASE ~ (i < b.r)
        <3>1. /\ i \in b.r .. b.w - 1 /\ ~ (i - r + 1 <= Len(bytes))
              /\ (i - r + 1) - Len(bytes) = i - b.r + 1
            BY <1>1, <1>3, <1>4, <2>3
        <3>2. QED
            BY <1>1, <1>2, <2>1, <2>3, <3>1
    <2>4. QED
        BY <2>2, <2>3
<1>5. data = [i \in r .. b.w - 1 |-> all[i - r + 1]]
    BY <1>4
<1>6. r \in Nat /\ b.w = r + Len(all)
    BY <1>1, <1>2, <1>3
<1>7. b.ok /\ b.prependable =< b.size
    BY DEF Holds
<1>8. Buf!Prepend(b, bytes) = [b EXCEPT !.r = r, !.w = b.w, !.data = data, !.ok = @ /\ b.w =< b.size]
    BY <1>1, <1>3 DEF Buf!Prepend, Buf!Hold, Buf!PrependableBytes
<1> HIDE DEF r, data, all
<1>9. Holds([b EXCEPT !.r = r, !.w = b.w, !.data = data, !.ok = @ /\ b.w =< b.size], all)
    BY <1>1, <1>2, <1>5, <1>6, <1>7, HeldIs
<1>10. QED
    BY <1>8, <1>9 DEF all

\* readv fills the buffer, and what did not fit is appended.
LEMMA ReadFdHolds ==
    ASSUME NEW b, NEW s, Holds(b, s), NEW bytes \in Seq(Bytes)
    PROVE  Holds(Buf!ReadFd(b, bytes), s \o bytes)
<1> DEFINE room == b.size - b.w
           fits == SubSeq(bytes, 1, room)
           rest == SubSeq(bytes, room + 1, Len(bytes))
           filled == Written(b, fits)
<1>1. b.w \in Nat /\ b.size \in Nat /\ b.w =< b.size /\ s \in Seq(Bytes) /\ Len(bytes) \in Nat
    BY PartsOf
<1>2. room \in Nat
    BY <1>1
<1>3. Buf!WritableBytes(b) = room
    BY DEF Buf!WritableBytes
<1>4. CASE Len(bytes) < room
    <2>1. Buf!ReadFd(b, bytes) = Buf!AppendBytes(b, bytes)
        BY <1>3, <1>4 DEF Buf!ReadFd
    <2>2. QED
        BY <2>1, AppendHolds
<1>5. CASE ~ (Len(bytes) < room)
    <2>1. room \in 0 .. Len(bytes)
        BY <1>1, <1>2, <1>5
    <2>2. fits \in Seq(Bytes) /\ Len(fits) = room
        BY <2>1, PrefixIs
    <2>3. rest \in Seq(Bytes)
        BY <2>1, SuffixIs
    <2>4. fits \o rest = bytes
        <3>1. 1 \in 1 .. Len(bytes) + 1 /\ room \in 1 - 1 .. Len(bytes) /\ Len(bytes) \in room .. Len(bytes)
            BY <1>1, <2>1
        <3>2. fits \o rest = SubSeq(bytes, 1, Len(bytes))
            BY <3>1, ConcatAdjacentSubSeq
        <3>3. QED
            BY <3>2, SubSeqFull
    <2>5. b.w + Len(fits) = b.size
        BY <1>1, <2>2
    <2>6. Buf!ReadFd(b, bytes) = Buf!AppendBytes(filled, rest)
        BY <1>3, <1>5, <2>5 DEF Buf!ReadFd, Buf!Hold, Written
    <2> HIDE DEF fits, rest
    <2>7. Holds(filled, s \o fits)
        BY <1>1, <2>2, <2>5, WrittenHolds
    <2> HIDE DEF filled
    <2>8. Holds(Buf!AppendBytes(filled, rest), (s \o fits) \o rest)
        BY <2>3, <2>7, AppendHolds
    <2>9. (s \o fits) \o rest = s \o (fits \o rest)
        <3>1. s \in Seq(Bytes) /\ fits \in Seq(Bytes) /\ rest \in Seq(Bytes)
            BY <1>1, <2>2, <2>3
        <3>2. QED
            BY <3>1, ConcatAssociative
    <2>10. QED
        BY <2>4, <2>6, <2>8, <2>9
<1>6. QED
    BY <1>4, <1>5

LEMMA ConstructHolds ==
    ASSUME NEW p \in Prependables, NEW q \in Prependables
    PROVE  Holds([Buf!Construct(p) EXCEPT !.prependable = q], <<>>)
<1> DEFINE c == Buf!Construct(p)
           b == [c EXCEPT !.prependable = q]
<1>1. p \in Nat /\ q \in Nat /\ q =< p + InitialSize /\ InitialSize \in Nat /\ p + InitialSize \in Nat
    BY Sizes, BufferAssumption
<1>2. c = [r |-> p, w |-> p, size |-> p + InitialSize, data |-> <<>>, prependable |-> p, ok |-> TRUE]
    BY DEF Buf!Construct
<1>3. <<>> = [i \in p .. p - 1 |-> <<>>[i - p + 1]]
    <2>1. p .. p - 1 = {}
        BY <1>1
    <2>2. QED
        BY <2>1
<1>4. <<>> \in Contents
    <2>1. <<>> \in [{} -> Bytes] /\ {} \in SUBSET Int
        OBVIOUS
    <2>2. QED
        BY <2>1 DEF Contents
<1>5. /\ c \in Buffers /\ c.r = p /\ c.w = p /\ c.size = p + InitialSize
      /\ c.data = <<>> /\ c.ok
    BY <1>1, <1>2, <1>4 DEF Buffers
<1> HIDE DEF c
<1>6. /\ b \in Buffers /\ b.r = p /\ b.w = p /\ b.size = p + InitialSize
      /\ b.data = <<>> /\ b.prependable = q
    BY <1>5 DEF Buffers
<1>7. b.ok
    BY <1>5 DEF Buffers
<1>8. p = p + Len(<<>>) /\ <<>> \in Seq(Bytes) /\ p =< p + InitialSize
    BY <1>1
<1> HIDE DEF b
<1>9. Holds(b, <<>>)
    BY <1>1, <1>3, <1>6, <1>7, <1>8 DEF Holds
<1>10. QED
    BY <1>9 DEF b, c

LEMMA BufferStarts ==
    ASSUME Buf!BufferInit
    PROVE  Holds(buffer, unread)
<1>1. PICK p \in Prependables : buffer = Buf!Construct(p)
    BY DEF Buf!BufferInit
<1>2. [Buf!Construct(p) EXCEPT !.prependable = p] = Buf!Construct(p)
    <2> DEFINE c == Buf!Construct(p)
    <2>1. c = [r |-> p, w |-> p, size |-> p + InitialSize, data |-> <<>>, prependable |-> p, ok |-> TRUE]
        BY DEF Buf!Construct
    <2>2. c.prependable = p /\ c = [x \in DOMAIN c |-> c[x]]
        BY <2>1
    <2> HIDE DEF c
    <2>3. [c EXCEPT !.prependable = p] = [x \in DOMAIN c |-> c[x]]
        BY <2>2
    <2>4. QED
        BY <2>2, <2>3 DEF c
<1>3. unread = <<>>
    BY DEF Buf!BufferInit
<1>4. Holds([Buf!Construct(p) EXCEPT !.prependable = p], <<>>)
    BY ConstructHolds
<1>5. QED
    BY <1>1, <1>2, <1>3, <1>4

\* No more is retrieved than is readable.
CarefulBuffer == "too much" \in BufferAvoids

LEMMA BufferSteps ==
    ASSUME CarefulBuffer, Holds(buffer, unread), Buf!BufferNext
    PROVE  Holds(buffer', unread')
<1>1. /\ buffer.r \in Nat /\ unread \in Seq(Bytes) /\ Len(unread) \in Nat
      /\ Buf!ReadableBytes(buffer) = Len(unread)
    BY PartsOf
<1>2. ASSUME NEW bytes \in Chunks, Buf!BufferAppend(bytes)
      PROVE  Holds(buffer', unread')
    <2>1. bytes \in Seq(Bytes)
        BY BufferAssumption DEF Bytes
    <2>2. buffer' = Buf!AppendBytes(buffer, bytes) /\ unread' = unread \o bytes
        BY <1>2 DEF Buf!BufferAppend
    <2>3. QED
        BY <2>1, <2>2, AppendHolds
<1>3. ASSUME NEW bytes \in Chunks, Buf!BufferPrepend(bytes)
      PROVE  Holds(buffer', unread')
    <2>1. bytes \in Seq(Bytes)
        BY BufferAssumption DEF Bytes
    <2>2. /\ buffer' = Buf!Prepend(buffer, bytes) /\ unread' = bytes \o unread
          /\ Len(bytes) =< buffer.r
        BY <1>3 DEF Buf!BufferPrepend, Buf!PrependableBytes
    <2>3. QED
        BY <2>1, <2>2, PrependHolds
<1>4. ASSUME NEW bytes \in Chunks, Buf!BufferReadFd(bytes)
      PROVE  Holds(buffer', unread')
    <2>1. bytes \in Seq(Bytes)
        BY BufferAssumption DEF Bytes
    <2>2. buffer' = Buf!ReadFd(buffer, bytes) /\ unread' = unread \o bytes
        BY <1>4 DEF Buf!BufferReadFd
    <2>3. QED
        BY <2>1, <2>2, ReadFdHolds
<1>5. ASSUME NEW n \in 0 .. MostReadable + 1, Buf!BufferRetrieve(n)
      PROVE  Holds(buffer', unread')
    <2>1. n \in Nat
        BY Sizes
    <2>2. /\ n =< Buf!ReadableBytes(buffer)
          /\ buffer' = Buf!Retrieve(buffer, n) /\ unread' = SubSeq(unread, n + 1, Len(unread))
        BY <1>5 DEF Buf!BufferRetrieve, CarefulBuffer
    <2>3. QED
        BY <2>1, <2>2, RetrieveHolds
<1>6. ASSUME Buf!BufferRetrieveAll
      PROVE  Holds(buffer', unread')
    <2> DEFINE n == Len(unread)
    <2>1. n \in Nat /\ n =< Buf!ReadableBytes(buffer) /\ n + 1 \in Int /\ n < n + 1
        BY <1>1
    <2>2. buffer' = Buf!Retrieve(buffer, n) /\ unread' = <<>>
        BY <1>1, <1>6 DEF Buf!BufferRetrieveAll, Buf!RetrieveAll
    <2>3. Holds(Buf!Retrieve(buffer, n), SubSeq(unread, n + 1, Len(unread)))
        BY <2>1, RetrieveHolds
    <2>4. SubSeq(unread, n + 1, n) = <<>>
        BY <2>1, SubSeqEmpty
    <2>5. QED
        BY <2>2, <2>3, <2>4
<1>7. ASSUME NEW p \in Prependables, Buf!BufferSwap(p)
      PROVE  Holds(buffer', unread')
    <2>1. buffer' = [Buf!Construct(p) EXCEPT !.prependable = buffer.prependable] /\ unread' = <<>>
        BY <1>7 DEF Buf!BufferSwap, Buf!Swap
    <2>2. buffer.prependable \in Prependables
        BY DEF Holds, Buffers
    <2>3. QED
        BY <2>1, <2>2, ConstructHolds
<1>8. QED
    BY <1>2, <1>3, <1>4, <1>5, <1>6, <1>7 DEF Buf!BufferNext

LEMMA BufferHoldsWhatWasPut ==
    ASSUME Holds(buffer, unread)
    PROVE  Buf!BufferAgrees
<1>1. Buf!Peek(buffer, Buf!ReadableBytes(buffer)) = unread
    BY HoldsMeansAgrees
<1>2. /\ buffer.r \in Nat /\ buffer.w \in Nat /\ Len(unread) \in Nat
      /\ buffer.w = buffer.r + Len(unread) /\ buffer.w =< buffer.size
    BY PartsOf
<1>3. buffer.ok /\ 0 =< buffer.r /\ buffer.r =< buffer.w
    BY <1>2 DEF Holds
<1>4. QED
    BY <1>1, <1>2, <1>3 DEF Buf!BufferAgrees

-----------------------------------------------------------------------------
(* Vector: the elements are those of the sequence and fit. *)

Fits(v, s) ==
    /\ s \in Seq(Elements)
    /\ v.e = s
    /\ v.cap \in Nat
    /\ v.ok = TRUE
    /\ Len(s) =< v.cap

LEMMA KeptFits ==
    ASSUME NEW v, NEW s, Fits(v, s),
           NEW e \in Seq(Elements), NEW cap \in Nat, Len(e) =< cap
    PROVE  Fits(Vec!Hold(v, e, cap), e)
<1> DEFINE kept == Vec!Hold(v, e, cap)
<1>1. kept = [e |-> e, cap |-> cap, ok |-> v.ok /\ Len(e) =< cap]
    BY DEF Vec!Hold
<1>2. (v.ok /\ Len(e) =< cap) = TRUE
    BY DEF Fits
<1>3. kept.e = e /\ kept.cap = cap
    BY <1>1
<1>4. kept.ok = TRUE
    <2>1. kept.ok = (v.ok /\ Len(e) =< cap)
        BY <1>1
    <2>2. QED
        BY <1>2, <2>1, Zenon
<1>5. QED
    BY <1>3, <1>4 DEF Fits

LEMMA VectorParts ==
    ASSUME NEW v, NEW s, Fits(v, s)
    PROVE  /\ s \in Seq(Elements) /\ Len(s) \in Nat /\ v.cap \in Nat /\ Len(s) =< v.cap
           /\ v.e = s /\ Vec!Size(v) = Len(s)
<1>1. s \in Seq(Elements) /\ v.e = s /\ v.cap \in Nat /\ Len(s) =< v.cap
    BY DEF Fits
<1>2. QED
    BY <1>1 DEF Vec!Size

\* A sequence with others put between its parts.
LEMMA JoinedIs ==
    ASSUME NEW R, NEW s \in Seq(R), NEW t \in Seq(R), NEW i \in 1 .. Len(s) + 1
    PROVE  /\ SubSeq(s, 1, i - 1) \o t \o SubSeq(s, i, Len(s)) \in Seq(R)
           /\ Len(SubSeq(s, 1, i - 1) \o t \o SubSeq(s, i, Len(s))) = Len(s) + Len(t)
<1> DEFINE a == SubSeq(s, 1, i - 1)
           b == SubSeq(s, i, Len(s))
<1>1. Len(s) \in Nat /\ i \in Nat /\ 1 =< i /\ i =< Len(s) + 1 /\ i - 1 \in 0 .. Len(s)
    OBVIOUS
<1>2. a \in Seq(R) /\ Len(a) = i - 1
    BY <1>1, PrefixIs
<1>3. (i - 1) + 1 = i
    BY <1>1
<1>4. b \in Seq(R) /\ Len(b) = Len(s) - (i - 1)
    BY <1>1, <1>3, SuffixIs
<1> HIDE DEF a, b
<1>5. a \o t \in Seq(R) /\ Len(a \o t) = Len(a) + Len(t)
    BY <1>2, ConcatProperties
<1>6. a \o t \o b \in Seq(R) /\ Len(a \o t \o b) = Len(a \o t) + Len(b)
    BY <1>4, <1>5, ConcatProperties
<1>7. Len(t) \in Nat
    OBVIOUS
<1>8. Len(a \o t \o b) = Len(s) + Len(t)
    BY <1>1, <1>2, <1>4, <1>5, <1>6, <1>7
<1>9. QED
    BY <1>6, <1>8 DEF a, b

LEMMA CutIs ==
    ASSUME NEW R, NEW s \in Seq(R), NEW i \in 1 .. Len(s) + 1, NEW j \in 1 .. Len(s) + 1, i =< j
    PROVE  /\ SubSeq(s, 1, i - 1) \o SubSeq(s, j, Len(s)) \in Seq(R)
           /\ Len(SubSeq(s, 1, i - 1) \o SubSeq(s, j, Len(s))) =< Len(s)
           /\ Len(SubSeq(s, 1, i - 1) \o SubSeq(s, j, Len(s))) \in Nat
<1> DEFINE a == SubSeq(s, 1, i - 1)
           b == SubSeq(s, j, Len(s))
<1>1. Len(s) \in Nat /\ i \in Nat /\ j \in Nat /\ i - 1 \in 0 .. Len(s) /\ j - 1 \in 0 .. Len(s)
    OBVIOUS
<1>2. a \in Seq(R) /\ Len(a) = i - 1
    BY <1>1, PrefixIs
<1>3. (j - 1) + 1 = j
    BY <1>1
<1>4. b \in Seq(R) /\ Len(b) = Len(s) - (j - 1)
    BY <1>1, <1>3, SuffixIs
<1> HIDE DEF a, b
<1>5. a \o b \in Seq(R) /\ Len(a \o b) = Len(a) + Len(b)
    BY <1>2, <1>4, ConcatProperties
<1>6. Len(a \o b) =< Len(s) /\ Len(a \o b) \in Nat
    BY <1>1, <1>2, <1>4, <1>5
<1>7. QED
    BY <1>5, <1>6 DEF a, b

LEMMA TimesIs ==
    ASSUME NEW n \in Nat, NEW x \in Elements
    PROVE  Vec!Times(n, x) \in Seq(Elements) /\ Len(Vec!Times(n, x)) = n
<1>1. Vec!Times(n, x) \in [1 .. n -> Elements]
    BY DEF Vec!Times
<1>2. QED
    BY <1>1

\* Not the one size at which growth by half does not grow.
Grows(v) == ~ (Vec!Size(v) = 1 /\ v.cap = 1)

LEMMA EmplaceFits ==
    ASSUME NEW v, NEW s, Fits(v, s), Grows(v), NEW x \in Elements, NEW i \in 1 .. Len(s) + 1,
           Vec!HasRoom(v) => i =< Len(s)
    PROVE  /\ Fits(Vec!EmplaceAux(v, i, x), Vec!InsertAt(s, i, x))
           /\ v.cap # 1 => Vec!EmplaceAux(v, i, x).cap # 1
<1> DEFINE e == SubSeq(s, 1, i - 1) \o <<x>> \o SubSeq(s, i, Len(s))
           grown == IF Len(s) = 0 THEN 2 ELSE (3 * Len(s)) \div 2
           w == Vec!EmplaceAux(v, i, x)
<1>1. /\ s \in Seq(Elements) /\ Len(s) \in Nat /\ v.cap \in Nat /\ Len(s) =< v.cap
      /\ v.e = s /\ Vec!Size(v) = Len(s)
    BY VectorParts
<1>2. <<x>> \in Seq(Elements) /\ Len(<<x>>) = 1
    OBVIOUS
<1>3. e \in Seq(Elements) /\ Len(e) = Len(s) + 1
    BY <1>1, <1>2, JoinedIs
<1>4. Vec!InsertAt(s, i, x) = e
    BY DEF Vec!InsertAt
<1>5. Vec!Before(v, i) \o <<x>> \o Vec!From(v, i) = e
    BY <1>1 DEF Vec!Before, Vec!From
<1> HIDE DEF e
<1>6. CASE Len(s) # v.cap
    <2>1. w = [Vec!Hold(v, e, v.cap) EXCEPT !.ok = @ /\ i =< Len(s)]
        BY <1>1, <1>5, <1>6 DEF Vec!EmplaceAux, Vec!HasRoom
    <2>2. i =< Len(s)
        BY <1>1, <1>6 DEF Vec!HasRoom
    <2>3. Fits(Vec!Hold(v, e, v.cap), e)
        BY <1>1, <1>3, <1>6, KeptFits
    <2>4. w.e = e /\ w.cap = v.cap
        BY <2>1 DEF Vec!Hold
    <2>5. w.ok = TRUE
        BY <2>1, <2>2, <2>3 DEF Vec!Hold, Fits
    <2>6. Fits(w, e)
        BY <1>1, <1>3, <1>6, <2>4, <2>5 DEF Fits
    <2>7. QED
        BY <1>4, <2>4, <2>6
<1>7. CASE Len(s) = v.cap
    <2>1. w = Vec!Hold(v, e, grown)
        BY <1>1, <1>5, <1>7 DEF Vec!EmplaceAux, Vec!HasRoom
    <2>2. grown \in Nat /\ Len(e) =< grown /\ grown # 1
        <3>1. Len(s) # 1
            BY <1>1, <1>7 DEF Grows
        <3>2. QED
            BY <1>1, <1>3, <3>1
    <2> HIDE DEF grown
    <2>3. Fits(w, e)
        BY <1>3, <2>1, <2>2, KeptFits
    <2>4. w.cap = grown
        BY <2>1 DEF Vec!Hold
    <2>5. QED
        BY <1>4, <2>2, <2>3, <2>4
<1>8. QED
    BY <1>6, <1>7

LEMMA PushBackFits ==
    ASSUME NEW v, NEW s, Fits(v, s), Grows(v), NEW x \in Elements
    PROVE  Fits(Vec!PushBack(v, x), Append(s, x)) /\ (v.cap # 1 => Vec!PushBack(v, x).cap # 1)
<1>1. /\ s \in Seq(Elements) /\ Len(s) \in Nat /\ v.cap \in Nat /\ Len(s) =< v.cap
      /\ v.e = s /\ Vec!Size(v) = Len(s)
    BY VectorParts
<1>2. Append(s, x) \in Seq(Elements) /\ Len(Append(s, x)) = Len(s) + 1
    BY <1>1
<1>3. CASE Vec!HasRoom(v)
    <2>1. Vec!PushBack(v, x) = Vec!Hold(v, Append(s, x), v.cap)
        BY <1>1, <1>3 DEF Vec!PushBack
    <2>2. Len(s) # v.cap /\ Len(s) + 1 =< v.cap
        BY <1>1, <1>3 DEF Vec!HasRoom
    <2>3. Fits(Vec!PushBack(v, x), Append(s, x))
        BY <1>1, <1>2, <2>1, <2>2, KeptFits
    <2>4. Vec!PushBack(v, x).cap = v.cap
        BY <2>1 DEF Vec!Hold
    <2>5. QED
        BY <2>3, <2>4
<1>4. CASE ~ Vec!HasRoom(v)
    <2>1. Vec!PushBack(v, x) = Vec!EmplaceAux(v, Len(s) + 1, x)
        BY <1>1, <1>4 DEF Vec!PushBack
    <2>2. Len(s) + 1 \in 1 .. Len(s) + 1
        BY <1>1
    <2>3. Vec!InsertAt(s, Len(s) + 1, x) = Append(s, x)
        <3>1. (Len(s) + 1) - 1 = Len(s) /\ Len(s) + 1 \in Int /\ Len(s) \in Int /\ Len(s) < Len(s) + 1
            BY <1>1
        <3>2. SubSeq(s, 1, Len(s)) = s /\ SubSeq(s, Len(s) + 1, Len(s)) = <<>>
            BY <1>1, <3>1, SubSeqFull, SubSeqEmpty
        <3>3. Append(s, x) = s \o <<x>>
            BY <1>1, AppendIsConcat
        <3>4. s \o <<x>> \o <<>> = s \o <<x>>
            BY <1>1, <1>2, <3>3, ConcatEmptySeq
        <3>5. QED
            BY <3>1, <3>2, <3>3, <3>4 DEF Vec!InsertAt
    <2>4. QED
        BY <1>4, <2>1, <2>2, <2>3, EmplaceFits
<1>5. QED
    BY <1>3, <1>4

LEMMA InsertFits ==
    ASSUME NEW v, NEW s, Fits(v, s), NEW x \in Elements, NEW i \in 1 .. Len(s) + 1, NEW n \in Nat,
           v.cap - Len(s) >= n => Len(s) - i + 1 \notin 1 .. n
    PROVE  Fits(Vec!Insert(v, i, n, x),
                SubSeq(s, 1, i - 1) \o Vec!Times(n, x) \o SubSeq(s, i, Len(s)))
<1> DEFINE a == SubSeq(s, 1, i - 1)
           t == Vec!Times(n, x)
           b == SubSeq(s, i, Len(s))
           after == Len(s) - i + 1
           w == Vec!Insert(v, i, n, x)
<1>1. /\ s \in Seq(Elements) /\ Len(s) \in Nat /\ v.cap \in Nat /\ Len(s) =< v.cap
      /\ v.e = s /\ Vec!Size(v) = Len(s)
    BY VectorParts
<1>2. t \in Seq(Elements) /\ Len(t) = n
    BY TimesIs
<1>3. a \o t \o b \in Seq(Elements) /\ Len(a \o t \o b) = Len(s) + n
    <2>1. s \in Seq(Elements)
        BY <1>1
    <2> HIDE DEF t
    <2>2. a \o t \o b \in Seq(Elements) /\ Len(a \o t \o b) = Len(s) + Len(t)
        BY <1>2, <2>1, JoinedIs
    <2>3. QED
        BY <1>2, <2>2
<1>4. Vec!Before(v, i) = a /\ Vec!From(v, i) = b
    BY <1>1 DEF Vec!Before, Vec!From
<1>5. a \in Seq(Elements) /\ i - 1 \in 0 .. Len(s)
    <2>1. i - 1 \in 0 .. Len(s)
        BY <1>1
    <2>2. QED
        BY <1>1, <2>1, PrefixIs
<1> HIDE DEF a, b, t
<1>6. CASE n = 0
    <2>1. w = v
        BY <1>1, <1>6 DEF Vec!Insert
    <2>2. t = <<>>
        BY <1>2, <1>6
    <2>3. a \o t = a
        BY <1>5, <2>2, ConcatEmptySeq
    <2>4. a \o b = s
        <3>1. /\ 1 \in 1 .. Len(s) + 1 /\ i - 1 \in 1 - 1 .. Len(s)
              /\ Len(s) \in i - 1 .. Len(s) /\ (i - 1) + 1 = i
            BY <1>1, <1>5
        <3>2. SubSeq(s, 1, i - 1) \o SubSeq(s, (i - 1) + 1, Len(s)) = SubSeq(s, 1, Len(s))
            BY <1>1, <3>1, ConcatAdjacentSubSeq
        <3>3. QED
            BY <1>1, <3>1, <3>2, SubSeqFull DEF a, b
    <2>5. QED
        BY <2>1, <2>3, <2>4 DEF a, b, t
<1>7. CASE n > 0 /\ v.cap - Len(s) >= n /\ after > n
    <2>1. w = Vec!Hold(v, a \o t \o b, v.cap)
        BY <1>1, <1>4, <1>7 DEF Vec!Insert, t
    <2>2. Len(s) + n =< v.cap
        BY <1>1, <1>7
    <2>3. QED
        BY <1>1, <1>3, <2>1, <2>2, KeptFits DEF a, b, t
<1>8. CASE n > 0 /\ v.cap - Len(s) >= n /\ ~ (after > n)
    <2>1. after = 0
        BY <1>1, <1>8
    <2>2. b = <<>>
        <3>1. i = Len(s) + 1 /\ i \in Int /\ Len(s) \in Int /\ Len(s) < i
            BY <1>1, <2>1
        <3>2. QED
            BY <3>1, SubSeqEmpty DEF b
    <2>3. Vec!Times(after, Vec!Junk) = <<>>
        BY <2>1 DEF Vec!Times
    <2>4. w = Vec!Hold(v, a \o t \o Vec!Times(after, Vec!Junk), v.cap)
        BY <1>1, <1>4, <1>8, <2>1 DEF Vec!Insert, t
    <2>5. Len(s) + n =< v.cap
        BY <1>1, <1>8
    <2>6. Fits(Vec!Hold(v, a \o t \o b, v.cap), a \o t \o b)
        BY <1>1, <1>3, <2>5, KeptFits
    <2>7. QED
        BY <2>2, <2>3, <2>4, <2>6 DEF a, b, t
<1>9. CASE n > 0 /\ ~ (v.cap - Len(s) >= n)
    <2> DEFINE cap == Len(s) + IF Len(s) > n THEN Len(s) ELSE n
    <2>1. w = Vec!Hold(v, a \o t \o b, cap)
        BY <1>1, <1>4, <1>9 DEF Vec!Insert, t
    <2>2. cap \in Nat /\ Len(s) + n =< cap
        BY <1>1
    <2> HIDE DEF cap
    <2>3. QED
        BY <1>3, <2>1, <2>2, KeptFits DEF a, b, t
<1>10. QED
    BY <1>6, <1>7, <1>8, <1>9

LEMMA EraseFits ==
    ASSUME NEW v, NEW s, Fits(v, s),
           NEW i \in 1 .. Len(s) + 1, NEW j \in 1 .. Len(s) + 1, i =< j
    PROVE  Fits(Vec!EraseRange(v, i, j), SubSeq(s, 1, i - 1) \o SubSeq(s, j, Len(s)))
<1> DEFINE e == SubSeq(s, 1, i - 1) \o SubSeq(s, j, Len(s))
<1>1. /\ s \in Seq(Elements) /\ Len(s) \in Nat /\ v.cap \in Nat /\ Len(s) =< v.cap
      /\ v.e = s /\ Vec!Size(v) = Len(s)
    BY VectorParts
<1>2. e \in Seq(Elements) /\ Len(e) =< Len(s) /\ Len(e) \in Nat
    BY <1>1, CutIs
<1>3. Vec!EraseRange(v, i, j) = Vec!Hold(v, e, v.cap)
    BY <1>1 DEF Vec!EraseRange, Vec!Before, Vec!From
<1> HIDE DEF e
<1>4. Len(e) =< v.cap
    BY <1>1, <1>2
<1>5. QED
    BY <1>1, <1>2, <1>3, <1>4, KeptFits DEF e

LEMMA ResizeFits ==
    ASSUME NEW v, NEW s, Fits(v, s), NEW x \in Elements, NEW n \in Nat
    PROVE  Fits(Vec!Resize(v, n, x),
                IF n < Len(s) THEN SubSeq(s, 1, n) ELSE s \o Vec!Times(n - Len(s), x))
<1>1. /\ s \in Seq(Elements) /\ Len(s) \in Nat /\ v.cap \in Nat /\ Len(s) =< v.cap
      /\ v.e = s /\ Vec!Size(v) = Len(s)
    BY VectorParts
<1>2. SubSeq(s, Len(s) + 1, Len(s)) = <<>>
    <2>1. Len(s) + 1 \in Int /\ Len(s) \in Int /\ Len(s) < Len(s) + 1
        BY <1>1
    <2>2. QED
        BY <2>1, SubSeqEmpty
<1>3. CASE n < Len(s)
    <2>1. /\ n + 1 \in 1 .. Len(s) + 1 /\ Len(s) + 1 \in 1 .. Len(s) + 1
          /\ n + 1 =< Len(s) + 1 /\ (n + 1) - 1 = n /\ n \in 0 .. Len(s)
        BY <1>1, <1>3
    <2>2. Vec!Resize(v, n, x) = Vec!EraseRange(v, n + 1, Len(s) + 1)
        BY <1>1, <1>3 DEF Vec!Resize
    <2>3. Fits(Vec!EraseRange(v, n + 1, Len(s) + 1),
               SubSeq(s, 1, (n + 1) - 1) \o SubSeq(s, Len(s) + 1, Len(s)))
        BY <2>1, EraseFits
    <2>4. SubSeq(s, 1, n) \in Seq(Elements)
        BY <1>1, <2>1, PrefixIs
    <2>5. SubSeq(s, 1, n) \o <<>> = SubSeq(s, 1, n)
        BY <2>4, ConcatEmptySeq
    <2>6. QED
        BY <1>2, <1>3, <2>1, <2>2, <2>3, <2>5
<1>4. CASE ~ (n < Len(s))
    <2> DEFINE t == Vec!Times(n - Len(s), x)
    <2>1. n - Len(s) \in Nat
        BY <1>1, <1>4
    <2>2. Vec!Resize(v, n, x) = Vec!Insert(v, Len(s) + 1, n - Len(s), x)
        BY <1>1, <1>4 DEF Vec!Resize
    <2>3. /\ Len(s) + 1 \in 1 .. Len(s) + 1 /\ (Len(s) + 1) - 1 = Len(s)
          /\ Len(s) - (Len(s) + 1) + 1 \notin 1 .. n - Len(s)
        BY <1>1
    <2>4. Fits(Vec!Insert(v, Len(s) + 1, n - Len(s), x),
               SubSeq(s, 1, (Len(s) + 1) - 1) \o t \o SubSeq(s, Len(s) + 1, Len(s)))
        BY <2>1, <2>3, InsertFits
    <2>5. t \in Seq(Elements)
        BY <2>1, TimesIs
    <2> HIDE DEF t
    <2>6. s \o t \in Seq(Elements) /\ (s \o t) \o <<>> = s \o t
        BY <1>1, <2>5, ConcatProperties, ConcatEmptySeq
    <2>7. SubSeq(s, 1, (Len(s) + 1) - 1) = s
        BY <1>1, <2>3, SubSeqFull
    <2>8. QED
        BY <1>2, <1>4, <2>2, <2>4, <2>6, <2>7 DEF t
<1>5. QED
    BY <1>3, <1>4

\* A vector of exactly its elements.
LEMMA ExactlyFits ==
    ASSUME NEW e \in Seq(Elements)
    PROVE  Fits(Vec!Exactly(e), e)
<1>1. Fits(Vec!Empty, <<>>) /\ Len(e) \in Nat
    BY DEF Fits, Vec!Empty
<1>2. Fits(Vec!Hold(Vec!Empty, e, Len(e)), e)
    BY <1>1, KeptFits
<1>3. QED
    BY <1>2 DEF Vec!Exactly

-----------------------------------------------------------------------------
(* The constructor that pushes one element after the other. *)

\* f is the vector after each of the first k elements of e.
Pushes(f, e, k) ==
    f = [n \in 0 .. k |-> IF n = 0 THEN Vec!Empty ELSE Vec!PushBack(f[n - 1], e[n])]

LEMMA PushesExist ==
    ASSUME NEW e, Len(e) \in Nat
    PROVE  \E f : Pushes(f, e, Len(e))
<1> DEFINE P == {k \in 0 .. Len(e) : \E f : Pushes(f, e, k)}
<1>1. 0 \in P
    <2>1. Pushes([n \in 0 .. 0 |-> Vec!Empty], e, 0)
        BY DEF Pushes
    <2>2. QED
        BY <2>1
<1>2. ASSUME NEW i \in 0 .. Len(e) - 1, i \in P PROVE i + 1 \in P
    <2>1. PICK f : Pushes(f, e, i)
        BY <1>2
    <2> DEFINE longer == [n \in 0 .. i + 1 |->
                             IF n = 0 THEN Vec!Empty ELSE Vec!PushBack(f[n - 1], e[n])]
    <2>2. \A n \in 0 .. i : longer[n] = f[n]
        BY <2>1 DEF Pushes
    <2>3. ASSUME NEW n \in 0 .. i + 1, n # 0 PROVE longer[n - 1] = f[n - 1]
        <3>1. n - 1 \in 0 .. i
            BY <1>2, <2>3
        <3>2. QED
            BY <2>2, <3>1
    <2>4. Pushes(longer, e, i + 1)
        BY <2>3 DEF Pushes
    <2>5. QED
        BY <1>2, <2>4
<1> HIDE DEF P
<1>3. \A i \in 0 .. Len(e) : i \in P
    BY <1>1, <1>2, Induction, Zenon
<1>4. Len(e) \in P
    BY <1>3
<1>5. QED
    BY <1>4 DEF P

LEMMA FromRandomAccessFits ==
    ASSUME NEW e \in Seq(Elements)
    PROVE  Fits(Vec!FromRandomAccess(e), e)
<1>1. Len(e) \in Nat
    OBVIOUS
<1>2. PICK f : Pushes(f, e, Len(e)) /\ Vec!FromRandomAccess(e) = f[Len(e)]
    <2>1. Vec!FromRandomAccess(e) = (CHOOSE f : Pushes(f, e, Len(e)))[Len(e)]
        BY DEF Vec!FromRandomAccess, Pushes
    <2>2. Pushes(CHOOSE f : Pushes(f, e, Len(e)), e, Len(e))
        BY <1>1, PushesExist, Zenon
    <2>3. QED
        BY <2>1, <2>2
<1> DEFINE P == {k \in 0 .. Len(e) : Fits(f[k], SubSeq(e, 1, k)) /\ f[k].cap # 1}
<1>3. f[0] = Vec!Empty /\ \A n \in 0 .. Len(e) - 1 : f[n + 1] = Vec!PushBack(f[n], e[n + 1])
    BY <1>1, <1>2 DEF Pushes
<1>4. 0 \in P
    <2>1. SubSeq(e, 1, 0) = <<>>
        BY SubSeqEmpty
    <2>2. Fits(Vec!Empty, <<>>) /\ Vec!Empty.cap # 1
        BY DEF Fits, Vec!Empty
    <2>3. f[0] = Vec!Empty /\ 0 \in 0 .. Len(e)
        BY <1>1, <1>3
    <2>4. Fits(f[0], SubSeq(e, 1, 0)) /\ f[0].cap # 1
        BY <2>1, <2>2, <2>3, Zenon
    <2>5. QED
        BY <2>3, <2>4
<1>5. ASSUME NEW i \in 0 .. Len(e) - 1, i \in P PROVE i + 1 \in P
    <2>1. Fits(f[i], SubSeq(e, 1, i)) /\ f[i].cap # 1
        BY <1>5
    <2>2. i + 1 \in 1 .. Len(e) /\ e[i + 1] \in Elements /\ i + 1 \in 0 .. Len(e)
        BY <1>1, <1>5
    <2>3. Grows(f[i])
        BY <2>1 DEF Grows
    <2>4. Fits(f[i + 1], Append(SubSeq(e, 1, i), e[i + 1])) /\ f[i + 1].cap # 1
        BY <1>3, <2>1, <2>2, <2>3, PushBackFits
    <2>5. Append(SubSeq(e, 1, i), e[i + 1]) = SubSeq(e, 1, i + 1)
        <3>1. i \in 0 .. Len(e) /\ (i + 1) - 1 = i
            BY <1>1, <1>5
        <3>2. SubSeq(e, 1, i) \in Seq(Elements)
            BY <3>1, PrefixIs
        <3>3. Append(SubSeq(e, 1, i), e[i + 1]) = SubSeq(e, 1, i) \o <<e[i + 1]>>
            BY <2>2, <3>2, AppendIsConcat
        <3>4. 1 \in 1 .. Len(e) /\ i + 1 \in 1 .. Len(e)
            BY <1>1, <2>2
        <3>5. SubSeq(e, 1, i + 1) = SubSeq(e, 1, (i + 1) - 1) \o <<e[i + 1]>>
            BY <3>4, SubSeqRecursiveSecond
        <3>6. QED
            BY <3>1, <3>3, <3>5
    <2>6. QED
        BY <2>2, <2>4, <2>5
<1> HIDE DEF P
<1>6. \A i \in 0 .. Len(e) : i \in P
    BY <1>1, <1>4, <1>5, Induction, Zenon
<1>7. Len(e) \in P
    BY <1>1, <1>6
<1>8. Fits(f[Len(e)], SubSeq(e, 1, Len(e)))
    BY <1>7 DEF P
<1>9. QED
    BY <1>2, <1>8, SubSeqFull

\* Calls the callers do not make: growth of a vector of capacity 1, emplace
\* at the end with room, insertion of more than follow the position.
CarefulVector == {"single", "end", "short tail"} \subseteq VectorAvoids

LEMMA PushBackCase ==
    ASSUME CarefulVector, Fits(vector, sequence), NEW x \in Elements, Vec!VectorPushBack(x)
    PROVE  Fits(vector, sequence)'
<1>1. vector' = Vec!PushBack(vector, x) /\ sequence' = Append(sequence, x)
    BY DEF Vec!VectorPushBack
<1>2. Grows(vector)
    BY DEF Vec!VectorPushBack, CarefulVector, Grows
<1>3. QED
    BY <1>1, <1>2, PushBackFits

LEMMA EmplaceCase ==
    ASSUME CarefulVector, Fits(vector, sequence), NEW x \in Elements, NEW i \in Vec!Positions,
           Vec!VectorEmplace(i, x)
    PROVE  Fits(vector, sequence)'
<1>1. /\ vector' = Vec!EmplaceAux(vector, i, x)
      /\ sequence' = Vec!InsertAt(sequence, i, x)
    BY DEF Vec!VectorEmplace
<1>2. Grows(vector) /\ (Vec!HasRoom(vector) => i =< Vec!Size(vector))
    BY DEF Vec!VectorEmplace, CarefulVector, Grows
<1>3. i \in 1 .. Len(sequence) + 1 /\ Vec!Size(vector) = Len(sequence)
    BY VectorParts DEF Vec!Positions
<1>4. QED
    BY <1>1, <1>2, <1>3, EmplaceFits

LEMMA InsertCase ==
    ASSUME CarefulVector, Fits(vector, sequence), NEW x \in Elements, NEW i \in Vec!Positions,
           NEW n \in Nat, Vec!VectorInsert(i, n, x)
    PROVE  Fits(vector, sequence)'
<1>1. /\ vector' = Vec!Insert(vector, i, n, x)
      /\ sequence' = SubSeq(sequence, 1, i - 1) \o Vec!Times(n, x)
                         \o SubSeq(sequence, i, Len(sequence))
    BY DEF Vec!VectorInsert
<1>2. vector.cap - Vec!Size(vector) >= n => Len(sequence) - i + 1 \notin 1 .. n
    BY DEF Vec!VectorInsert, CarefulVector
<1>3. i \in 1 .. Len(sequence) + 1 /\ Vec!Size(vector) = Len(sequence)
    BY VectorParts DEF Vec!Positions
<1>4. QED
    BY <1>1, <1>2, <1>3, InsertFits

LEMMA EraseCase ==
    ASSUME Fits(vector, sequence), NEW first \in Vec!Positions, NEW last \in Vec!Positions,
           first =< last,
           vector' = Vec!EraseRange(vector, first, last),
           sequence' = SubSeq(sequence, 1, first - 1) \o SubSeq(sequence, last, Len(sequence))
    PROVE  Fits(vector, sequence)'
BY EraseFits DEF Vec!Positions

LEMMA EraseOneCase ==
    ASSUME Fits(vector, sequence), NEW i \in DOMAIN sequence, Vec!VectorErase(i)
    PROVE  Fits(vector, sequence)'
<1>1. /\ sequence \in Seq(Elements) /\ Len(sequence) \in Nat
      /\ vector.e = sequence /\ Vec!Size(vector) = Len(sequence)
    BY VectorParts
<1>2. i \in Vec!Positions /\ i + 1 \in Vec!Positions /\ i =< i + 1
    BY <1>1 DEF Vec!Positions
<1>3. vector' = Vec!EraseRange(vector, i, i + 1)
    BY DEF Vec!VectorErase, Vec!Erase, Vec!EraseRange
<1>4. sequence' = SubSeq(sequence, 1, i - 1) \o SubSeq(sequence, i + 1, Len(sequence))
    BY DEF Vec!VectorErase, Vec!RemoveAt
<1>5. QED
    BY <1>2, <1>3, <1>4, EraseCase

LEMMA PopBackCase ==
    ASSUME Fits(vector, sequence), Vec!VectorPopBack
    PROVE  Fits(vector, sequence)'
<1> DEFINE e == SubSeq(sequence, 1, Len(sequence) - 1)
<1>1. /\ sequence \in Seq(Elements) /\ Len(sequence) \in Nat /\ vector.e = sequence
      /\ vector.cap \in Nat /\ Len(sequence) =< vector.cap
    BY VectorParts
<1>2. sequence # <<>> /\ vector' = Vec!Hold(vector, e, vector.cap) /\ sequence' = e
    BY <1>1 DEF Vec!VectorPopBack, Vec!PopBack, Vec!Front
<1>3. Len(sequence) - 1 \in 0 .. Len(sequence)
    BY <1>1, <1>2
<1>4. e \in Seq(Elements) /\ Len(e) = Len(sequence) - 1
    BY <1>1, <1>3, PrefixIs
<1> HIDE DEF e
<1>5. Len(e) =< vector.cap
    BY <1>1, <1>4
<1>6. QED
    BY <1>1, <1>2, <1>4, <1>5, KeptFits

LEMMA ResizeCase ==
    ASSUME Fits(vector, sequence), NEW x \in Elements, NEW n \in Nat, Vec!VectorResize(n, x)
    PROVE  Fits(vector, sequence)'
BY ResizeFits DEF Vec!VectorResize

LEMMA ReserveCase ==
    ASSUME Fits(vector, sequence), NEW n \in Nat, Vec!VectorReserve(n)
    PROVE  Fits(vector, sequence)'
<1>1. /\ sequence \in Seq(Elements) /\ Len(sequence) \in Nat /\ vector.e = sequence
      /\ vector.cap \in Nat /\ Len(sequence) =< vector.cap
    BY VectorParts
<1>2. sequence' = sequence /\ vector' = Vec!Reserve(vector, n)
    BY DEF Vec!VectorReserve
<1>3. CASE n < vector.cap
    BY <1>2, <1>3 DEF Vec!Reserve
<1>4. CASE ~ (n < vector.cap)
    <2>1. vector' = Vec!Hold(vector, sequence, n)
        BY <1>1, <1>2, <1>4 DEF Vec!Reserve
    <2>2. Len(sequence) =< n
        BY <1>1, <1>4
    <2>3. QED
        BY <1>1, <1>2, <2>1, <2>2, KeptFits
<1>5. QED
    BY <1>3, <1>4

LEMMA CompactCase ==
    ASSUME Fits(vector, sequence), Vec!VectorCompact
    PROVE  Fits(vector, sequence)'
<1>1. sequence \in Seq(Elements) /\ vector.e = sequence
    BY VectorParts
<1>2. sequence' = sequence /\ vector' \in {vector, Vec!Exactly(sequence)}
    BY <1>1 DEF Vec!VectorCompact, Vec!ShrinkToFit, Vec!Copy
<1>3. QED
    BY <1>1, <1>2, ExactlyFits

LEMMA AssignCase ==
    ASSUME NEW x \in Elements, NEW n \in Nat, Vec!VectorAssign(n, x)
    PROVE  Fits(vector, sequence)'
<1> DEFINE t == Vec!Times(n, x)
<1>1. t \in Seq(Elements)
    BY TimesIs
<1>2. sequence' = t /\ vector' \in {Vec!Exactly(t), Vec!FromRandomAccess(t)}
    BY DEF Vec!VectorAssign, Vec!Fill, Vec!FromRange
<1> HIDE DEF t
<1>3. QED
    BY <1>1, <1>2, ExactlyFits, FromRandomAccessFits

LEMMA VectorStarts ==
    ASSUME vector = Vec!Empty, sequence = <<>>
    PROVE  Fits(vector, sequence)
BY DEF Fits, Vec!Empty

LEMMA VectorSteps ==
    ASSUME CarefulVector, Fits(vector, sequence), Vec!VectorNext
    PROVE  Fits(vector, sequence)'
<1>1. \A n \in 0 .. MostElements : n \in Nat
    BY VectorAssumption
<1>2. \A n \in 0 .. MostReserved : n \in Nat
    BY VectorAssumption
<1>3. ASSUME NEW x \in Elements, Vec!VectorPushBack(x)
      PROVE  Fits(vector, sequence)'
    BY <1>3, PushBackCase
<1>4. ASSUME NEW x \in Elements, NEW i \in Vec!Positions, Vec!VectorEmplace(i, x)
      PROVE  Fits(vector, sequence)'
    BY <1>4, EmplaceCase
<1>5. ASSUME NEW x \in Elements, NEW i \in Vec!Positions, NEW n \in 0 .. 2, Vec!VectorInsert(i, n, x)
      PROVE  Fits(vector, sequence)'
    <2>1. n \in Nat
        OBVIOUS
    <2>2. QED
        BY <1>5, <2>1, InsertCase
<1>6. ASSUME NEW x \in Elements, NEW n \in 0 .. MostElements, Vec!VectorResize(n, x)
      PROVE  Fits(vector, sequence)'
    BY <1>1, <1>6, ResizeCase
<1>7. ASSUME NEW x \in Elements, NEW n \in 0 .. MostElements, Vec!VectorAssign(n, x)
      PROVE  Fits(vector, sequence)'
    BY <1>1, <1>7, AssignCase
<1>8. ASSUME NEW i \in DOMAIN sequence, Vec!VectorErase(i)
      PROVE  Fits(vector, sequence)'
    BY <1>8, EraseOneCase
<1>9. ASSUME NEW first \in Vec!Positions, NEW last \in Vec!Positions, first =< last,
             Vec!VectorEraseRange(first, last)
      PROVE  Fits(vector, sequence)'
    BY <1>9, EraseCase DEF Vec!VectorEraseRange
<1>10. ASSUME Vec!VectorPopBack PROVE Fits(vector, sequence)'
    BY <1>10, PopBackCase
<1>11. ASSUME NEW n \in 0 .. MostReserved, Vec!VectorReserve(n)
       PROVE  Fits(vector, sequence)'
    BY <1>2, <1>11, ReserveCase
<1>12. ASSUME Vec!VectorCompact PROVE Fits(vector, sequence)'
    BY <1>12, CompactCase
<1>13. ASSUME Vec!VectorMoveFrom PROVE Fits(vector, sequence)'
    BY <1>13 DEF Fits, Vec!Empty, Vec!VectorMoveFrom
<1>14. QED
    BY <1>3, <1>4, <1>5, <1>6, <1>7, <1>8, <1>9, <1>10, <1>11, <1>12, <1>13, Zenon
    DEF Vec!VectorNext

LEMMA VectorHoldsWhatWasPut ==
    ASSUME Fits(vector, sequence)
    PROVE  Vec!VectorAgrees
<1>1. vector.ok = TRUE
    BY DEF Fits
<1>2. vector.e = sequence /\ Vec!Size(vector) =< vector.cap
    BY VectorParts
<1>3. QED
    BY <1>1, <1>2, Zenon DEF Vec!VectorAgrees

-----------------------------------------------------------------------------
(* Both hold what was put in. *)

SequencesInv == /\ which = "vector" => Fits(vector, sequence)
                /\ which = "buffer" => Holds(buffer, unread)

LEMMA SequencesStart ==
    ASSUME ArraysInit
    PROVE  SequencesInv
<1>1. ASSUME which = "vector" PROVE Fits(vector, sequence)
    BY <1>1, VectorStarts DEF ArraysInit, Vec!VectorInit
<1>2. ASSUME which = "buffer" PROVE Holds(buffer, unread)
    BY <1>2, BufferStarts DEF ArraysInit
<1>3. QED
    BY <1>1, <1>2 DEF SequencesInv

LEMMA SequencesStep ==
    ASSUME CarefulVector, CarefulBuffer, SequencesInv, [ArraysNext]_arraysVars
    PROVE  SequencesInv'
<1>1. ASSUME UNCHANGED <<vector, sequence>>, which' = which
      PROVE  (which = "vector" => Fits(vector, sequence))'
    BY <1>1 DEF SequencesInv, Fits
<1>2. ASSUME UNCHANGED <<buffer, unread>>, which' = which
      PROVE  (which = "buffer" => Holds(buffer, unread))'
    BY <1>2 DEF SequencesInv, Holds
<1>3. CASE which = "vector" /\ Vec!VectorNext /\ which' = which
    <2>1. Fits(vector, sequence)'
        BY <1>3, VectorSteps DEF SequencesInv
    <2>2. which' # "buffer"
        BY <1>3
    <2>3. QED
        BY <2>1, <2>2 DEF SequencesInv
<1>4. CASE which = "buffer" /\ Buf!BufferNext /\ which' = which
    <2>1. Holds(buffer', unread')
        BY <1>4, BufferSteps DEF SequencesInv
    <2>2. which' # "vector" /\ Holds(buffer, unread)'
        BY <1>4, <2>1
    <2>3. QED
        BY <2>2 DEF SequencesInv
<1>5. CASE UNCHANGED <<vector, sequence, buffer, unread>> /\ which' = which
    BY <1>1, <1>2, <1>5 DEF SequencesInv
<1>6. QED
    BY <1>3, <1>4, <1>5, Zenon DEF ArraysNext, arraysVars, arrays

\* For any elements, sizes and byte strings, and callers that avoid what
\* VectorAvoids and BufferAvoids name: through growth, compaction, insertion
\* and erasure, vector and buffer hold what was put in, in order, and stay
\* within their memory.
THEOREM SequencesAlwaysAgree ==
    ASSUME CarefulVector, CarefulBuffer
    PROVE  ArraysSpec => []SequencesAgree
<1>1. ArraysInit => SequencesInv
    BY SequencesStart
<1>2. SequencesInv /\ [ArraysNext]_arraysVars => SequencesInv'
    BY SequencesStep
<1>3. SequencesInv => SequencesAgree
    BY VectorHoldsWhatWasPut, BufferHoldsWhatWasPut DEF SequencesInv, SequencesAgree
<1>4. QED
    BY <1>1, <1>2, <1>3, PTL DEF ArraysSpec

-----------------------------------------------------------------------------
(* MinHeap: the vector and the index. *)

Pairs == HeapKeys \X Int
Indices == UNION {[K -> Nat] : K \in SUBSET HeapKeys}
Heaps == [e : Seq(Pairs), idx : Indices, past : Int, ok : BOOLEAN]

\* Vector and index name the same places, and no key is there twice.
Indexed(h) ==
    /\ h \in Heaps
    /\ h.ok = TRUE
    /\ \A i \in 1 .. Len(h.e) : h.e[i][1] \in DOMAIN h.idx /\ h.idx[h.e[i][1]] = i
    /\ \A k \in DOMAIN h.idx : h.idx[k] \in 1 .. Len(h.e) /\ h.e[h.idx[k]][1] = k

LEMMA HeapParts ==
    ASSUME NEW h, Indexed(h)
    PROVE  /\ h \in Heaps /\ h.ok = TRUE
           /\ h.e \in Seq(Pairs) /\ Len(h.e) \in Nat /\ DOMAIN h.e = 1 .. Len(h.e)
           /\ Heap!Size(h) = Len(h.e)
           /\ h.past \in Int
           /\ \A i \in 1 .. Len(h.e) :
                 /\ h.e[i] \in Pairs
                 /\ Heap!KeyAt(h, i) = h.e[i][1] /\ Heap!ScoreAt(h, i) = h.e[i][2]
                 /\ h.e[i][1] \in HeapKeys /\ h.e[i][2] \in Int
                 /\ h.e[i] = <<h.e[i][1], h.e[i][2]>>
<1>1. h \in Heaps /\ h.ok = TRUE /\ h.e \in Seq(Pairs) /\ h.past \in Int
    BY DEF Indexed, Heaps
<1>2. Len(h.e) \in Nat /\ DOMAIN h.e = 1 .. Len(h.e)
    BY <1>1
<1>3. \A i \in 1 .. Len(h.e) : h.e[i] \in Pairs
    BY <1>1
<1>4. ASSUME NEW i \in 1 .. Len(h.e)
      PROVE  /\ Heap!KeyAt(h, i) = h.e[i][1] /\ Heap!ScoreAt(h, i) = h.e[i][2]
             /\ h.e[i][1] \in HeapKeys /\ h.e[i][2] \in Int
             /\ h.e[i] = <<h.e[i][1], h.e[i][2]>>
    BY <1>2, <1>3 DEF Heap!KeyAt, Heap!ScoreAt, Pairs
<1>5. QED
    BY <1>1, <1>2, <1>3, <1>4 DEF Heap!Size

LEMMA IndexIs ==
    ASSUME NEW f \in Indices
    PROVE  DOMAIN f \in SUBSET HeapKeys /\ f \in [DOMAIN f -> Nat]
<1>1. PICK K \in SUBSET HeapKeys : f \in [K -> Nat]
    BY DEF Indices
<1>2. QED
    BY <1>1

LEMMA IsIndex ==
    ASSUME NEW K \in SUBSET HeapKeys, NEW f \in [K -> Nat]
    PROVE  f \in Indices
BY DEF Indices

LEMMA SwapIs ==
    ASSUME NEW h, Indexed(h), NEW i \in 1 .. Len(h.e), NEW j \in 1 .. Len(h.e)
    PROVE  /\ Indexed(Heap!SwapKey(h, i, j))
           /\ Len(Heap!SwapKey(h, i, j).e) = Len(h.e)
           /\ Heap!SwapKey(h, i, j).past = h.past
           /\ Heap!SwapKey(h, i, j).e[i] = h.e[j]
           /\ Heap!SwapKey(h, i, j).e[j] = h.e[i]
           /\ \A x \in 1 .. Len(h.e) : x \notin {i, j} => Heap!SwapKey(h, i, j).e[x] = h.e[x]
           /\ DOMAIN Heap!SwapKey(h, i, j).idx = DOMAIN h.idx
<1> DEFINE g == Heap!SwapKey(h, i, j)
           a == h.e[i][1]
           b == h.e[j][1]
           e == [h.e EXCEPT ![i] = h.e[j], ![j] = h.e[i]]
           idx == [h.idx EXCEPT ![a] = j, ![b] = i]
<1>1. /\ h \in Heaps /\ h.ok = TRUE /\ h.e \in Seq(Pairs) /\ Len(h.e) \in Nat
      /\ DOMAIN h.e = 1 .. Len(h.e) /\ Heap!Size(h) = Len(h.e)
      /\ \A x \in 1 .. Len(h.e) : h.e[x] \in Pairs /\ Heap!KeyAt(h, x) = h.e[x][1]
    BY HeapParts
<1>2. \A x \in 1 .. Len(h.e) : h.e[x][1] \in DOMAIN h.idx /\ h.idx[h.e[x][1]] = x
    BY DEF Indexed
<1>3. \A k \in DOMAIN h.idx : h.idx[k] \in 1 .. Len(h.e) /\ h.e[h.idx[k]][1] = k
    BY DEF Indexed
<1>4. g = [h EXCEPT !.e = e, !.idx = idx]
    <2>1. {i, j} \subseteq DOMAIN h.e
        BY <1>1
    <2>2. \A x \in {i, j} : h.e[x][1] \in DOMAIN h.idx /\ h.idx[h.e[x][1]] = x
        BY <1>2
    <2>3. QED
        BY <2>1, <2>2, Zenon DEF Heap!SwapKey, Heap!KeyAt
<1>5. e \in Seq(Pairs) /\ Len(e) = Len(h.e) /\ DOMAIN e = 1 .. Len(h.e)
    BY <1>1
<1>6. /\ e[i] = h.e[j] /\ e[j] = h.e[i]
      /\ \A x \in 1 .. Len(h.e) : x \notin {i, j} => e[x] = h.e[x]
    BY <1>1
<1>7. h.idx \in Indices
    BY <1>1 DEF Heaps
<1>8. idx \in Indices /\ DOMAIN idx = DOMAIN h.idx
    <2>1. h.idx \in [DOMAIN h.idx -> Nat] /\ DOMAIN h.idx \in SUBSET HeapKeys
        BY <1>7, IndexIs
    <2>2. i \in Nat /\ j \in Nat
        OBVIOUS
    <2>3. idx \in [DOMAIN h.idx -> Nat]
        BY <2>1, <2>2
    <2>4. QED
        BY <2>1, <2>3, IsIndex
<1>9. /\ a \in DOMAIN h.idx /\ b \in DOMAIN h.idx /\ (a = b <=> i = j)
      /\ idx[a] = j /\ idx[b] = i
      /\ \A k \in DOMAIN h.idx : k \notin {a, b} => idx[k] = h.idx[k]
    BY <1>2
<1> HIDE DEF e, idx
<1>10. g \in Heaps /\ g.e = e /\ g.idx = idx /\ g.past = h.past /\ g.ok = h.ok
    BY <1>1, <1>4, <1>5, <1>8 DEF Heaps
<1>11. ASSUME NEW x \in 1 .. Len(h.e)
       PROVE  e[x][1] \in DOMAIN idx /\ idx[e[x][1]] = x
    <2>1. CASE x \in {i, j}
        BY <1>6, <1>8, <1>9, <2>1
    <2>2. CASE x \notin {i, j}
        <3>1. e[x] = h.e[x] /\ h.e[x][1] \in DOMAIN h.idx /\ h.idx[h.e[x][1]] = x
            BY <1>2, <1>6, <2>2
        <3>2. h.e[x][1] \notin {a, b}
            BY <1>2, <2>2, <3>1
        <3>3. QED
            BY <1>8, <1>9, <3>1, <3>2
    <2>3. QED
        BY <2>1, <2>2
<1>12. ASSUME NEW k \in DOMAIN idx
       PROVE  idx[k] \in 1 .. Len(h.e) /\ e[idx[k]][1] = k
    <2>1. CASE k \in {a, b}
        BY <1>6, <1>9, <2>1
    <2>2. CASE k \notin {a, b}
        <3>1. /\ idx[k] = h.idx[k] /\ h.idx[k] \in 1 .. Len(h.e) /\ h.e[h.idx[k]][1] = k
            BY <1>3, <1>8, <1>9, <2>2
        <3>2. h.idx[k] \notin {i, j}
            BY <2>2, <3>1
        <3>3. QED
            BY <1>6, <3>1, <3>2
    <2>3. QED
        BY <2>1, <2>2
<1> HIDE DEF g
<1>13. Indexed(g)
    BY <1>1, <1>5, <1>10, <1>11, <1>12 DEF Indexed
<1>14. QED
    BY <1>5, <1>6, <1>8, <1>10, <1>13 DEF g

\* The last element goes; what was there is read past the end.
LEMMA RemoveLastIs ==
    ASSUME NEW h, Indexed(h), Len(h.e) # 0
    PROVE  LET n == Len(h.e)
               g == Heap!RemoveLast(h)
           IN  /\ Indexed(g)
               /\ Len(g.e) = n - 1
               /\ \A x \in 1 .. n - 1 : g.e[x] = h.e[x]
               /\ g.past = h.e[n][2]
               /\ DOMAIN g.idx = DOMAIN h.idx \ {h.e[n][1]}
<1> DEFINE n == Len(h.e)
           g == Heap!RemoveLast(h)
           e == SubSeq(h.e, 1, n - 1)
           k == h.e[n][1]
           idx == [x \in DOMAIN h.idx \ {k} |-> h.idx[x]]
<1>1. /\ h \in Heaps /\ h.ok = TRUE /\ h.e \in Seq(Pairs) /\ Len(h.e) \in Nat
      /\ Heap!Size(h) = Len(h.e)
    BY HeapParts
<1>2. n \in 1 .. Len(h.e) /\ n - 1 \in 0 .. Len(h.e)
    BY <1>1
<1>3. Heap!KeyAt(h, n) = k /\ Heap!ScoreAt(h, n) = h.e[n][2] /\ h.e[n][2] \in Int
    BY <1>2, HeapParts
<1>4. g = [h EXCEPT !.idx = idx, !.e = e, !.past = h.e[n][2]]
    BY <1>1, <1>3 DEF Heap!RemoveLast, Heap!Without, Heap!Front
<1>5. e \in Seq(Pairs) /\ Len(e) = n - 1 /\ \A x \in 1 .. n - 1 : e[x] = h.e[x]
    BY <1>1, <1>2, PrefixIs
<1>6. h.idx \in Indices
    BY <1>1 DEF Heaps
<1>7. DOMAIN idx = DOMAIN h.idx \ {k} /\ idx \in Indices
    <2>1. idx \in [DOMAIN h.idx \ {k} -> Nat] /\ DOMAIN h.idx \ {k} \in SUBSET HeapKeys
        BY <1>6, IndexIs
    <2>2. QED
        BY <2>1, IsIndex
<1>8. \A x \in DOMAIN idx : idx[x] = h.idx[x]
    OBVIOUS
<1> HIDE DEF e, idx
<1>9. g \in Heaps /\ g.e = e /\ g.idx = idx /\ g.past = h.e[n][2] /\ g.ok = h.ok
    BY <1>1, <1>3, <1>4, <1>5, <1>7 DEF Heaps
<1>10. ASSUME NEW x \in 1 .. n - 1
       PROVE  e[x][1] \in DOMAIN idx /\ idx[e[x][1]] = x
    <2>1. x \in 1 .. Len(h.e) /\ x # n
        BY <1>1, <1>10
    <2>2. /\ h.e[x][1] \in DOMAIN h.idx /\ h.idx[h.e[x][1]] = x
          /\ h.idx[k] = n
        BY <1>2, <2>1 DEF Indexed
    <2>3. h.e[x][1] # k
        BY <2>1, <2>2
    <2>4. QED
        BY <1>5, <1>7, <1>8, <2>2, <2>3
<1>11. ASSUME NEW x \in DOMAIN idx
       PROVE  idx[x] \in 1 .. n - 1 /\ e[idx[x]][1] = x
    <2>1. x \in DOMAIN h.idx /\ x # k /\ idx[x] = h.idx[x]
        BY <1>7, <1>8
    <2>2. h.idx[x] \in 1 .. Len(h.e) /\ h.e[h.idx[x]][1] = x
        BY <2>1 DEF Indexed
    <2>3. h.idx[x] # n
        BY <2>1, <2>2
    <2>4. h.idx[x] \in 1 .. n - 1
        BY <1>1, <2>2, <2>3
    <2>5. QED
        BY <1>5, <2>1, <2>2, <2>4
<1> HIDE DEF g
<1>12. Indexed(g)
    BY <1>1, <1>5, <1>9, <1>10, <1>11 DEF Indexed
<1>13. QED
    BY <1>5, <1>7, <1>9, <1>12 DEF g

\* The score of each key.
ScoreOf(h) == [k \in DOMAIN h.idx |-> h.e[h.idx[k]][2]]

LEMMA SwapKeepsScores ==
    ASSUME NEW h, Indexed(h), NEW i \in 1 .. Len(h.e), NEW j \in 1 .. Len(h.e)
    PROVE  ScoreOf(Heap!SwapKey(h, i, j)) = ScoreOf(h)
<1> DEFINE g == Heap!SwapKey(h, i, j)
<1>1. /\ Indexed(g) /\ Len(g.e) = Len(h.e) /\ DOMAIN g.idx = DOMAIN h.idx
    BY SwapIs
<1>2. /\ g.e[i] = h.e[j] /\ g.e[j] = h.e[i]
      /\ \A x \in 1 .. Len(h.e) : x \notin {i, j} => g.e[x] = h.e[x]
    BY SwapIs
<1> HIDE DEF g
<1>3. ASSUME NEW k \in DOMAIN h.idx PROVE g.e[g.idx[k]][2] = h.e[h.idx[k]][2]
    <2> DEFINE x == h.idx[k]
               y == IF x = i THEN j ELSE IF x = j THEN i ELSE x
    <2>1. x \in 1 .. Len(h.e) /\ h.e[x][1] = k
        BY DEF Indexed
    <2>2. y \in 1 .. Len(h.e) /\ g.e[y] = h.e[x]
        BY <1>2, <2>1
    <2>3. g.idx[g.e[y][1]] = y
        BY <1>1, <2>2 DEF Indexed
    <2>4. g.idx[k] = y
        BY <2>1, <2>2, <2>3
    <2>5. QED
        BY <2>2, <2>4
<1>4. QED
    BY <1>1, <1>3 DEF ScoreOf, g

-----------------------------------------------------------------------------
(* Heap order, and what one place may disturb. *)

LEMMA ParentIs ==
    ASSUME NEW i \in Nat, 2 =< i
    PROVE  /\ Heap!Parent(i) \in Nat /\ 1 =< Heap!Parent(i) /\ Heap!Parent(i) < i
           /\ i \in {Heap!Left(Heap!Parent(i)), Heap!Right(Heap!Parent(i))}
BY DEF Heap!Parent, Heap!Left, Heap!Right

LEMMA ChildIs ==
    ASSUME NEW p \in Nat, 1 =< p, NEW c \in {Heap!Left(p), Heap!Right(p)}
    PROVE  c \in Nat /\ 2 =< c /\ p < c /\ Heap!Parent(c) = p
BY DEF Heap!Parent, Heap!Left, Heap!Right

LEMMA AtMost ==
    ASSUME NEW a \in Int, NEW b \in Int, NEW c \in Int, a =< b, b =< c
    PROVE  a =< c
OBVIOUS

\* The element at place i is not smaller than its parent.
Above(h, i) == h.e[Heap!Parent(i)][2] =< h.e[i][2]

Ordered(h) == \A i \in 2 .. Len(h.e) : Above(h, i)

\* The element at p may be too small or too big for its place, but what is
\* below it is not smaller than what is above it.
Around(h, p) == \A i \in 2 .. Len(h.e) :
                    Heap!Parent(i) = p /\ p > 1 => h.e[Heap!Parent(p)][2] =< h.e[i][2]
Near(h, p) == /\ \A i \in 2 .. Len(h.e) : i # p /\ Heap!Parent(i) # p => Above(h, i)
              /\ Around(h, p)
\* It may only be too small for it, or too big.
MayRise(h, p) == (\A i \in 2 .. Len(h.e) : i # p => Above(h, i)) /\ Around(h, p)
MaySink(h, p) == (\A i \in 2 .. Len(h.e) : Heap!Parent(i) # p => Above(h, i)) /\ Around(h, p)

LEMMA RiseIs ==
    ASSUME NEW h, Indexed(h), NEW p \in 2 .. Len(h.e), Near(h, p),
           ~ (h.e[Heap!Parent(p)][2] < h.e[p][2])
    PROVE  MayRise(Heap!SwapKey(h, p, Heap!Parent(p)), Heap!Parent(p))
<1> DEFINE q == Heap!Parent(p)
           g == Heap!SwapKey(h, p, q)
<1>1. Len(h.e) \in Nat /\ p \in Nat /\ 2 =< p
    BY HeapParts
<1>2. q \in Nat /\ 1 =< q /\ q < p /\ q \in 1 .. Len(h.e) /\ p \in 1 .. Len(h.e)
    BY <1>1, ParentIs
<1>3. Len(g.e) = Len(h.e) /\ g.e[p] = h.e[q] /\ g.e[q] = h.e[p]
    BY <1>2, SwapIs
<1>4. \A x \in 1 .. Len(h.e) : x \notin {p, q} => g.e[x] = h.e[x]
    BY <1>2, SwapIs
<1>5. \A i \in 1 .. Len(h.e) : h.e[i][2] \in Int
    BY HeapParts
<1>6. h.e[p][2] =< h.e[q][2]
    BY <1>2, <1>5
<1>7. \A i \in 2 .. Len(h.e) :
          /\ i \in 1 .. Len(h.e) /\ i \in Nat
          /\ Heap!Parent(i) \in 1 .. Len(h.e) /\ Heap!Parent(i) < i
    BY <1>1, ParentIs
<1> HIDE DEF g, q
<1>8. ASSUME NEW i \in 2 .. Len(h.e), Heap!Parent(i) = q, i # p
      PROVE  h.e[q][2] =< h.e[i][2] /\ i \notin {p, q}
    <2>1. i # q /\ Heap!Parent(i) # p
        BY <1>2, <1>7, <1>8
    <2>2. Above(h, i)
        BY <1>8, <2>1 DEF Near
    <2>3. QED
        BY <1>8, <2>1, <2>2 DEF Above
<1>9. ASSUME NEW i \in 2 .. Len(h.e), i # q PROVE Above(g, i)
    <2>1. CASE i = p
        BY <1>3, <1>6, <2>1 DEF Above, q
    <2>2. CASE Heap!Parent(i) = q /\ i # p
        <3>1. g.e[i] = h.e[i]
            BY <1>4, <1>7, <1>8, <2>2
        <3>2. h.e[p][2] =< h.e[i][2]
            BY <1>2, <1>5, <1>6, <1>7, <1>8, <2>2
        <3>3. QED
            BY <1>3, <2>2, <3>1, <3>2 DEF Above
    <2>3. CASE Heap!Parent(i) = p
        <3>1. i \notin {p, q}
            BY <1>2, <1>7, <2>3
        <3>2. g.e[i] = h.e[i]
            BY <1>4, <1>7, <3>1
        <3>3. h.e[q][2] =< h.e[i][2]
            BY <1>1, <2>3 DEF Near, Around, q
        <3>4. QED
            BY <1>3, <2>3, <3>2, <3>3 DEF Above
    <2>4. CASE Heap!Parent(i) \notin {p, q} /\ i # p
        <3>1. g.e[i] = h.e[i] /\ g.e[Heap!Parent(i)] = h.e[Heap!Parent(i)]
            BY <1>4, <1>7, <1>9, <2>4
        <3>2. Above(h, i)
            BY <2>4 DEF Near
        <3>3. QED
            BY <3>1, <3>2 DEF Above
    <2>5. QED
        BY <2>1, <2>2, <2>3, <2>4
<1>10. ASSUME NEW i \in 2 .. Len(h.e), Heap!Parent(i) = q, q > 1
       PROVE  g.e[Heap!Parent(q)][2] =< g.e[i][2]
    <2> DEFINE r == Heap!Parent(q)
    <2>1. q \in 2 .. Len(h.e)
        BY <1>2, <1>10
    <2>2. r \in 1 .. Len(h.e) /\ r < q /\ r \notin {p, q} /\ q # p /\ r # p
        BY <1>2, <1>7, <2>1
    <2>3. g.e[r] = h.e[r]
        BY <1>4, <2>2
    <2>4. h.e[r][2] =< h.e[q][2]
        BY <2>1, <2>2 DEF Near, Above
    <2> HIDE DEF r
    <2>5. CASE i = p
        BY <1>3, <2>3, <2>4, <2>5 DEF r
    <2>6. CASE i # p
        <3>1. g.e[i] = h.e[i] /\ h.e[q][2] =< h.e[i][2]
            BY <1>4, <1>7, <1>8, <1>10, <2>6
        <3>2. h.e[r][2] \in Int /\ h.e[q][2] \in Int /\ h.e[i][2] \in Int
            BY <1>2, <1>5, <1>7, <2>2
        <3>3. h.e[r][2] =< h.e[i][2]
            BY <2>4, <3>1, <3>2, AtMost
        <3>4. QED
            BY <2>3, <3>1, <3>3 DEF r
    <2>7. QED
        BY <2>5, <2>6
<1>11. MayRise(g, q)
    BY <1>3, <1>9, <1>10 DEF MayRise, Around
<1>12. QED
    BY <1>11 DEF g, q

\* The smallest of a place and its children.
LEMMA SmallestIs ==
    ASSUME NEW h, Indexed(h), NEW p \in 1 .. Len(h.e)
    PROVE  LET c == Heap!Smallest(h, p)
           IN  /\ c \in 1 .. Len(h.e) /\ h.e[c][2] =< h.e[p][2]
               /\ \A i \in 2 .. Len(h.e) : Heap!Parent(i) = p => h.e[c][2] =< h.e[i][2]
               /\ c # p => 2 =< c /\ p < c /\ Heap!Parent(c) = p
<1> DEFINE l == Heap!Left(p)
           r == Heap!Right(p)
           m == IF l =< Heap!Size(h) /\ Heap!ScoreAt(h, l) < Heap!ScoreAt(h, p) THEN l ELSE p
           c == IF r =< Heap!Size(h) /\ Heap!ScoreAt(h, r) < Heap!ScoreAt(h, m) THEN r ELSE m
<1>1. Heap!Smallest(h, p) = c
    BY DEF Heap!Smallest
<1>2. /\ Len(h.e) \in Nat /\ Heap!Size(h) = Len(h.e) /\ p \in Nat /\ 1 =< p
      /\ \A i \in 1 .. Len(h.e) : Heap!ScoreAt(h, i) = h.e[i][2] /\ h.e[i][2] \in Int
    <2>1. Len(h.e) \in Nat /\ Heap!Size(h) = Len(h.e)
        BY HeapParts
    <2>2. \A i \in 1 .. Len(h.e) : Heap!ScoreAt(h, i) = h.e[i][2] /\ h.e[i][2] \in Int
        BY HeapParts
    <2>3. QED
        BY <2>1, <2>2
<1>3. /\ l \in Nat /\ 2 =< l /\ p < l /\ Heap!Parent(l) = p
      /\ r \in Nat /\ 2 =< r /\ p < r /\ Heap!Parent(r) = p
    BY <1>2, ChildIs
<1>4. \A i \in 2 .. Len(h.e) : Heap!Parent(i) = p => i \in {l, r}
    BY ParentIs
<1> HIDE DEF l, r
<1>5. /\ m \in 1 .. Len(h.e) /\ m \in {p, l} /\ h.e[m][2] =< h.e[p][2]
      /\ l =< Len(h.e) => h.e[m][2] =< h.e[l][2]
    <2>1. CASE l =< Len(h.e)
        <3>1. l \in 1 .. Len(h.e)
            BY <1>3, <2>1
        <3>2. QED
            BY <1>2, <3>1
    <2>2. CASE ~ (l =< Len(h.e))
        BY <1>2, <2>2
    <2>3. QED
        BY <2>1, <2>2
<1> HIDE DEF m
<1>6. /\ c \in 1 .. Len(h.e) /\ c \in {m, r} /\ h.e[c][2] =< h.e[m][2]
      /\ r =< Len(h.e) => h.e[c][2] =< h.e[r][2]
    <2>1. CASE r =< Len(h.e)
        <3>1. r \in 1 .. Len(h.e)
            BY <1>3, <2>1
        <3>2. QED
            BY <1>2, <1>5, <3>1
    <2>2. CASE ~ (r =< Len(h.e))
        BY <1>2, <1>5, <2>2
    <2>3. QED
        BY <2>1, <2>2
<1> HIDE DEF c
<1>7. \A i \in 2 .. Len(h.e) : Heap!Parent(i) = p => h.e[c][2] =< h.e[i][2]
    <2>1. ASSUME NEW i \in 2 .. Len(h.e), Heap!Parent(i) = p PROVE h.e[c][2] =< h.e[i][2]
        <3>1. i \in 1 .. Len(h.e) /\ h.e[i][2] \in Int /\ h.e[c][2] \in Int /\ h.e[m][2] \in Int
            BY <1>2, <1>5, <1>6
        <3>2. CASE i = l
            BY <1>5, <1>6, <3>1, <3>2
        <3>3. CASE i = r
            BY <1>6, <3>1, <3>3
        <3>4. QED
            BY <1>4, <2>1, <3>2, <3>3
    <2>2. QED
        BY <2>1
<1>8. h.e[c][2] =< h.e[p][2]
    BY <1>2, <1>5, <1>6
<1>9. c # p => 2 =< c /\ p < c /\ Heap!Parent(c) = p
    BY <1>3, <1>5, <1>6
<1>10. QED
    BY <1>1, <1>6, <1>7, <1>8, <1>9

LEMMA SinkIs ==
    ASSUME NEW h, Indexed(h), NEW p \in 1 .. Len(h.e), MaySink(h, p), Heap!Smallest(h, p) # p
    PROVE  MaySink(Heap!SwapKey(h, p, Heap!Smallest(h, p)), Heap!Smallest(h, p))
<1> DEFINE c == Heap!Smallest(h, p)
           g == Heap!SwapKey(h, p, c)
<1>1. Len(h.e) \in Nat /\ p \in Nat
    BY HeapParts
<1>2. /\ c \in 1 .. Len(h.e) /\ h.e[c][2] =< h.e[p][2]
      /\ 2 =< c /\ p < c /\ Heap!Parent(c) = p
    BY SmallestIs
<1>3. \A i \in 2 .. Len(h.e) : Heap!Parent(i) = p => h.e[c][2] =< h.e[i][2]
    BY SmallestIs
<1> HIDE DEF c
<1>4. Len(g.e) = Len(h.e) /\ g.e[p] = h.e[c] /\ g.e[c] = h.e[p]
    BY <1>2, SwapIs
<1>5. \A x \in 1 .. Len(h.e) : x \notin {p, c} => g.e[x] = h.e[x]
    BY <1>2, SwapIs
<1>6. \A i \in 2 .. Len(h.e) :
          /\ i \in 1 .. Len(h.e) /\ i \in Nat
          /\ Heap!Parent(i) \in 1 .. Len(h.e) /\ Heap!Parent(i) < i
    BY <1>1, ParentIs
<1> HIDE DEF g
<1>7. ASSUME NEW i \in 2 .. Len(h.e), Heap!Parent(i) # c PROVE Above(g, i)
    <2>1. CASE i = c
        BY <1>2, <1>4, <2>1 DEF Above
    <2>2. CASE Heap!Parent(i) = p /\ i # c
        <3>1. i \notin {p, c}
            BY <1>6, <2>2
        <3>2. g.e[i] = h.e[i]
            BY <1>5, <1>6, <3>1
        <3>3. QED
            BY <1>3, <1>4, <2>2, <3>2 DEF Above
    <2>3. CASE i = p
        <3>1. Heap!Parent(i) \notin {p, c} /\ p > 1
            BY <1>1, <1>6, <1>7, <2>3
        <3>2. g.e[Heap!Parent(p)] = h.e[Heap!Parent(p)]
            BY <1>5, <1>6, <2>3, <3>1
        <3>3. h.e[Heap!Parent(p)][2] =< h.e[c][2]
            <4>1. c \in 2 .. Len(h.e)
                BY <1>1, <1>2
            <4>2. QED
                BY <1>2, <3>1, <4>1 DEF MaySink, Around
        <3>4. QED
            BY <1>4, <2>3, <3>2, <3>3 DEF Above
    <2>4. CASE Heap!Parent(i) \notin {p, c} /\ i \notin {p, c}
        <3>1. g.e[i] = h.e[i] /\ g.e[Heap!Parent(i)] = h.e[Heap!Parent(i)]
            BY <1>5, <1>6, <2>4
        <3>2. Above(h, i)
            BY <2>4 DEF MaySink
        <3>3. QED
            BY <3>1, <3>2 DEF Above
    <2>5. QED
        BY <1>7, <2>1, <2>2, <2>3, <2>4
<1>8. ASSUME NEW i \in 2 .. Len(h.e), Heap!Parent(i) = c
      PROVE  g.e[Heap!Parent(c)][2] =< g.e[i][2]
    <2>1. i \notin {p, c} /\ Heap!Parent(i) # p
        BY <1>1, <1>2, <1>6, <1>8
    <2>2. g.e[i] = h.e[i] /\ g.e[Heap!Parent(c)] = h.e[c]
        BY <1>2, <1>4, <1>5, <1>6, <2>1
    <2>3. h.e[c][2] =< h.e[i][2]
        BY <1>8, <2>1 DEF MaySink, Above
    <2>4. QED
        BY <2>2, <2>3
<1>9. MaySink(g, c)
    BY <1>4, <1>7, <1>8 DEF MaySink, Around
<1>10. QED
    BY <1>9 DEF g, c

-----------------------------------------------------------------------------
(* siftDown and siftUp, turn by turn. *)

Downs(f, n, at) == f = [k \in 0 .. n |-> IF k = 0 THEN at ELSE Heap!DownStep(f[k - 1])]
Ups(f, n, at) == f = [k \in 0 .. n |-> IF k = 0 THEN at ELSE Heap!UpStep(f[k - 1])]

LEMMA DownsExist ==
    ASSUME NEW n \in Nat, NEW at
    PROVE  \E f : Downs(f, n, at)
<1> DEFINE P == {k \in 0 .. n : \E f : Downs(f, k, at)}
<1>1. 0 \in P
    <2>1. Downs([k \in 0 .. 0 |-> at], 0, at)
        BY DEF Downs
    <2>2. QED
        BY <2>1
<1>2. ASSUME NEW i \in 0 .. n - 1, i \in P PROVE i + 1 \in P
    <2>1. PICK f : Downs(f, i, at)
        BY <1>2
    <2> DEFINE longer == [k \in 0 .. i + 1 |-> IF k = 0 THEN at ELSE Heap!DownStep(f[k - 1])]
    <2>2. \A k \in 0 .. i : longer[k] = f[k]
        BY <2>1 DEF Downs
    <2>3. ASSUME NEW k \in 0 .. i + 1, k # 0 PROVE longer[k - 1] = f[k - 1]
        <3>1. k - 1 \in 0 .. i
            BY <1>2, <2>3
        <3>2. QED
            BY <2>2, <3>1
    <2>4. Downs(longer, i + 1, at)
        BY <2>3 DEF Downs
    <2>5. QED
        BY <1>2, <2>4
<1> HIDE DEF P
<1>3. \A i \in 0 .. n : i \in P
    BY <1>1, <1>2, Induction, Zenon
<1>4. n \in P
    BY <1>3
<1>5. QED
    BY <1>4 DEF P

LEMMA UpsExist ==
    ASSUME NEW n \in Nat, NEW at
    PROVE  \E f : Ups(f, n, at)
<1> DEFINE P == {k \in 0 .. n : \E f : Ups(f, k, at)}
<1>1. 0 \in P
    <2>1. Ups([k \in 0 .. 0 |-> at], 0, at)
        BY DEF Ups
    <2>2. QED
        BY <2>1
<1>2. ASSUME NEW i \in 0 .. n - 1, i \in P PROVE i + 1 \in P
    <2>1. PICK f : Ups(f, i, at)
        BY <1>2
    <2> DEFINE longer == [k \in 0 .. i + 1 |-> IF k = 0 THEN at ELSE Heap!UpStep(f[k - 1])]
    <2>2. \A k \in 0 .. i : longer[k] = f[k]
        BY <2>1 DEF Ups
    <2>3. ASSUME NEW k \in 0 .. i + 1, k # 0 PROVE longer[k - 1] = f[k - 1]
        <3>1. k - 1 \in 0 .. i
            BY <1>2, <2>3
        <3>2. QED
            BY <2>2, <3>1
    <2>4. Ups(longer, i + 1, at)
        BY <2>3 DEF Ups
    <2>5. QED
        BY <1>2, <2>4
<1> HIDE DEF P
<1>3. \A i \in 0 .. n : i \in P
    BY <1>1, <1>2, Induction, Zenon
<1>4. n \in P
    BY <1>3
<1>5. QED
    BY <1>4 DEF P

\* The same keys with the same scores in as many places.
Alike(g, h) == /\ Indexed(g) /\ Len(g.e) = Len(h.e) /\ g.past = h.past
               /\ DOMAIN g.idx = DOMAIN h.idx /\ ScoreOf(g) = ScoreOf(h)

LEMMA SwapIsAlike ==
    ASSUME NEW h, Indexed(h), NEW i \in 1 .. Len(h.e), NEW j \in 1 .. Len(h.e)
    PROVE  Alike(Heap!SwapKey(h, i, j), h)
<1>1. ScoreOf(Heap!SwapKey(h, i, j)) = ScoreOf(h)
    BY SwapKeepsScores
<1>2. QED
    BY <1>1, SwapIs DEF Alike

\* A place without children, or one not above a smaller child, is in order.
LEMMA SinksNoFurther ==
    ASSUME NEW h, Indexed(h), NEW p, MaySink(h, p),
           \A i \in 2 .. Len(h.e) : Heap!Parent(i) = p => Above(h, i)
    PROVE  Ordered(h)
BY DEF Ordered, MaySink

LEMMA PastTheEndIsOrdered ==
    ASSUME NEW h, Indexed(h), NEW p \in Nat, Len(h.e) =< p, MaySink(h, p)
    PROVE  Ordered(h)
<1>1. Len(h.e) \in Nat
    BY HeapParts
<1>2. \A i \in 2 .. Len(h.e) : Heap!Parent(i) # p
    BY <1>1, ParentIs
<1>3. QED
    BY <1>2, SinksNoFurther

LEMMA OrderedSinks ==
    ASSUME NEW h, Indexed(h), Ordered(h), NEW p \in Nat
    PROVE  MaySink(h, p)
<1>1. Len(h.e) \in Nat
    BY HeapParts
<1>2. \A i \in 1 .. Len(h.e) : h.e[i][2] \in Int
    BY HeapParts
<1>3. ASSUME NEW i \in 2 .. Len(h.e), Heap!Parent(i) = p, p > 1
      PROVE  h.e[Heap!Parent(p)][2] =< h.e[i][2]
    <2>1. i \in Nat /\ p < i /\ p \in 2 .. Len(h.e) /\ i \in 1 .. Len(h.e) /\ p \in 1 .. Len(h.e)
        BY <1>1, <1>3, ParentIs
    <2>2. Heap!Parent(p) \in 1 .. Len(h.e)
        BY <1>1, <2>1, ParentIs
    <2>3. h.e[Heap!Parent(p)][2] =< h.e[p][2] /\ h.e[p][2] =< h.e[i][2]
        BY <1>3, <2>1 DEF Ordered, Above
    <2>4. h.e[Heap!Parent(p)][2] \in Int /\ h.e[p][2] \in Int /\ h.e[i][2] \in Int
        BY <1>2, <2>1, <2>2
    <2>5. QED
        BY <2>3, <2>4, AtMost
<1>4. QED
    BY <1>3 DEF MaySink, Around, Ordered

LEMMA DownTurn ==
    ASSUME NEW h, Indexed(h), NEW p \in Nat, 1 =< p, MaySink(h, p)
    PROVE  LET at == Heap!DownStep(<<h, p>>)
           IN  \/ at = <<h, p>> /\ Ordered(h)
               \/ \E g, c : /\ at = <<g, c>> /\ Alike(g, h) /\ MaySink(g, c)
                            /\ c \in Nat /\ p < c
<1>1. Len(h.e) \in Nat /\ Heap!Size(h) = Len(h.e) /\ h.ok = TRUE
    BY HeapParts
<1>2. CASE p > Len(h.e)
    <2>1. Ordered(h)
        BY <1>1, <1>2, PastTheEndIsOrdered
    <2>2. Heap!DownStep(<<h, p>>) = <<h, p>>
        BY <1>1, <1>2 DEF Heap!DownStep
    <2>3. QED
        BY <2>1, <2>2
<1>3. CASE ~ (p > Len(h.e))
    <2> DEFINE c == Heap!Smallest(h, p)
    <2>1. p \in 1 .. Len(h.e)
        BY <1>1, <1>3
    <2>2. /\ c \in 1 .. Len(h.e) /\ h.e[c][2] =< h.e[p][2]
          /\ \A i \in 2 .. Len(h.e) : Heap!Parent(i) = p => h.e[c][2] =< h.e[i][2]
          /\ c # p => 2 =< c /\ p < c /\ Heap!Parent(c) = p
        BY <2>1, SmallestIs
    <2>3. CASE c = p
        <3>1. Ordered(h)
            BY <2>2, <2>3, SinksNoFurther DEF Above
        <3>2. Heap!DownStep(<<h, p>>) = <<h, p>>
            BY <2>3 DEF Heap!DownStep
        <3>3. QED
            BY <3>1, <3>2
    <2>4. CASE c # p
        <3>1. Heap!DownStep(<<h, p>>) = <<Heap!SwapKey(h, p, c), c>>
            BY <1>1, <1>3, <2>4 DEF Heap!DownStep
        <3>2. Alike(Heap!SwapKey(h, p, c), h)
            BY <2>1, <2>2, SwapIsAlike
        <3>3. MaySink(Heap!SwapKey(h, p, c), c)
            BY <2>1, <2>4, SinkIs
        <3>4. c \in Nat /\ p < c
            BY <1>1, <2>2, <2>4
        <3>5. QED
            BY <3>1, <3>2, <3>3, <3>4
    <2>5. QED
        BY <2>3, <2>4
<1>4. QED
    BY <1>2, <1>3

LEMMA SiftDownIs ==
    ASSUME NEW h, Indexed(h), NEW p \in Nat, 1 =< p, MaySink(h, p)
    PROVE  Alike(Heap!SiftDown(h, p), h) /\ Ordered(Heap!SiftDown(h, p))
<1> DEFINE N == Len(h.e)
<1>1. N \in Nat /\ Heap!Size(h) = N
    BY HeapParts
<1>2. PICK f : Downs(f, N, <<h, p>>) /\ Heap!SiftDown(h, p) = f[N][1]
    <2>1. Heap!SiftDown(h, p) = (CHOOSE f : Downs(f, N, <<h, p>>))[N][1]
        BY <1>1 DEF Heap!SiftDown, Downs
    <2>2. Downs(CHOOSE f : Downs(f, N, <<h, p>>), N, <<h, p>>)
        BY <1>1, DownsExist, Zenon
    <2>3. QED
        BY <2>1, <2>2
<1>3. f[0] = <<h, p>> /\ \A k \in 0 .. N - 1 : f[k + 1] = Heap!DownStep(f[k])
    <2>1. f = [k \in 0 .. N |-> IF k = 0 THEN <<h, p>> ELSE Heap!DownStep(f[k - 1])]
        BY <1>2, Zenon DEF Downs
    <2> HIDE DEF N
    <2>2. f[0] = <<h, p>>
        BY <1>1, <2>1
    <2>3. ASSUME NEW k \in 0 .. N - 1 PROVE f[k + 1] = Heap!DownStep(f[k])
        <3>1. k + 1 \in 0 .. N /\ k + 1 # 0 /\ (k + 1) - 1 = k
            BY <1>1
        <3>2. QED
            BY <2>1, <3>1
    <2>4. QED
        BY <2>2, <2>3
\* Either done, or p has gone down a level with each turn.
<1> DEFINE Turned(at, k) ==
               \E g, c : /\ at = <<g, c>> /\ Alike(g, h) /\ MaySink(g, c)
                         /\ c \in Nat /\ 1 =< c
                         /\ \/ Heap!DownStep(at) = at /\ Ordered(g)
                            \/ p + k =< c
           P == {k \in 0 .. N : Turned(f[k], k)}
<1>4. 0 \in P
    <2>1. Alike(h, h)
        BY DEF Alike
    <2>2. Turned(<<h, p>>, 0)
        BY <2>1
    <2>3. QED
        BY <1>1, <1>3, <2>2
<1>5. ASSUME NEW i \in 0 .. N - 1, i \in P PROVE i + 1 \in P
    <2>1. i \in Nat /\ i + 1 \in 0 .. N /\ f[i + 1] = Heap!DownStep(f[i])
        BY <1>1, <1>3
    <2>2. PICK g, c : /\ f[i] = <<g, c>> /\ Alike(g, h) /\ MaySink(g, c)
                      /\ c \in Nat /\ 1 =< c
                      /\ \/ Heap!DownStep(f[i]) = f[i] /\ Ordered(g)
                         \/ p + i =< c
        BY <1>5
    <2>3. Indexed(g)
        BY <2>2 DEF Alike
    <2>4. CASE Heap!DownStep(f[i]) = f[i] /\ Ordered(g)
        <3>1. Turned(f[i + 1], i + 1)
            BY <2>1, <2>2, <2>4
        <3>2. QED
            BY <2>1, <3>1
    <2>5. CASE ~ (Heap!DownStep(f[i]) = f[i] /\ Ordered(g))
        <3>1. PICK d, b : /\ Heap!DownStep(<<g, c>>) = <<d, b>> /\ Alike(d, g) /\ MaySink(d, b)
                          /\ b \in Nat /\ c < b
            BY <2>2, <2>3, <2>5, DownTurn
        <3>2. Alike(d, h)
            BY <2>2, <3>1 DEF Alike
        <3>3. p + (i + 1) =< b /\ 1 =< b
            BY <2>1, <2>2, <2>5, <3>1
        <3>4. f[i + 1] = <<d, b>>
            BY <2>1, <2>2, <3>1
        <3>5. Turned(f[i + 1], i + 1)
            BY <3>1, <3>2, <3>3, <3>4
        <3>6. QED
            BY <2>1, <3>5
    <2>6. QED
        BY <2>4, <2>5
<1> HIDE DEF P
<1>6. \A i \in 0 .. N : i \in P
    BY <1>1, <1>4, <1>5, Induction, Zenon
<1>7. Turned(f[N], N)
    BY <1>1, <1>6 DEF P
<1>8. PICK g, c : /\ f[N] = <<g, c>> /\ Alike(g, h) /\ MaySink(g, c)
                  /\ c \in Nat /\ 1 =< c
                  /\ \/ Heap!DownStep(f[N]) = f[N] /\ Ordered(g)
                     \/ p + N =< c
    BY <1>7
<1>9. Indexed(g) /\ Len(g.e) = N
    BY <1>8 DEF Alike
<1>10. Ordered(g)
    <2>1. CASE p + N =< c
        <3>1. Len(g.e) =< c
            BY <1>1, <1>8, <1>9, <2>1
        <3>2. QED
            BY <1>8, <1>9, <3>1, PastTheEndIsOrdered
    <2>2. QED
        BY <1>8, <2>1
<1>11. Heap!SiftDown(h, p) = g
    BY <1>2, <1>8
<1>12. QED
    BY <1>8, <1>10, <1>11

LEMMA MayRiseIsNear ==
    ASSUME NEW h, NEW p, MayRise(h, p)
    PROVE  Near(h, p)
BY DEF MayRise, Near

LEMMA UpTurn ==
    ASSUME NEW h, Indexed(h), NEW p \in 1 .. Len(h.e), Near(h, p)
    PROVE  LET at == Heap!UpStep(<<h, p>>)
           IN  \/ at = <<h, p>> /\ MaySink(h, p) /\ (MayRise(h, p) => Ordered(h))
               \/ \E g, c : /\ at = <<g, c>> /\ Alike(g, h) /\ MayRise(g, c)
                            /\ c \in 1 .. Len(h.e) /\ c < p
<1>1. Len(h.e) \in Nat /\ h.ok = TRUE
    BY HeapParts
<1>2. p \in Nat /\ 1 =< p
    BY <1>1
<1>3. CASE p = 1
    <2>1. Heap!UpStep(<<h, p>>) = <<h, p>>
        BY <1>3 DEF Heap!UpStep
    <2>2. MaySink(h, p) /\ (MayRise(h, p) => Ordered(h))
        BY <1>3 DEF Near, MaySink, MayRise, Ordered
    <2>3. QED
        BY <2>1, <2>2
<1>4. CASE p # 1
    <2> DEFINE q == Heap!Parent(p)
    <2>1. p \in 2 .. Len(h.e) /\ q \in 1 .. Len(h.e) /\ q < p
        BY <1>1, <1>2, <1>4, ParentIs
    <2>2. Heap!ScoreAt(h, p) = h.e[p][2] /\ Heap!ScoreAt(h, q) = h.e[q][2]
        BY <2>1, HeapParts
    <2>3. h.e[p][2] \in Int /\ h.e[q][2] \in Int
        BY <2>1, HeapParts
    <2>4. CASE h.e[q][2] < h.e[p][2]
        <3>1. Heap!UpStep(<<h, p>>) = <<h, p>>
            BY <2>2, <2>4 DEF Heap!UpStep
        <3>2. Above(h, p)
            BY <2>3, <2>4 DEF Above
        <3>3. MaySink(h, p) /\ (MayRise(h, p) => Ordered(h))
            BY <3>2 DEF Near, MaySink, MayRise, Ordered
        <3>4. QED
            BY <3>1, <3>3
    <2>5. CASE ~ (h.e[q][2] < h.e[p][2])
        <3>1. Heap!UpStep(<<h, p>>) = <<Heap!SwapKey(h, p, q), q>>
            BY <1>1, <1>4, <2>2, <2>5 DEF Heap!UpStep
        <3>2. Alike(Heap!SwapKey(h, p, q), h)
            BY <2>1, SwapIsAlike
        <3>3. MayRise(Heap!SwapKey(h, p, q), q)
            BY <2>1, <2>5, RiseIs
        <3>4. QED
            BY <2>1, <3>1, <3>2, <3>3
    <2>6. QED
        BY <2>4, <2>5
<1>5. QED
    BY <1>3, <1>4

LEMMA UpsStart ==
    ASSUME NEW n \in Nat, NEW at, NEW f, Ups(f, n, at)
    PROVE  f[0] = at /\ \A k \in 0 .. n - 1 : f[k + 1] = Heap!UpStep(f[k])
<1>1. f = [k \in 0 .. n |-> IF k = 0 THEN at ELSE Heap!UpStep(f[k - 1])]
    BY Zenon DEF Ups
<1>2. f[0] = at
    BY <1>1
<1>3. ASSUME NEW k \in 0 .. n - 1 PROVE f[k + 1] = Heap!UpStep(f[k])
    <2>1. k + 1 \in 0 .. n /\ k + 1 # 0 /\ (k + 1) - 1 = k
        OBVIOUS
    <2>2. QED
        BY <1>1, <2>1
<1>4. QED
    BY <1>2, <1>3

UpTurns(f, h, p) == /\ Heap!SiftUp(h, p) = f[p][1]
                    /\ f[0] = <<h, p>>
                    /\ \A k \in 0 .. p - 1 : f[k + 1] = Heap!UpStep(f[k])

LEMMA SiftUpTurns ==
    ASSUME NEW h, NEW p \in Nat
    PROVE  \E f : UpTurns(f, h, p)
<1>1. PICK f : Ups(f, p, <<h, p>>) /\ Heap!SiftUp(h, p) = f[p][1]
    <2>1. Heap!SiftUp(h, p) = (CHOOSE f : Ups(f, p, <<h, p>>))[p][1]
        BY DEF Heap!SiftUp, Ups
    <2>2. Ups(CHOOSE f : Ups(f, p, <<h, p>>), p, <<h, p>>)
        BY UpsExist, Zenon
    <2>3. QED
        BY <2>1, <2>2
<1>2. f[0] = <<h, p>> /\ \A k \in 0 .. p - 1 : f[k + 1] = Heap!UpStep(f[k])
    BY <1>1, UpsStart
<1>3. UpTurns(f, h, p)
    BY <1>1, <1>2 DEF UpTurns
<1>4. QED
    BY <1>3

\* What does not go up on the first turn stays.
LEMMA SiftUpStays ==
    ASSUME NEW h, NEW p \in Nat, Heap!UpStep(<<h, p>>) = <<h, p>>
    PROVE  Heap!SiftUp(h, p) = h
<1>1. PICK f : /\ Heap!SiftUp(h, p) = f[p][1]
               /\ f[0] = <<h, p>> /\ \A k \in 0 .. p - 1 : f[k + 1] = Heap!UpStep(f[k])
    BY SiftUpTurns, Zenon DEF UpTurns
<1> DEFINE P == {k \in 0 .. p : f[k] = <<h, p>>}
<1>2. 0 \in P
    BY <1>1
<1>3. ASSUME NEW i \in 0 .. p - 1, i \in P PROVE i + 1 \in P
    BY <1>1, <1>3
<1> HIDE DEF P
<1>4. \A i \in 0 .. p : i \in P
    BY <1>2, <1>3, Induction, Zenon
<1>5. f[p] = <<h, p>>
    BY <1>4 DEF P
<1>6. QED
    BY <1>1, <1>5

\* The element at p goes up as far as it must; what is then at p may be too
\* big for it.
LEMMA SiftUpIs ==
    ASSUME NEW h, Indexed(h), NEW p \in 1 .. Len(h.e), Near(h, p)
    PROVE  Alike(Heap!SiftUp(h, p), h) /\ MaySink(Heap!SiftUp(h, p), p)
<1>1. Len(h.e) \in Nat
    BY HeapParts
<1>2. p \in Nat /\ 1 =< p
    BY <1>1
<1>3. PICK f : UpTurns(f, h, p)
    BY <1>2, SiftUpTurns, Zenon
<1>4. /\ Heap!SiftUp(h, p) = f[p][1]
      /\ f[0] = <<h, p>> /\ \A k \in 0 .. p - 1 : f[k + 1] = Heap!UpStep(f[k])
    BY <1>3 DEF UpTurns
\* Either done, or the place has gone up a level with each turn.
<1> DEFINE Turned(at, k) ==
               \E g, c : /\ at = <<g, c>> /\ Alike(g, h) /\ c \in 1 .. Len(h.e)
                         /\ \/ Heap!UpStep(at) = at /\ MaySink(g, p)
                            \/ /\ c =< p - k /\ Near(g, c)
                               /\ at = <<h, p>> \/ MayRise(g, c)
           P == {k \in 0 .. p : Turned(f[k], k)}
<1>5. 0 \in P
    <2>1. Alike(h, h)
        BY DEF Alike
    <2>2. p =< p - 0
        BY <1>2
    <2>3. Turned(<<h, p>>, 0)
        BY <2>1, <2>2
    <2>4. QED
        BY <1>2, <1>4, <2>3
<1>6. ASSUME NEW i \in 0 .. p - 1, i \in P PROVE i + 1 \in P
    <2>1. i \in Nat /\ i + 1 \in 0 .. p /\ f[i + 1] = Heap!UpStep(f[i])
        BY <1>2, <1>4
    <2>2. PICK g, c : /\ f[i] = <<g, c>> /\ Alike(g, h) /\ c \in 1 .. Len(h.e)
                      /\ \/ Heap!UpStep(f[i]) = f[i] /\ MaySink(g, p)
                         \/ /\ c =< p - i /\ Near(g, c)
                            /\ f[i] = <<h, p>> \/ MayRise(g, c)
        BY <1>6
    <2>3. Indexed(g) /\ Len(g.e) = Len(h.e)
        BY <2>2 DEF Alike
    <2>4. CASE Heap!UpStep(f[i]) = f[i] /\ MaySink(g, p)
        <3>1. Turned(f[i + 1], i + 1)
            BY <2>1, <2>2, <2>4
        <3>2. QED
            BY <2>1, <3>1
    <2>5. CASE ~ (Heap!UpStep(f[i]) = f[i] /\ MaySink(g, p))
        <3>1. c =< p - i /\ Near(g, c) /\ (f[i] = <<h, p>> \/ MayRise(g, c))
            BY <2>2, <2>5
        <3>2. CASE Heap!UpStep(f[i]) = f[i]
            <4>1. MaySink(g, c) /\ (MayRise(g, c) => Ordered(g))
                <5>1. ~ \E d, b : /\ Heap!UpStep(<<g, c>>) = <<d, b>> /\ b \in 1 .. Len(g.e) /\ b < c
                    BY <1>1, <2>2, <2>3, <3>2
                <5>2. c \in 1 .. Len(g.e)
                    BY <2>2, <2>3
                <5>3. QED
                    BY <2>3, <3>1, <5>1, <5>2, UpTurn
            <4>2. CASE f[i] = <<h, p>>
                BY <2>2, <2>5, <3>2, <4>1, <4>2
            <4>3. CASE MayRise(g, c)
                BY <1>2, <2>3, <2>5, <3>2, <4>1, <4>3, OrderedSinks
            <4>4. QED
                BY <3>1, <4>2, <4>3
        <3>3. CASE Heap!UpStep(f[i]) # f[i]
            <4>1. c \in 1 .. Len(g.e)
                BY <2>2, <2>3
            <4>2. PICK d, b : /\ Heap!UpStep(<<g, c>>) = <<d, b>> /\ Alike(d, g) /\ MayRise(d, b)
                              /\ b \in 1 .. Len(g.e) /\ b < c
                BY <2>2, <2>3, <3>1, <3>3, <4>1, UpTurn
            <4>3. Alike(d, h)
                BY <2>2, <4>2 DEF Alike
            <4>4. b \in 1 .. Len(h.e) /\ b =< p - (i + 1)
                BY <1>1, <1>2, <2>1, <2>2, <2>3, <3>1, <4>2
            <4>5. f[i + 1] = <<d, b>>
                BY <2>1, <2>2, <4>2
            <4>6. Near(d, b)
                BY <4>2, MayRiseIsNear
            <4>7. Turned(f[i + 1], i + 1)
                BY <4>2, <4>3, <4>4, <4>5, <4>6
            <4>8. QED
                BY <2>1, <4>7
        <3>4. QED
            BY <3>2, <3>3
    <2>6. QED
        BY <2>4, <2>5
<1> HIDE DEF P
<1>7. \A i \in 0 .. p : i \in P
    BY <1>2, <1>5, <1>6, Induction, Zenon
<1>8. Turned(f[p], p)
    BY <1>2, <1>7 DEF P
<1>9. PICK g, c : /\ f[p] = <<g, c>> /\ Alike(g, h) /\ c \in 1 .. Len(h.e)
                  /\ MaySink(g, p) \/ c =< p - p
    BY <1>8
<1>10. MaySink(g, p)
    BY <1>1, <1>2, <1>9
<1>11. QED
    BY <1>4, <1>9, <1>10

-----------------------------------------------------------------------------
(* The heap's operations. *)

LEMMA ScoreOfIs ==
    ASSUME NEW h, Indexed(h)
    PROVE  /\ DOMAIN ScoreOf(h) = DOMAIN h.idx
           /\ \A i \in 1 .. Len(h.e) : h.e[i][1] \in DOMAIN h.idx /\ ScoreOf(h)[h.e[i][1]] = h.e[i][2]
BY DEF ScoreOf, Indexed

LEMMA IsScoreOf ==
    ASSUME NEW h, Indexed(h), NEW f, f = [k \in DOMAIN h.idx |-> f[k]],
           \A i \in 1 .. Len(h.e) : f[h.e[i][1]] = h.e[i][2]
    PROVE  ScoreOf(h) = f
<1>1. \A k \in DOMAIN h.idx : f[k] = h.e[h.idx[k]][2]
    BY DEF Indexed
<1>2. QED
    BY <1>1 DEF ScoreOf

\* A place whose element was replaced, in a heap that may have lost its last.
LEMMA ReplacedIsNear ==
    ASSUME NEW h, Indexed(h), Ordered(h), NEW g, Indexed(g), Len(g.e) =< Len(h.e),
           NEW p \in 1 .. Len(g.e),
           \A x \in 1 .. Len(g.e) : x # p => g.e[x] = h.e[x]
    PROVE  Near(g, p)
<1>1. Len(g.e) \in Nat /\ Len(h.e) \in Nat
    BY HeapParts
<1>2. \A i \in 2 .. Len(g.e) :
          /\ i \in 2 .. Len(h.e) /\ i \in 1 .. Len(g.e) /\ i \in Nat
          /\ Heap!Parent(i) \in 1 .. Len(g.e) /\ Heap!Parent(i) < i
    BY <1>1, ParentIs
<1>3. ASSUME NEW i \in 2 .. Len(g.e), i # p, Heap!Parent(i) # p PROVE Above(g, i)
    <2>1. g.e[i] = h.e[i] /\ g.e[Heap!Parent(i)] = h.e[Heap!Parent(i)]
        BY <1>2, <1>3
    <2>2. QED
        BY <1>2, <2>1 DEF Ordered, Above
<1>4. ASSUME NEW i \in 2 .. Len(g.e), Heap!Parent(i) = p, p > 1
      PROVE  g.e[Heap!Parent(p)][2] =< g.e[i][2]
    <2>1. p \in Nat /\ p \in 2 .. Len(g.e) /\ p \in 2 .. Len(h.e)
        BY <1>1, <1>4
    <2>2. i # p /\ Heap!Parent(p) # p
        BY <1>2, <1>4, <2>1
    <2>3. g.e[i] = h.e[i] /\ g.e[Heap!Parent(p)] = h.e[Heap!Parent(p)]
        BY <1>2, <2>1, <2>2
    <2>4. MaySink(h, p)
        BY <2>1, OrderedSinks
    <2>5. h.e[Heap!Parent(p)][2] =< h.e[i][2]
        BY <1>2, <1>4, <2>4 DEF MaySink, Around
    <2>6. QED
        BY <2>3, <2>5
<1>5. QED
    BY <1>3, <1>4 DEF Near, Around

LEMMA AppendedIs ==
    ASSUME NEW h, Indexed(h), NEW k \in HeapKeys, k \notin DOMAIN h.idx, NEW s \in Int
    PROVE  LET n == Len(h.e)
               g == [h EXCEPT !.e = Append(@, <<k, s>>), !.idx = Heap!Set(@, k, n + 1)]
           IN  /\ Indexed(g) /\ Len(g.e) = n + 1
               /\ \A x \in 1 .. n : g.e[x] = h.e[x]
               /\ ScoreOf(g) = Heap!Set(ScoreOf(h), k, s)
<1> DEFINE n == Len(h.e)
           e == Append(h.e, <<k, s>>)
           idx == Heap!Set(h.idx, k, n + 1)
           g == [h EXCEPT !.e = Append(@, <<k, s>>), !.idx = Heap!Set(@, k, n + 1)]
<1>1. h \in Heaps /\ h.ok = TRUE /\ h.e \in Seq(Pairs) /\ n \in Nat
    BY HeapParts
<1>2. <<k, s>> \in Pairs
    BY DEF Pairs
<1>3. /\ e \in Seq(Pairs) /\ Len(e) = n + 1 /\ e[n + 1] = <<k, s>>
      /\ \A x \in 1 .. n : e[x] = h.e[x]
    BY <1>1, <1>2
<1>4. h.idx \in Indices
    BY <1>1 DEF Heaps
<1>5. DOMAIN idx = DOMAIN h.idx \cup {k} /\ idx[k] = n + 1
    BY DEF Heap!Set
<1>6. \A x \in DOMAIN h.idx : idx[x] = h.idx[x]
    BY DEF Heap!Set
<1>7. idx \in Indices
    <2>1. idx \in [DOMAIN h.idx \cup {k} -> Nat] /\ DOMAIN h.idx \cup {k} \in SUBSET HeapKeys
        BY <1>1, <1>4, IndexIs DEF Heap!Set
    <2>2. QED
        BY <2>1, IsIndex
<1> HIDE DEF e, idx
<1>8. g = [h EXCEPT !.e = e, !.idx = idx]
    BY DEF e, idx
<1>9. g \in Heaps /\ g.e = e /\ g.idx = idx /\ g.ok = h.ok
    BY <1>1, <1>3, <1>7, <1>8 DEF Heaps
<1>10. ASSUME NEW x \in 1 .. n + 1 PROVE e[x][1] \in DOMAIN idx /\ idx[e[x][1]] = x
    <2>1. CASE x \in 1 .. n
        BY <1>3, <1>5, <1>6, <2>1 DEF Indexed
    <2>2. CASE x = n + 1
        BY <1>3, <1>5, <2>2
    <2>3. QED
        BY <1>1, <2>1, <2>2
<1>11. ASSUME NEW x \in DOMAIN idx PROVE idx[x] \in 1 .. n + 1 /\ e[idx[x]][1] = x
    <2>1. CASE x \in DOMAIN h.idx
        <3>1. idx[x] = h.idx[x] /\ h.idx[x] \in 1 .. n /\ h.e[h.idx[x]][1] = x
            BY <1>6, <2>1 DEF Indexed
        <3>2. QED
            BY <1>1, <1>3, <3>1
    <2>2. CASE x = k
        BY <1>1, <1>3, <1>5, <2>2
    <2>3. QED
        BY <1>5, <2>1, <2>2
<1> HIDE DEF g
<1>12. Indexed(g) /\ Len(g.e) = n + 1
    BY <1>1, <1>3, <1>9, <1>10, <1>11 DEF Indexed
<1>13. ScoreOf(g) = Heap!Set(ScoreOf(h), k, s)
    <2> DEFINE f == Heap!Set(ScoreOf(h), k, s)
    <2>1. f[k] = s /\ \A x \in DOMAIN ScoreOf(h) : x # k => f[x] = ScoreOf(h)[x]
        BY DEF Heap!Set
    <2>2. ASSUME NEW i \in 1 .. Len(g.e) PROVE f[g.e[i][1]] = g.e[i][2]
        <3>1. CASE i = n + 1
            BY <1>3, <1>9, <2>1, <3>1
        <3>2. CASE i \in 1 .. n
            <4>1. h.e[i][1] \in DOMAIN h.idx /\ ScoreOf(h)[h.e[i][1]] = h.e[i][2]
                BY <3>2, ScoreOfIs
            <4>2. h.e[i][1] \in DOMAIN ScoreOf(h) /\ h.e[i][1] # k
                BY <4>1, ScoreOfIs
            <4>3. QED
                BY <1>3, <1>9, <2>1, <3>2, <4>1, <4>2
        <3>3. QED
            BY <1>1, <1>12, <3>1, <3>2
    <2>3. DOMAIN g.idx = DOMAIN ScoreOf(h) \cup {k}
        BY <1>5, <1>9, ScoreOfIs
    <2>4. f = [x \in DOMAIN g.idx |-> f[x]]
        BY <2>3 DEF Heap!Set
    <2> HIDE DEF f
    <2>5. ScoreOf(g) = f
        BY <1>12, <2>2, <2>4, IsScoreOf
    <2>6. QED
        BY <2>5 DEF f
<1>14. QED
    BY <1>3, <1>9, <1>12, <1>13 DEF g

LEMMA InsertIs ==
    ASSUME NEW h, Indexed(h), Ordered(h), NEW k \in HeapKeys, NEW s \in Int
    PROVE  LET g == Heap!Insert(h, k, s)
           IN  /\ Indexed(g) /\ Ordered(g)
               /\ ScoreOf(g) = IF k \in DOMAIN ScoreOf(h) THEN ScoreOf(h)
                               ELSE Heap!Set(ScoreOf(h), k, s)
<1>1. DOMAIN ScoreOf(h) = DOMAIN h.idx
    BY ScoreOfIs
<1>2. CASE k \in DOMAIN h.idx
    BY <1>1, <1>2 DEF Heap!Insert
<1>3. CASE k \notin DOMAIN h.idx
    <2> DEFINE n == Len(h.e)
               a == [h EXCEPT !.e = Append(@, <<k, s>>), !.idx = Heap!Set(@, k, n + 1)]
               g == Heap!SiftUp(a, n + 1)
    <2>1. n \in Nat /\ Heap!Size(h) = n
        BY HeapParts
    <2>2. Heap!Insert(h, k, s) = g
        BY <1>3, <2>1 DEF Heap!Insert
    <2>3. /\ Indexed(a) /\ Len(a.e) = n + 1
          /\ \A x \in 1 .. n : a.e[x] = h.e[x]
          /\ ScoreOf(a) = Heap!Set(ScoreOf(h), k, s)
        BY <1>3, AppendedIs
    <2> HIDE DEF a
    <2>4. \A i \in 2 .. Len(a.e) : i \in Nat /\ Heap!Parent(i) \in 1 .. n /\ Heap!Parent(i) < i
        BY <2>1, <2>3, ParentIs
    <2>5. Near(a, n + 1)
        <3>1. ASSUME NEW i \in 2 .. Len(a.e), i # n + 1 PROVE Above(a, i)
            <4>1. i \in 1 .. n /\ i \in 2 .. Len(h.e)
                BY <2>1, <2>3, <3>1
            <4>2. QED
                BY <2>3, <2>4, <4>1 DEF Ordered, Above
        <3>2. Around(a, n + 1)
            BY <2>1, <2>4 DEF Around
        <3>3. QED
            BY <3>1, <3>2 DEF Near
    <2>6. Alike(g, a) /\ MaySink(g, n + 1)
        <3>1. n + 1 \in 1 .. Len(a.e)
            BY <2>1, <2>3
        <3>2. QED
            BY <2>3, <2>5, <3>1, SiftUpIs
    <2>7. Indexed(g) /\ Len(g.e) = n + 1 /\ ScoreOf(g) = ScoreOf(a)
        BY <2>3, <2>6 DEF Alike
    <2>8. Ordered(g)
        <3>1. n + 1 \in Nat /\ Len(g.e) =< n + 1
            BY <2>1, <2>7
        <3>2. QED
            BY <2>6, <2>7, <3>1, PastTheEndIsOrdered
    <2> HIDE DEF g
    <2>9. QED
        BY <1>1, <1>3, <2>2, <2>3, <2>7, <2>8
<1>4. QED
    BY <1>2, <1>3

\* A key is taken out by swapping it with the last.
LEMMA RemovedIs ==
    ASSUME NEW h, Indexed(h), Ordered(h), NEW k \in DOMAIN h.idx
    PROVE  LET n == Len(h.e)
               i == h.idx[k]
               g == Heap!RemoveLast(Heap!SwapKey(h, i, n))
           IN  /\ Indexed(g) /\ Len(g.e) = n - 1
               /\ ScoreOf(g) = Heap!Without(ScoreOf(h), k)
               /\ i \in 1 .. n - 1 => Near(g, i)
               /\ i = n => /\ Ordered(g) /\ g.past = h.e[n][2]
                           /\ \A x \in 1 .. n - 1 : g.e[x] = h.e[x]
<1> DEFINE n == Len(h.e)
           i == h.idx[k]
           w == Heap!SwapKey(h, i, n)
           g == Heap!RemoveLast(w)
<1>1. n \in Nat
    BY HeapParts
<1>2. i \in 1 .. n /\ h.e[i][1] = k
    BY DEF Indexed
<1>3. i \in 1 .. Len(h.e) /\ n \in 1 .. Len(h.e) /\ n # 0
    BY <1>1, <1>2
<1> HIDE DEF i
<1>4. Alike(w, h)
    BY <1>3, SwapIsAlike
<1>5. /\ w.e[i] = h.e[n] /\ w.e[n] = h.e[i]
      /\ \A x \in 1 .. n : x \notin {i, n} => w.e[x] = h.e[x]
    BY <1>3, SwapIs
<1> HIDE DEF w
<1>6. Indexed(w) /\ Len(w.e) = n /\ DOMAIN w.idx = DOMAIN h.idx /\ ScoreOf(w) = ScoreOf(h)
    BY <1>4 DEF Alike
<1>7. /\ Indexed(g) /\ Len(g.e) = n - 1
      /\ \A x \in 1 .. n - 1 : g.e[x] = w.e[x]
      /\ g.past = w.e[n][2]
      /\ DOMAIN g.idx = DOMAIN w.idx \ {w.e[n][1]}
    BY <1>1, <1>3, <1>6, RemoveLastIs
<1> HIDE DEF g
<1>8. DOMAIN g.idx = DOMAIN h.idx \ {k}
    BY <1>2, <1>5, <1>6, <1>7
<1>9. ScoreOf(g) = Heap!Without(ScoreOf(h), k)
    <2> DEFINE f == Heap!Without(ScoreOf(h), k)
    <2>1. \A x \in DOMAIN ScoreOf(h) \ {k} : f[x] = ScoreOf(h)[x]
        BY DEF Heap!Without
    <2>2. ASSUME NEW x \in 1 .. Len(g.e) PROVE f[g.e[x][1]] = g.e[x][2]
        <3>1. x \in 1 .. n - 1 /\ x \in 1 .. Len(w.e)
            BY <1>1, <1>6, <1>7
        <3>2. g.e[x][1] \in DOMAIN h.idx \ {k}
            BY <1>7, <1>8 DEF Indexed
        <3>3. ScoreOf(w)[w.e[x][1]] = w.e[x][2]
            BY <1>6, <3>1, ScoreOfIs
        <3>4. DOMAIN ScoreOf(h) = DOMAIN h.idx
            BY ScoreOfIs
        <3>5. QED
            BY <1>6, <1>7, <2>1, <3>1, <3>2, <3>3, <3>4
    <2>3. f = [x \in DOMAIN g.idx |-> f[x]]
        <3>1. DOMAIN ScoreOf(h) = DOMAIN h.idx
            BY ScoreOfIs
        <3>2. QED
            BY <1>8, <3>1 DEF Heap!Without
    <2> HIDE DEF f
    <2>4. Indexed(g)
        BY <1>7
    <2>5. ScoreOf(g) = f
        BY <2>2, <2>3, <2>4, IsScoreOf
    <2>6. QED
        BY <2>5 DEF f
<1>10. \A x \in 1 .. n - 1 : x # i => g.e[x] = h.e[x]
    <2>1. ASSUME NEW x \in 1 .. n - 1, x # i PROVE g.e[x] = h.e[x]
        <3>1. x \in 1 .. n /\ x \notin {i, n}
            BY <1>1, <2>1
        <3>2. QED
            BY <1>5, <1>7, <3>1
    <2>2. QED
        BY <2>1
<1>11. ASSUME i \in 1 .. n - 1 PROVE Near(g, i)
    <2>1. Len(g.e) =< Len(h.e) /\ i \in 1 .. Len(g.e)
        BY <1>1, <1>7, <1>11
    <2>2. QED
        BY <1>7, <1>10, <2>1, ReplacedIsNear
<1>12. ASSUME i = n
       PROVE  /\ Ordered(g) /\ g.past = h.e[n][2]
              /\ \A x \in 1 .. n - 1 : g.e[x] = h.e[x]
    <2>1. \A x \in 1 .. n - 1 : g.e[x] = h.e[x]
        BY <1>1, <1>10, <1>12
    <2>2. ASSUME NEW x \in 2 .. Len(g.e) PROVE Above(g, x)
        <3>1. x \in Nat /\ x \in 1 .. n - 1 /\ x \in 2 .. Len(h.e)
            BY <1>1, <1>7
        <3>2. Heap!Parent(x) \in 1 .. n - 1
            BY <1>1, <3>1, ParentIs
        <3>3. QED
            BY <2>1, <3>1, <3>2 DEF Ordered, Above
    <2>3. QED
        BY <1>5, <1>7, <1>12, <2>1, <2>2 DEF Ordered
<1>13. QED
    BY <1>7, <1>9, <1>11, <1>12 DEF g, w, i

LEMMA PopIs ==
    ASSUME NEW h, Indexed(h), Ordered(h), Len(h.e) # 0
    PROVE  LET g == Heap!Pop(h)
           IN  /\ Indexed(g) /\ Ordered(g)
               /\ ScoreOf(g) = Heap!Without(ScoreOf(h), Heap!Top(h)[1])
<1> DEFINE n == Len(h.e)
           k == h.e[1][1]
           i == h.idx[k]
           r == Heap!RemoveLast(Heap!SwapKey(h, i, n))
<1>1. n \in Nat /\ Heap!Size(h) = n
    BY HeapParts
<1>2. k \in DOMAIN h.idx /\ i = 1
    BY <1>1 DEF Indexed
<1> HIDE DEF k
<1>3. /\ Indexed(r) /\ Len(r.e) = n - 1
      /\ ScoreOf(r) = Heap!Without(ScoreOf(h), k)
      /\ i \in 1 .. n - 1 => Near(r, i)
      /\ i = n => Ordered(r)
    BY <1>2, RemovedIs
<1> HIDE DEF r, i
<1>4. MaySink(r, 1)
    <2>1. CASE n = 1
        BY <1>2, <1>3, <2>1, OrderedSinks
    <2>2. CASE n # 1
        <3>1. n # 0
            OBVIOUS
        <3> HIDE DEF n
        <3>2. 1 \in 1 .. n - 1
            BY <1>1, <2>2, <3>1
        <3>3. Near(r, 1)
            BY <1>2, <1>3, <3>2
        <3>4. QED
            BY <3>3 DEF Near, MaySink
    <2>3. QED
        BY <2>1, <2>2
<1>5. Alike(Heap!SiftDown(r, 1), r) /\ Ordered(Heap!SiftDown(r, 1))
    BY <1>3, <1>4, SiftDownIs
<1>6. Heap!Pop(h) = Heap!SiftDown(r, 1)
    BY <1>1, <1>2 DEF Heap!Pop, r
<1>7. Heap!Top(h)[1] = k
    BY DEF Heap!Top, k
<1>8. QED
    BY <1>3, <1>5, <1>6, <1>7 DEF Alike

\* What was put in its place goes up, or else down.
LEMMA ResiftedIs ==
    ASSUME NEW h, Indexed(h), NEW p \in 1 .. Len(h.e), Near(h, p)
    PROVE  LET g == Heap!SiftDown(Heap!SiftUp(h, p), p)
           IN  Indexed(g) /\ Ordered(g) /\ ScoreOf(g) = ScoreOf(h)
<1> DEFINE u == Heap!SiftUp(h, p)
           g == Heap!SiftDown(u, p)
<1>1. p \in Nat /\ 1 =< p
    <2>1. Len(h.e) \in Nat
        BY HeapParts
    <2>2. QED
        BY <2>1
<1>2. Alike(u, h) /\ MaySink(u, p)
    BY SiftUpIs
<1> HIDE DEF u
<1>3. Indexed(u)
    BY <1>2 DEF Alike
<1>4. Alike(g, u) /\ Ordered(g)
    BY <1>1, <1>2, <1>3, SiftDownIs
<1>5. QED
    BY <1>2, <1>4 DEF Alike, u

LEMMA EraseIs ==
    ASSUME NEW h, Indexed(h), Ordered(h), NEW k \in DOMAIN h.idx, ~ Heap!EqualsParent(h, k)
    PROVE  LET g == Heap!Erase(h, k)
           IN  /\ Indexed(g) /\ Ordered(g)
               /\ ScoreOf(g) = Heap!Without(ScoreOf(h), k)
<1> DEFINE n == Len(h.e)
           i == h.idx[k]
           r == Heap!RemoveLast(Heap!SwapKey(h, i, n))
<1>1. n \in Nat /\ Heap!Size(h) = n
    BY HeapParts
<1>2. i \in 1 .. n
    BY DEF Indexed
<1>3. /\ Indexed(r) /\ Len(r.e) = n - 1
      /\ ScoreOf(r) = Heap!Without(ScoreOf(h), k)
      /\ i \in 1 .. n - 1 => Near(r, i)
      /\ i = n => /\ Ordered(r) /\ r.past = h.e[n][2]
                  /\ \A x \in 1 .. n - 1 : r.e[x] = h.e[x]
    BY RemovedIs
<1> HIDE DEF r
<1>4. Heap!Erase(h, k) = Heap!SiftDown(Heap!SiftUp(r, i), i)
    BY <1>1 DEF Heap!Erase, r
<1>5. CASE i # n
    <2>1. i \in 1 .. n - 1 /\ i \in 1 .. Len(r.e)
        BY <1>1, <1>2, <1>3, <1>5
    <2>2. QED
        BY <1>3, <1>4, <2>1, ResiftedIs
<1>6. CASE i = n
    <2>1. n \in Nat /\ 1 =< n /\ n \in 1 .. Len(h.e) /\ n \notin DOMAIN r.e
        <3>1. DOMAIN r.e = 1 .. Len(r.e)
            BY <1>3, HeapParts
        <3>2. QED
            BY <1>1, <1>2, <1>3, <1>6, <3>1
    <2>2. Heap!UpStep(<<r, n>>) = <<r, n>>
        <3>1. CASE n = 1
            BY <3>1 DEF Heap!UpStep
        <3>2. CASE n # 1
            <4> DEFINE q == Heap!Parent(n)
            <4>1. q \in Nat /\ 1 =< q /\ q < n
                <5> HIDE DEF n
                <5>1. 2 =< n
                    BY <2>1, <3>2
                <5>2. QED
                    BY <2>1, <5>1, ParentIs
            <4> HIDE DEF q
            <4>2. n \in 2 .. Len(h.e) /\ q \in 1 .. n - 1 /\ q \in 1 .. Len(r.e) /\ q \in 1 .. Len(h.e)
                BY <1>1, <1>3, <2>1, <3>2, <4>1
            <4>3. Heap!ScoreAt(h, q) = h.e[q][2] /\ Heap!ScoreAt(h, n) = h.e[n][2]
                BY <2>1, <4>2, HeapParts
            <4>4. h.e[q][2] \in Int /\ h.e[n][2] \in Int
                BY <2>1, <4>2, HeapParts
            <4>5. h.e[q][2] # h.e[n][2]
                <5>1. i = Heap!Size(h) /\ i > 1
                    <6> HIDE DEF n, i
                    <6>1. n > 1
                        BY <2>1, <3>2
                    <6>2. QED
                        BY <1>1, <1>6, <6>1
                <5>2. Heap!ScoreAt(h, Heap!Parent(i)) # Heap!ScoreAt(h, i)
                    BY <5>1 DEF Heap!EqualsParent
                <5>3. Heap!ScoreAt(h, q) # Heap!ScoreAt(h, n)
                    BY <1>6, <5>2 DEF q
                <5>4. QED
                    BY <4>3, <5>3
            <4>6. Heap!ScoreAt(r, q) = h.e[q][2]
                <5>1. Indexed(r) /\ r.e[q] = h.e[q]
                    BY <1>3, <1>6, <4>2
                <5>2. Heap!ScoreAt(r, q) = r.e[q][2]
                    BY <4>2, <5>1, HeapParts
                <5>3. QED
                    BY <5>1, <5>2
            <4>7. Heap!ScoreAt(r, n) = h.e[n][2]
                BY <1>3, <1>6, <2>1 DEF Heap!ScoreAt
            <4>8. h.e[q][2] =< h.e[n][2]
                BY <4>2 DEF Ordered, Above, q
            <4>9. Heap!ScoreAt(r, q) < Heap!ScoreAt(r, n)
                BY <4>4, <4>5, <4>6, <4>7, <4>8
            <4>10. QED
                BY <4>9 DEF Heap!UpStep, q
        <3>3. QED
            BY <3>1, <3>2
    <2>3. Heap!SiftUp(r, n) = r
        BY <2>1, <2>2, SiftUpStays
    <2>4. Alike(Heap!SiftDown(r, n), r) /\ Ordered(Heap!SiftDown(r, n))
        BY <1>3, <1>6, <2>1, OrderedSinks, SiftDownIs
    <2>5. QED
        BY <1>3, <1>4, <1>6, <2>3, <2>4 DEF Alike
<1>7. QED
    BY <1>5, <1>6

LEMMA RescoredIs ==
    ASSUME NEW h, Indexed(h), Ordered(h), NEW k \in DOMAIN h.idx, NEW s \in Int
    PROVE  LET i == h.idx[k]
               g == [h EXCEPT !.e[i][2] = s]
           IN  /\ Indexed(g) /\ Len(g.e) = Len(h.e) /\ Near(g, i)
               /\ ScoreOf(g) = Heap!Set(ScoreOf(h), k, s)
<1> DEFINE i == h.idx[k]
           p == [h.e[i] EXCEPT ![2] = s]
           e == [h.e EXCEPT ![i] = p]
           g == [h EXCEPT !.e[i][2] = s]
<1>1. h \in Heaps /\ h.e \in Seq(Pairs) /\ Len(h.e) \in Nat /\ DOMAIN h.e = 1 .. Len(h.e)
    BY HeapParts
<1>2. i \in 1 .. Len(h.e) /\ h.e[i][1] = k
    BY DEF Indexed
<1> HIDE DEF i
<1>3. h.e[i] \in Pairs
    BY <1>1, <1>2
<1>4. p \in Pairs /\ p[1] = k /\ p[2] = s
    BY <1>2, <1>3 DEF Pairs
<1>5. e \in Seq(Pairs) /\ Len(e) = Len(h.e) /\ e[i] = p
    BY <1>1, <1>2, <1>4
<1>6. \A x \in 1 .. Len(h.e) : x # i => e[x] = h.e[x]
    BY <1>1
<1>7. g = [h EXCEPT !.e = e]
    OBVIOUS
<1> HIDE DEF e, p
<1>8. g \in Heaps /\ g.e = e /\ g.idx = h.idx /\ g.ok = h.ok
    BY <1>1, <1>5, <1>7 DEF Heaps
<1>9. \A x \in 1 .. Len(h.e) : e[x][1] = h.e[x][1]
    BY <1>2, <1>4, <1>5, <1>6
<1> HIDE DEF g
<1>10. Indexed(g)
    <2>1. \A x \in 1 .. Len(h.e) : h.e[x][1] \in DOMAIN h.idx /\ h.idx[h.e[x][1]] = x
        BY DEF Indexed
    <2>2. \A x \in DOMAIN h.idx : h.idx[x] \in 1 .. Len(h.e) /\ h.e[h.idx[x]][1] = x
        BY DEF Indexed
    <2>3. g.ok = TRUE
        BY <1>8 DEF Indexed
    <2>4. \A x \in 1 .. Len(g.e) : g.e[x][1] \in DOMAIN g.idx /\ g.idx[g.e[x][1]] = x
        BY <1>5, <1>8, <1>9, <2>1
    <2>5. \A x \in DOMAIN g.idx : g.idx[x] \in 1 .. Len(g.e) /\ g.e[g.idx[x]][1] = x
        BY <1>5, <1>8, <1>9, <2>2
    <2>6. QED
        BY <1>8, <2>3, <2>4, <2>5 DEF Indexed
<1>11. Near(g, i)
    <2>1. Len(g.e) =< Len(h.e) /\ i \in 1 .. Len(g.e)
        BY <1>1, <1>2, <1>5, <1>8
    <2>2. \A x \in 1 .. Len(g.e) : x # i => g.e[x] = h.e[x]
        BY <1>5, <1>6, <1>8
    <2>3. QED
        BY <1>10, <2>1, <2>2, ReplacedIsNear
<1>12. ScoreOf(g) = Heap!Set(ScoreOf(h), k, s)
    <2> DEFINE f == Heap!Set(ScoreOf(h), k, s)
    <2>1. f[k] = s /\ \A x \in DOMAIN ScoreOf(h) : x # k => f[x] = ScoreOf(h)[x]
        BY DEF Heap!Set
    <2>2. ASSUME NEW x \in 1 .. Len(g.e) PROVE f[g.e[x][1]] = g.e[x][2]
        <3>1. x \in 1 .. Len(h.e)
            BY <1>5, <1>8
        <3>2. CASE x = i
            BY <1>4, <1>5, <1>8, <2>1, <3>2
        <3>3. CASE x # i
            <4>1. g.e[x] = h.e[x]
                BY <1>6, <1>8, <3>1, <3>3
            <4>2. h.idx[h.e[x][1]] = x
                BY <3>1 DEF Indexed
            <4>3. h.e[x][1] # k
                BY <3>3, <4>2 DEF i
            <4>4. h.e[x][1] \in DOMAIN ScoreOf(h) /\ ScoreOf(h)[h.e[x][1]] = h.e[x][2]
                BY <3>1, ScoreOfIs
            <4>5. QED
                BY <2>1, <4>1, <4>3, <4>4
        <3>4. QED
            BY <3>2, <3>3
    <2>3. f = [x \in DOMAIN g.idx |-> f[x]]
        <3>1. DOMAIN ScoreOf(h) = DOMAIN g.idx /\ k \in DOMAIN g.idx
            BY <1>8, ScoreOfIs
        <3>2. QED
            BY <3>1 DEF Heap!Set
    <2> HIDE DEF f
    <2>4. ScoreOf(g) = f
        BY <1>10, <2>2, <2>3, IsScoreOf
    <2>5. QED
        BY <2>4 DEF f
<1>13. QED
    BY <1>5, <1>8, <1>10, <1>11, <1>12 DEF g, i

LEMMA ChangeScoreIs ==
    ASSUME NEW h, Indexed(h), Ordered(h), NEW k \in HeapKeys, NEW s \in Int
    PROVE  LET g == Heap!ChangeScore(h, k, s)
           IN  Indexed(g) /\ Ordered(g) /\ ScoreOf(g) = Heap!Set(ScoreOf(h), k, s)
<1>1. DOMAIN ScoreOf(h) = DOMAIN h.idx
    BY ScoreOfIs
<1>2. CASE k \notin DOMAIN h.idx
    <2>1. Heap!ChangeScore(h, k, s) = Heap!Insert(h, k, s)
        BY <1>2 DEF Heap!ChangeScore
    <2>2. QED
        BY <1>1, <1>2, <2>1, InsertIs
<1>3. CASE k \in DOMAIN h.idx
    <2> DEFINE i == h.idx[k]
               r == [h EXCEPT !.e[i][2] = s]
    <2>1. Heap!ChangeScore(h, k, s) = Heap!SiftDown(Heap!SiftUp(r, i), i)
        BY <1>3 DEF Heap!ChangeScore
    <2>2. /\ Indexed(r) /\ Len(r.e) = Len(h.e) /\ Near(r, i)
          /\ ScoreOf(r) = Heap!Set(ScoreOf(h), k, s)
        BY <1>3, RescoredIs
    <2>3. i \in 1 .. Len(r.e)
        BY <1>3, <2>2 DEF Indexed
    <2> HIDE DEF r, i
    <2>4. QED
        BY <2>1, <2>2, <2>3, ResiftedIs
<1>4. QED
    BY <1>2, <1>3

\* Calls the callers do not make: erasure of the last place when its score
\* equals its parent's, and construction with a key that stays there twice.
CarefulHeap == {"tie", "duplicates"} \subseteq HeapAvoids

HeapKept == Indexed(heap) /\ Ordered(heap) /\ scores = ScoreOf(heap)

LEMMA HeapSteps ==
    ASSUME CarefulHeap, HeapKept, Heap!HeapNext
    PROVE  HeapKept'
<1>1. Indexed(heap) /\ Ordered(heap) /\ scores = ScoreOf(heap)
    BY DEF HeapKept
<1>2. DOMAIN scores = DOMAIN heap.idx /\ DOMAIN heap.idx \subseteq HeapKeys
    <2>1. heap.idx \in Indices
        BY <1>1 DEF Indexed, Heaps
    <2>2. QED
        BY <1>1, <2>1, IndexIs, ScoreOfIs
<1>3. Scores \subseteq Int
    BY HeapAssumption
<1>4. ASSUME NEW k \in HeapKeys, NEW s \in Scores, Heap!HeapInsert(k, s)
      PROVE  HeapKept'
    <2>1. s \in Int
        BY <1>3
    <2>2. /\ Indexed(Heap!Insert(heap, k, s)) /\ Ordered(Heap!Insert(heap, k, s))
          /\ ScoreOf(Heap!Insert(heap, k, s)) = IF k \in DOMAIN ScoreOf(heap) THEN ScoreOf(heap)
                                                ELSE Heap!Set(ScoreOf(heap), k, s)
        BY <1>1, <2>1, InsertIs
    <2>3. heap' = Heap!Insert(heap, k, s)
        BY <1>4 DEF Heap!HeapInsert
    <2>4. scores' = IF k \in DOMAIN scores THEN scores ELSE Heap!Set(scores, k, s)
        BY <1>4 DEF Heap!HeapInsert
    <2>5. Indexed(heap') /\ Ordered(heap') /\ scores' = ScoreOf(heap')
        BY <1>1, <2>2, <2>3, <2>4, Zenon
    <2>6. QED
        BY <2>5 DEF HeapKept, Indexed, Heaps, Ordered, Above, ScoreOf
<1>5. ASSUME Heap!HeapPop
      PROVE  HeapKept'
    <2>1. Heap!Size(heap) = Len(heap.e) /\ Len(heap.e) \in Nat
        BY <1>1, HeapParts
    <2>2. CASE Len(heap.e) = 0
        <3>1. heap' = heap /\ scores' = scores
            BY <1>5, <2>1, <2>2 DEF Heap!HeapPop, Heap!Pop
        <3>2. Indexed(heap') /\ Ordered(heap') /\ scores' = ScoreOf(heap')
            BY <1>1, <3>1, Zenon
        <3>3. QED
            BY <3>2 DEF HeapKept, Indexed, Heaps, Ordered, Above, ScoreOf
    <2>3. CASE Len(heap.e) # 0
        <3>1. heap' = Heap!Pop(heap)
            BY <1>5 DEF Heap!HeapPop
        <3>2. scores' = Heap!Without(scores, Heap!Top(heap)[1])
            BY <1>5, <2>1, <2>3 DEF Heap!HeapPop
        <3>3. /\ Indexed(Heap!Pop(heap)) /\ Ordered(Heap!Pop(heap))
              /\ ScoreOf(Heap!Pop(heap)) = Heap!Without(ScoreOf(heap), Heap!Top(heap)[1])
            BY <1>1, <2>3, PopIs
        <3>4. Indexed(heap') /\ Ordered(heap') /\ scores' = ScoreOf(heap')
            BY <1>1, <3>1, <3>2, <3>3, Zenon
        <3>5. QED
            BY <3>4 DEF HeapKept, Indexed, Heaps, Ordered, Above, ScoreOf
    <2>4. QED
        BY <2>2, <2>3
<1>6. ASSUME NEW k \in HeapKeys, Heap!HeapErase(k)
      PROVE  HeapKept'
    <2>1. heap' = Heap!Erase(heap, k) /\ scores' = Heap!Without(scores, k)
        BY <1>6 DEF Heap!HeapErase
    <2>2. CASE k \notin DOMAIN heap.idx
        <3>1. heap' = heap
            BY <2>1, <2>2 DEF Heap!Erase
        <3>2. scores' = scores
            BY <1>1, <1>2, <2>1, <2>2 DEF Heap!Without, ScoreOf
        <3>3. Indexed(heap') /\ Ordered(heap') /\ scores' = ScoreOf(heap')
            BY <1>1, <3>1, <3>2, Zenon
        <3>4. QED
            BY <3>3 DEF HeapKept, Indexed, Heaps, Ordered, Above, ScoreOf
    <2>3. CASE k \in DOMAIN heap.idx
        <3>1. ~ Heap!EqualsParent(heap, k)
            BY <1>2, <1>6, <2>3 DEF Heap!HeapErase, CarefulHeap
        <3>2. /\ Indexed(Heap!Erase(heap, k)) /\ Ordered(Heap!Erase(heap, k))
              /\ ScoreOf(Heap!Erase(heap, k)) = Heap!Without(ScoreOf(heap), k)
            BY <1>1, <2>3, <3>1, EraseIs
        <3>3. Indexed(heap') /\ Ordered(heap') /\ scores' = ScoreOf(heap')
            BY <1>1, <2>1, <3>2, Zenon
        <3>4. QED
            BY <3>3 DEF HeapKept, Indexed, Heaps, Ordered, Above, ScoreOf
    <2>4. QED
        BY <2>2, <2>3
<1>7. ASSUME NEW k \in HeapKeys, NEW s \in Scores, Heap!HeapChangeScore(k, s)
      PROVE  HeapKept'
    <2>1. s \in Int
        BY <1>3
    <2>2. /\ Indexed(Heap!ChangeScore(heap, k, s)) /\ Ordered(Heap!ChangeScore(heap, k, s))
          /\ ScoreOf(Heap!ChangeScore(heap, k, s)) = Heap!Set(ScoreOf(heap), k, s)
        BY <1>1, <2>1, ChangeScoreIs
    <2>3. heap' = Heap!ChangeScore(heap, k, s) /\ scores' = Heap!Set(scores, k, s)
        BY <1>7 DEF Heap!HeapChangeScore
    <2>4. Indexed(heap') /\ Ordered(heap') /\ scores' = ScoreOf(heap')
        BY <1>1, <2>2, <2>3, Zenon
    <2>5. QED
        BY <2>4 DEF HeapKept, Indexed, Heaps, Ordered, Above, ScoreOf
<1>8. QED
    BY <1>4, <1>5, <1>6, <1>7, Zenon DEF Heap!HeapNext

\* Construction: sorted by score, the vector is in heap order.
Ascending(e) == \A i, j \in 1 .. Len(e) : i < j => e[i][2] =< e[j][2]

Keeps(f, n, list) ==
    f = [m \in 0 .. n |->
            IF m = 0 THEN <<>>
            ELSE IF f[m - 1] # <<>> /\ Heap!Last(f[m - 1])[1] = list[m][1] THEN f[m - 1]
            ELSE Append(f[m - 1], list[m])]

LEMMA KeepsExist ==
    ASSUME NEW n \in Nat, NEW list
    PROVE  \E f : Keeps(f, n, list)
<1> DEFINE P == {k \in 0 .. n : \E f : Keeps(f, k, list)}
<1>1. 0 \in P
    <2>1. Keeps([k \in 0 .. 0 |-> <<>>], 0, list)
        BY DEF Keeps
    <2>2. QED
        BY <2>1
<1>2. ASSUME NEW i \in 0 .. n - 1, i \in P PROVE i + 1 \in P
    <2>1. PICK f : Keeps(f, i, list)
        BY <1>2
    <2> DEFINE next(m) == IF f[m - 1] # <<>> /\ Heap!Last(f[m - 1])[1] = list[m][1] THEN f[m - 1]
                          ELSE Append(f[m - 1], list[m])
               longer == [m \in 0 .. i + 1 |-> IF m = 0 THEN <<>> ELSE next(m)]
    <2>2. \A k \in 0 .. i : longer[k] = f[k]
        <3>1. f = [m \in 0 .. i |-> IF m = 0 THEN <<>> ELSE next(m)]
            BY <2>1, Zenon DEF Keeps
        <3> HIDE DEF next
        <3>2. QED
            BY <3>1
    <2>3. ASSUME NEW k \in 0 .. i + 1, k # 0 PROVE longer[k - 1] = f[k - 1]
        <3>1. k - 1 \in 0 .. i
            BY <1>2, <2>3
        <3>2. QED
            BY <2>2, <3>1
    <2>4. Keeps(longer, i + 1, list)
        BY <2>3 DEF Keeps
    <2>5. QED
        BY <1>2, <2>4
<1> HIDE DEF P
<1>3. \A i \in 0 .. n : i \in P
    BY <1>1, <1>2, Induction, Zenon
<1>4. n \in P
    BY <1>3
<1>5. QED
    BY <1>4 DEF P

LEMMA UniqueIs ==
    ASSUME NEW list \in Seq(Pairs), Ascending(list)
    PROVE  Heap!Unique(list) \in Seq(Pairs) /\ Ascending(Heap!Unique(list))
<1> DEFINE N == Len(list)
<1>1. N \in Nat
    OBVIOUS
<1>2. PICK f : Keeps(f, N, list) /\ Heap!Unique(list) = f[N]
    <2>1. Heap!Unique(list) = (CHOOSE f : Keeps(f, N, list))[N]
        BY DEF Heap!Unique, Keeps
    <2>2. Keeps(CHOOSE f : Keeps(f, N, list), N, list)
        BY <1>1, KeepsExist, Zenon
    <2>3. QED
        BY <2>1, <2>2
<1> HIDE DEF N
<1>3. f = [m \in 0 .. N |->
              IF m = 0 THEN <<>>
              ELSE IF f[m - 1] # <<>> /\ Heap!Last(f[m - 1])[1] = list[m][1] THEN f[m - 1]
              ELSE Append(f[m - 1], list[m])]
    BY <1>2, Zenon DEF Keeps
<1>4. f[0] = <<>>
    BY <1>1, <1>3
<1>5. ASSUME NEW m \in 0 .. N - 1
      PROVE  f[m + 1] \in {f[m], Append(f[m], list[m + 1])}
    <2>1. m + 1 \in 0 .. N /\ m + 1 # 0 /\ (m + 1) - 1 = m
        BY <1>1
    <2>2. QED
        BY <1>3, <2>1
<1> DEFINE Good(e, m) == /\ e \in Seq(Pairs) /\ Ascending(e)
                         /\ \A i \in 1 .. Len(e), j \in 1 .. N : m < j => e[i][2] =< list[j][2]
           P == {m \in 0 .. N : Good(f[m], m)}
<1>6. 0 \in P
    <2>1. Good(<<>>, 0)
        BY DEF Ascending
    <2> HIDE DEF Good
    <2>2. 0 \in 0 .. N /\ Good(f[0], 0)
        BY <1>1, <1>4, <2>1
    <2>3. QED
        BY <2>2
<1>7. ASSUME NEW m \in 0 .. N - 1, m \in P PROVE m + 1 \in P
    <2> DEFINE e == f[m]
               x == list[m + 1]
    <2>1. m \in Nat /\ m + 1 \in 0 .. N /\ m + 1 \in 1 .. N /\ m < m + 1
        BY <1>1
    <2>2. e \in Seq(Pairs) /\ Ascending(e)
        BY <1>7
    <2>3. \A i \in 1 .. Len(e), j \in 1 .. N : m < j => e[i][2] =< list[j][2]
        BY <1>7
    <2>4. x \in Pairs
        BY <2>1 DEF N
    <2>5. \A j \in 1 .. N : m + 1 < j => x[2] =< list[j][2]
        BY <2>1 DEF Ascending, N
    <2>6. Len(e) \in Nat
        BY <2>2
    <2> HIDE DEF x, e
    <2>7. CASE f[m + 1] = e
        <3>1. \A i \in 1 .. Len(e), j \in 1 .. N : m + 1 < j => e[i][2] =< list[j][2]
            BY <1>1, <2>1, <2>3
        <3>2. QED
            BY <2>1, <2>2, <2>7, <3>1
    <2>8. CASE f[m + 1] = Append(e, x)
        <3> DEFINE a == Append(e, x)
        <3>1. /\ a \in Seq(Pairs) /\ Len(a) = Len(e) + 1 /\ a[Len(e) + 1] = x
              /\ \A i \in 1 .. Len(e) : a[i] = e[i]
            BY <2>2, <2>4
        <3> HIDE DEF a
        <3>2. \A i \in 1 .. Len(e) : e[i][2] =< x[2]
            BY <2>1, <2>3 DEF x
        <3>3. Ascending(a)
            <4>1. ASSUME NEW i \in 1 .. Len(a), NEW j \in 1 .. Len(a), i < j
                  PROVE  a[i][2] =< a[j][2]
                <5>1. i \in 1 .. Len(e) /\ a[i] = e[i]
                    BY <2>6, <3>1, <4>1
                <5>2. CASE j \in 1 .. Len(e)
                    BY <2>2, <3>1, <4>1, <5>1, <5>2 DEF Ascending
                <5>3. CASE j = Len(e) + 1
                    BY <3>1, <3>2, <5>1, <5>3
                <5>4. QED
                    BY <2>6, <3>1, <5>2, <5>3
            <4>2. QED
                BY <4>1 DEF Ascending
        <3>4. ASSUME NEW i \in 1 .. Len(a), NEW j \in 1 .. N, m + 1 < j
              PROVE  a[i][2] =< list[j][2]
            <4>1. CASE i \in 1 .. Len(e)
                <5>1. m < j
                    BY <2>1, <3>4
                <5>2. QED
                    BY <2>3, <3>1, <4>1, <5>1
            <4>2. CASE i = Len(e) + 1
                BY <2>5, <3>1, <3>4, <4>2
            <4>3. QED
                BY <2>6, <3>1, <4>1, <4>2
        <3>5. Good(f[m + 1], m + 1)
            BY <2>8, <3>1, <3>3, <3>4 DEF a
        <3>6. QED
            BY <2>1, <3>5
    <2>9. QED
        BY <1>5, <2>7, <2>8 DEF e, x
<1> HIDE DEF P
<1>8. \A m \in 0 .. N : m \in P
    BY <1>1, <1>6, <1>7, Induction, Zenon
<1>9. Good(f[N], N)
    BY <1>1, <1>8 DEF P
<1>10. QED
    BY <1>2, <1>9

Distinct(e) == \A i, j \in 1 .. Len(e) : e[i][1] = e[j][1] => i = j

KeysOf(e) == {e[i][1] : i \in 1 .. Len(e)}

LEMMA SameCardinality ==
    ASSUME NEW S
    PROVE  Heap!Cardinality(S) = Cardinality(S)
BY Zenon DEF Heap!Cardinality, Cardinality

LEMMA CountUpTo ==
    ASSUME NEW n \in Nat
    PROVE  IsFiniteSet(1 .. n) /\ Cardinality(1 .. n) = n
<1>1. 1 \in Int /\ n \in Int
    OBVIOUS
<1>2. IsFiniteSet(1 .. n) /\ Cardinality(1 .. n) = IF 1 > n THEN 0 ELSE n - 1 + 1
    BY <1>1, FS_Interval
<1>3. QED
    BY <1>2

\* As many keys as places: no key is there twice.
LEMMA AsManyIsDistinct ==
    ASSUME NEW e \in Seq(Pairs), Cardinality(KeysOf(e)) = Len(e)
    PROVE  Distinct(e)
<1> DEFINE n == Len(e)
           f == [i \in 1 .. n |-> e[i][1]]
<1>1. n \in Nat
    OBVIOUS
<1>2. f \in Surjection(1 .. n, KeysOf(e))
    BY DEF Surjection, KeysOf
<1>3. IsFiniteSet(1 .. n) /\ Cardinality(1 .. n) = n
    BY <1>1, CountUpTo
<1> HIDE DEF f
<1>4. f \in Injection(1 .. n, KeysOf(e))
    BY <1>2, <1>3, FS_SurjSameCardinalityImpliesInj
<1>5. QED
    BY <1>4 DEF Injection, IsInjective, Distinct, f

LEMMA DistinctAreAsMany ==
    ASSUME NEW e \in Seq(Pairs), Distinct(e)
    PROVE  Cardinality(KeysOf(e)) = Len(e)
<1> DEFINE n == Len(e)
           f == [i \in 1 .. n |-> e[i][1]]
<1>1. n \in Nat
    OBVIOUS
<1>2. f \in Surjection(1 .. n, KeysOf(e))
    BY DEF Surjection, KeysOf
<1>3. f \in Injection(1 .. n, KeysOf(e))
    BY <1>2 DEF Injection, Surjection, IsInjective, Distinct
<1>4. IsFiniteSet(1 .. n) /\ Cardinality(1 .. n) = n
    BY <1>1, CountUpTo
<1> HIDE DEF f
<1>5. QED
    BY <1>2, <1>3, <1>4, FS_Surjection

LEMMA BuildIndexIs ==
    ASSUME NEW e \in Seq(Pairs), Distinct(e)
    PROVE  /\ DOMAIN Heap!BuildIndex(e) = KeysOf(e)
           /\ \A i \in 1 .. Len(e) : Heap!BuildIndex(e)[e[i][1]] = i
           /\ Heap!BuildIndex(e) = [k \in KeysOf(e) |-> Heap!BuildIndex(e)[k]]
<1> DEFINE Last(i, k) == e[i][1] = k /\ \A j \in DOMAIN e : e[j][1] = k => j =< i
<1>1. DOMAIN e = 1 .. Len(e) /\ Len(e) \in Nat
    OBVIOUS
<1>2. Heap!BuildIndex(e) = [k \in KeysOf(e) |-> CHOOSE i \in DOMAIN e : Last(i, k)]
    BY <1>1, Zenon DEF Heap!BuildIndex, KeysOf
<1>3. ASSUME NEW i \in 1 .. Len(e) PROVE (CHOOSE j \in DOMAIN e : Last(j, e[i][1])) = i
    <2>1. i \in DOMAIN e /\ Last(i, e[i][1])
        BY <1>1 DEF Distinct
    <2>2. \A j \in DOMAIN e : Last(j, e[i][1]) => j = i
        BY <1>1 DEF Distinct
    <2> HIDE DEF Last
    <2>3. QED
        BY <2>1, <2>2, Zenon
<1> HIDE DEF Last
<1>4. ASSUME NEW i \in 1 .. Len(e) PROVE Heap!BuildIndex(e)[e[i][1]] = i
    <2>1. e[i][1] \in KeysOf(e)
        BY DEF KeysOf
    <2>2. Heap!BuildIndex(e)[e[i][1]] = CHOOSE j \in DOMAIN e : Last(j, e[i][1])
        BY <1>2, <2>1, Zenon
    <2>3. QED
        BY <1>3, <2>2, Zenon
<1>5. DOMAIN Heap!BuildIndex(e) = KeysOf(e)
    BY <1>2, Zenon
<1>6. Heap!BuildIndex(e) = [k \in KeysOf(e) |-> Heap!BuildIndex(e)[k]]
    BY <1>2
<1>7. QED
    BY <1>4, <1>5, <1>6

LEMMA HeapStarts ==
    ASSUME CarefulHeap, Heap!HeapInit
    PROVE  HeapKept
<1>1. PICK list \in HeapLists : \E sorted \in Heap!Sorted(list) :
          /\ heap = Heap!BuildHeap(sorted)
          /\ scores = [k \in DOMAIN heap.idx |-> heap.e[heap.idx[k]][2]]
          /\ "duplicates" \in HeapAvoids => Heap!Cardinality(DOMAIN scores) = Heap!Size(heap)
    BY Zenon DEF Heap!HeapInit
<1>2. PICK sorted \in Heap!Sorted(list) :
          /\ heap = Heap!BuildHeap(sorted)
          /\ scores = [k \in DOMAIN heap.idx |-> heap.e[heap.idx[k]][2]]
          /\ "duplicates" \in HeapAvoids => Heap!Cardinality(DOMAIN scores) = Heap!Size(heap)
    BY <1>1
<1>3. list \in Seq(Pairs) /\ Len(list) \in Nat /\ DOMAIN list = 1 .. Len(list)
    BY HeapAssumption DEF Pairs
<1>4. sorted \in Seq(Pairs) /\ Ascending(sorted)
    <2> DEFINE D == DOMAIN list
    <2>1. PICK q \in [D -> D] :
              /\ sorted = [i \in D |-> list[q[i]]]
              /\ \A i, j \in D : i < j => list[q[i]][2] =< list[q[j]][2]
        BY DEF Heap!Sorted
    <2>2. \A i \in 1 .. Len(list) : q[i] \in 1 .. Len(list) /\ list[q[i]] \in Pairs
        BY <1>3, <2>1
    <2>3. sorted = [i \in 1 .. Len(list) |-> list[q[i]]]
        BY <1>3, <2>1
    <2>4. sorted \in Seq(Pairs) /\ Len(sorted) = Len(list)
        BY <1>3, <2>2, <2>3
    <2>5. \A i, j \in 1 .. Len(list) : i < j => list[q[i]][2] =< list[q[j]][2]
        BY <1>3, <2>1
    <2>6. Ascending(sorted)
        BY <2>3, <2>4, <2>5 DEF Ascending
    <2>7. QED
        BY <2>4, <2>6
<1> DEFINE e == Heap!Unique(sorted)
<1>5. e \in Seq(Pairs) /\ Ascending(e)
    BY <1>4, UniqueIs
<1>6. Len(e) \in Nat /\ DOMAIN e = 1 .. Len(e) /\ \A i \in 1 .. Len(e) : e[i] \in Pairs
    BY <1>5
<1>7. heap = [e |-> e, idx |-> Heap!BuildIndex(e), past |-> 0, ok |-> TRUE]
    BY <1>2, Zenon DEF Heap!BuildHeap
<1> HIDE DEF e
<1>8. heap.e = e /\ heap.idx = Heap!BuildIndex(e) /\ heap.past = 0 /\ heap.ok = TRUE
    BY <1>7
<1>9. Distinct(e)
    <2>1. DOMAIN scores = KeysOf(e)
        BY <1>2, <1>6, <1>8 DEF Heap!BuildIndex, KeysOf
    <2>2. Cardinality(DOMAIN scores) = Len(e)
        BY <1>2, <1>8, SameCardinality DEF CarefulHeap, Heap!Size
    <2>3. QED
        BY <1>5, <2>1, <2>2, AsManyIsDistinct
<1>10. /\ DOMAIN heap.idx = KeysOf(e)
       /\ \A i \in 1 .. Len(e) : heap.idx[e[i][1]] = i
       /\ heap.idx = [k \in KeysOf(e) |-> heap.idx[k]]
    BY <1>5, <1>8, <1>9, BuildIndexIs
<1>11. \A i \in 1 .. Len(e) : e[i][1] \in HeapKeys /\ e[i][1] \in KeysOf(e)
    BY <1>6 DEF Pairs, KeysOf
<1>12. \A k \in KeysOf(e) : heap.idx[k] \in 1 .. Len(e) /\ e[heap.idx[k]][1] = k
    BY <1>10 DEF KeysOf
<1>13. heap.idx \in Indices
    <2>1. KeysOf(e) \in SUBSET HeapKeys
        BY <1>11 DEF KeysOf
    <2>2. \A k \in KeysOf(e) : heap.idx[k] \in Nat
        BY <1>6, <1>12
    <2>3. heap.idx \in [KeysOf(e) -> Nat]
        BY <1>10, <2>2
    <2>4. QED
        BY <2>1, <2>3, IsIndex
<1>14. heap \in Heaps
    BY <1>5, <1>7, <1>8, <1>13 DEF Heaps
<1>15. Indexed(heap)
    BY <1>8, <1>10, <1>11, <1>12, <1>14 DEF Indexed
<1>16. Ordered(heap)
    <2>1. ASSUME NEW i \in 2 .. Len(e) PROVE Above(heap, i)
        <3>1. i \in Nat /\ i \in 1 .. Len(e)
            BY <1>6
        <3>2. Heap!Parent(i) \in 1 .. Len(e) /\ Heap!Parent(i) < i
            BY <1>6, <3>1, ParentIs
        <3>3. QED
            BY <1>5, <1>8, <3>1, <3>2 DEF Ascending, Above
    <2>2. QED
        BY <1>8, <2>1 DEF Ordered
<1>17. scores = ScoreOf(heap)
    BY <1>2 DEF ScoreOf
<1>18. QED
    BY <1>15, <1>16, <1>17 DEF HeapKept

LEMMA TopIsLeast ==
    ASSUME NEW h, Indexed(h), Ordered(h), NEW i \in 1 .. Len(h.e)
    PROVE  h.e[1][2] =< h.e[i][2]
<1> DEFINE T == {j \in 1 .. Len(h.e) : ~ (h.e[1][2] =< h.e[j][2])}
<1>1. Len(h.e) \in Nat
    BY HeapParts
<1>2. \A j \in 1 .. Len(h.e) : h.e[j][2] \in Int
    BY HeapParts
<1>3. SUFFICES ASSUME T # {} PROVE FALSE
    OBVIOUS
<1>4. T \in SUBSET Nat
    BY <1>1
<1>5. PICK m \in T : \A j \in T : m =< j
    BY <1>3, <1>4, LeastElement
<1>6. m \in 1 .. Len(h.e) /\ ~ (h.e[1][2] =< h.e[m][2])
    BY <1>5
<1>7. m # 1 /\ 1 \in 1 .. Len(h.e)
    BY <1>1, <1>2, <1>6
<1>8. m \in Nat /\ m \in 2 .. Len(h.e)
    BY <1>1, <1>6, <1>7
<1> DEFINE p == Heap!Parent(m)
<1>9. p \in 1 .. Len(h.e) /\ p < m
    BY <1>1, <1>8, ParentIs
<1>10. h.e[p][2] =< h.e[m][2]
    BY <1>8 DEF Ordered, Above
<1> HIDE DEF p
<1>11. p \notin T
    BY <1>1, <1>5, <1>8, <1>9
<1>12. h.e[1][2] =< h.e[p][2]
    BY <1>9, <1>11
<1>13. QED
    BY <1>2, <1>6, <1>7, <1>9, <1>10, <1>12

LEMMA HeapHoldsWhatWasPut ==
    ASSUME HeapKept
    PROVE  Heap!HeapAgrees
<1> DEFINE n == Len(heap.e)
<1>1. Indexed(heap) /\ Ordered(heap) /\ scores = ScoreOf(heap)
    BY DEF HeapKept
<1>2. /\ heap \in Heaps /\ heap.ok = TRUE /\ heap.e \in Seq(Pairs) /\ n \in Nat
      /\ DOMAIN heap.e = 1 .. n /\ Heap!Size(heap) = n
    BY <1>1, HeapParts
<1>3. \A i \in 1 .. n :
          /\ Heap!ScoreAt(heap, i) = heap.e[i][2] /\ heap.e[i][2] \in Int
          /\ heap.e[i] = <<heap.e[i][1], heap.e[i][2]>>
    BY <1>1, HeapParts
<1>4. \A i \in 1 .. n : heap.e[i][1] \in DOMAIN heap.idx /\ heap.idx[heap.e[i][1]] = i
    BY <1>1 DEF Indexed
<1>5. \A k \in DOMAIN heap.idx : heap.idx[k] \in 1 .. n /\ heap.e[heap.idx[k]][1] = k
    BY <1>1 DEF Indexed
<1>6. /\ DOMAIN scores = DOMAIN heap.idx
      /\ \A i \in 1 .. n : scores[heap.e[i][1]] = heap.e[i][2]
    BY <1>1, ScoreOfIs
<1>7. Distinct(heap.e)
    BY <1>4 DEF Distinct
<1>8. DOMAIN scores = KeysOf(heap.e)
    BY <1>4, <1>5, <1>6 DEF KeysOf
<1>9. Heap!ToSet(heap.e) = {<<k, scores[k]>> : k \in DOMAIN scores}
    <2>1. ASSUME NEW i \in 1 .. n PROVE heap.e[i] \in {<<k, scores[k]>> : k \in DOMAIN scores}
        <3>1. heap.e[i][1] \in DOMAIN scores /\ heap.e[i] = <<heap.e[i][1], scores[heap.e[i][1]]>>
            BY <1>3, <1>4, <1>6
        <3>2. QED
            BY <3>1
    <2>2. ASSUME NEW k \in DOMAIN scores PROVE \E i \in 1 .. n : heap.e[i] = <<k, scores[k]>>
        <3>1. heap.idx[k] \in 1 .. n /\ heap.e[heap.idx[k]][1] = k
            BY <1>5, <1>6
        <3>2. heap.e[heap.idx[k]] = <<k, scores[k]>>
            BY <1>3, <1>6, <3>1
        <3>3. QED
            BY <3>1, <3>2
    <2>3. Heap!ToSet(heap.e) = {heap.e[i] : i \in 1 .. n}
        BY <1>2 DEF Heap!ToSet
    <2>4. QED
        BY <2>1, <2>2, <2>3
<1>10. Heap!Size(heap) = Heap!Cardinality(DOMAIN scores)
    BY <1>2, <1>7, <1>8, DistinctAreAsMany, SameCardinality
<1>11. heap.idx = Heap!BuildIndex(heap.e)
    <2>1. /\ DOMAIN Heap!BuildIndex(heap.e) = KeysOf(heap.e)
          /\ \A i \in 1 .. n : Heap!BuildIndex(heap.e)[heap.e[i][1]] = i
          /\ Heap!BuildIndex(heap.e) = [k \in KeysOf(heap.e) |-> Heap!BuildIndex(heap.e)[k]]
        BY <1>2, <1>7, BuildIndexIs
    <2>2. heap.idx = [k \in KeysOf(heap.e) |-> heap.idx[k]]
        <3>1. heap.idx \in Indices
            BY <1>2 DEF Heaps
        <3>2. heap.idx \in [DOMAIN heap.idx -> Nat]
            BY <3>1, IndexIs
        <3>3. QED
            BY <1>6, <1>8, <3>2
    <2>3. \A k \in KeysOf(heap.e) : heap.idx[k] = Heap!BuildIndex(heap.e)[k]
        BY <1>4, <2>1 DEF KeysOf
    <2>4. QED
        BY <2>1, <2>2, <2>3
<1>12. \A i \in 2 .. n :
           /\ i \in 1 .. n /\ Heap!Parent(i) \in 1 .. n
           /\ heap.e[Heap!Parent(i)][2] =< heap.e[i][2]
    <2>1. ASSUME NEW i \in 2 .. n
          PROVE  /\ i \in 1 .. n /\ Heap!Parent(i) \in 1 .. n
                 /\ heap.e[Heap!Parent(i)][2] =< heap.e[i][2]
        <3>1. i \in Nat /\ i \in 1 .. n
            BY <1>2
        <3>2. Heap!Parent(i) \in 1 .. n
            BY <1>2, <3>1, ParentIs
        <3>3. QED
            BY <1>1, <3>1, <3>2 DEF Ordered, Above
    <2>2. QED
        BY <2>1
<1>13. \A i \in 2 .. Heap!Size(heap) :
           Heap!ScoreAt(heap, Heap!Parent(i)) =< Heap!ScoreAt(heap, i)
    BY <1>2, <1>3, <1>12
<1>14. \A k \in DOMAIN scores : Heap!Top(heap)[2] =< scores[k]
    <2>1. ASSUME NEW k \in DOMAIN scores PROVE heap.e[1][2] =< scores[k]
        <3>1. heap.idx[k] \in 1 .. n /\ heap.e[heap.idx[k]][1] = k
            BY <1>5, <1>6
        <3>2. heap.e[1][2] =< heap.e[heap.idx[k]][2]
            BY <1>1, <3>1, TopIsLeast
        <3>3. QED
            BY <1>6, <3>1, <3>2
    <2>2. QED
        BY <2>1 DEF Heap!Top
<1>15. ASSUME Heap!IsInjective(scores) PROVE Heap!MinHeapPropertyKept(heap)
    <2>1. SUFFICES ASSUME NEW i \in DOMAIN heap.e,
                          NEW c \in {Heap!Left(i), Heap!Right(i)} \cap DOMAIN heap.e
                   PROVE  Heap!ScoreAt(heap, i) < Heap!ScoreAt(heap, c)
        BY DEF Heap!MinHeapPropertyKept
    <2>2. i \in Nat /\ 1 =< i /\ i \in 1 .. n /\ c \in 1 .. n
        BY <1>2
    <2>3. 2 =< c /\ i < c /\ Heap!Parent(c) = i
        BY <2>2, ChildIs
    <2>4. c \in 2 .. n
        BY <1>2, <2>2, <2>3
    <2>5. heap.e[i][2] =< heap.e[c][2]
        BY <1>12, <2>3, <2>4
    <2>6. heap.e[i][2] # heap.e[c][2]
        <3>1. heap.e[i][1] # heap.e[c][1]
            BY <1>7, <2>2, <2>3 DEF Distinct
        <3>2. heap.e[i][1] \in DOMAIN scores /\ heap.e[c][1] \in DOMAIN scores
            BY <1>4, <1>6, <2>2
        <3>3. scores[heap.e[i][1]] # scores[heap.e[c][1]]
            BY <1>15, <3>1, <3>2 DEF Heap!IsInjective
        <3>4. QED
            BY <1>6, <2>2, <3>3
    <2>7. QED
        BY <1>3, <2>2, <2>5, <2>6
<1>16. QED
    BY <1>2, <1>9, <1>10, <1>11, <1>13, <1>14, <1>15, Zenon DEF Heap!HeapAgrees

HeapInv == which = "heap" => HeapKept

LEMMA HeapStart ==
    ASSUME CarefulHeap, ArraysInit
    PROVE  HeapInv
BY HeapStarts DEF ArraysInit, HeapInv

LEMMA HeapStep ==
    ASSUME CarefulHeap, HeapInv, [ArraysNext]_arraysVars
    PROVE  HeapInv'
<1>1. CASE ArraysNext
    <2>1. which' = which
        BY <1>1 DEF ArraysNext
    <2>2. CASE which = "heap" /\ Heap!HeapNext
        <3>1. HeapKept'
            BY <2>2, HeapSteps DEF HeapInv
        <3>2. QED
            BY <3>1 DEF HeapInv
    <2>3. CASE which # "heap"
        BY <2>1, <2>3 DEF HeapInv
    <2>4. QED
        BY <1>1, <2>2, <2>3 DEF ArraysNext
<1>2. CASE UNCHANGED arraysVars
    BY <1>2 DEF arraysVars, arrays, HeapInv, HeapKept, Indexed, Heaps, Ordered, Above, ScoreOf
<1>3. QED
    BY <1>1, <1>2

\* For any keys, scores and lists to start from, and callers that avoid what
\* HeapAvoids names: vector and index stay one heap of the keys put in, each
\* with its last score, the least on top, through every swap of siftUp and
\* siftDown.
THEOREM HeapAlwaysAgrees ==
    ASSUME CarefulHeap
    PROVE  ArraysSpec => []HeapAgrees
<1>1. ArraysInit => HeapInv
    BY HeapStart
<1>2. HeapInv /\ [ArraysNext]_arraysVars => HeapInv'
    BY HeapStep
<1>3. HeapInv => HeapAgrees
    BY HeapHoldsWhatWasPut DEF HeapInv, HeapAgrees
<1>4. QED
    BY <1>1, <1>2, <1>3, PTL DEF ArraysSpec

-----------------------------------------------------------------------------
(* Hash table: what its buckets hold. *)

\* The N chains of b hold the keys of S, each once, by their hashes.
Stores(b, N, S) ==
    /\ b \in [0 .. N - 1 -> Seq(HashKeys)]
    /\ \A i \in 0 .. N - 1 :
         /\ \A j, l \in 1 .. Len(b[i]) : b[i][j] = b[i][l] => j = l
         /\ \A j \in 1 .. Len(b[i]) : b[i][j] % N = i
    /\ \A k \in HashKeys : k \in S <=> Hash!Contains(b[k % N], k)

Tables(N) == [b : [0 .. N - 1 -> Seq(HashKeys)], n : Nat, ok : BOOLEAN]

\* t is intact, holds the keys of S and is large enough for them.
Tabled(t, N, S) ==
    /\ t \in Tables(N) /\ t.ok
    /\ Stores(t.b, N, S)
    /\ S \in SUBSET HashKeys /\ IsFiniteSet(S)
    /\ t.n = Cardinality(S)
    /\ t.n =< N \/ N = Hash!Last(PrimesList)

LEMMA BucketsReplaced ==
    ASSUME NEW N, NEW t \in Tables(N), t.ok, NEW M, NEW c \in [0 .. M - 1 -> Seq(HashKeys)]
    PROVE  /\ [t EXCEPT !.b = c] \in Tables(M)
           /\ [t EXCEPT !.b = c].b = c
           /\ [t EXCEPT !.b = c].n = t.n
           /\ [t EXCEPT !.b = c].ok
BY DEF Tables

LEMMA ChainReplaced ==
    ASSUME NEW N, NEW t \in Tables(N), t.ok, NEW i \in 0 .. N - 1, NEW c \in Seq(HashKeys), NEW n \in Nat
    PROVE  /\ [t EXCEPT !.b[i] = c, !.n = n] \in Tables(N)
           /\ [t EXCEPT !.b[i] = c, !.n = n].b = [t.b EXCEPT ![i] = c]
           /\ [t EXCEPT !.b[i] = c, !.n = n].n = n
           /\ [t EXCEPT !.b[i] = c, !.n = n].ok
BY DEF Tables

LEMMA ModIs ==
    ASSUME NEW k \in Nat, NEW N \in Nat \ {0}
    PROVE  k % N \in 0 .. N - 1
OBVIOUS

LEMMA BucketOf ==
    ASSUME NEW k \in HashKeys, NEW N \in Nat \ {0}
    PROVE  k % N \in 0 .. N - 1 /\ k % N \in Int
<1>1. k \in Nat
    BY HashAssumption
<1>2. QED
    BY <1>1, ModIs

LEMMA BucketsIs ==
    ASSUME NEW t, NEW N \in Nat \ {0}, NEW S, Stores(t.b, N, S)
    PROVE  Hash!Buckets(t) = N
<1>1. DOMAIN t.b = 0 .. N - 1 /\ 0 \in Int /\ N - 1 \in Int
    BY DEF Stores
<1>2. Cardinality(0 .. N - 1) = N
    BY <1>1, FS_Interval
<1>3. Hash!Cardinality(0 .. N - 1) = Cardinality(0 .. N - 1)
    BY Zenon DEF Hash!Cardinality, Cardinality, Hash!IsFiniteSet, IsFiniteSet
<1>4. QED
    BY <1>1, <1>2, <1>3 DEF Hash!Buckets

LEMMA ChainIs ==
    ASSUME NEW t, NEW N \in Nat \ {0}, NEW S, Stores(t.b, N, S), NEW k \in HashKeys
    PROVE  /\ Hash!BucketNum(k, Hash!Buckets(t)) = k % N
           /\ Hash!ChainOf(t, k) = t.b[k % N]
           /\ t.b[k % N] \in Seq(HashKeys)
           /\ k % N \in 0 .. N - 1
<1>1. Hash!Buckets(t) = N
    BY BucketsIs
<1>2. k % N \in 0 .. N - 1
    BY BucketOf
<1>3. t.b[k % N] \in Seq(HashKeys)
    BY <1>2 DEF Stores
<1>4. QED
    BY <1>1, <1>2, <1>3 DEF Hash!BucketNum, Hash!ChainOf

LEMMA NextPrimeIs ==
    ASSUME NEW n \in Nat
    PROVE  /\ Hash!NextPrime(n) \in Nat \ {0}
           /\ n =< Hash!NextPrime(n) \/ Hash!NextPrime(n) = Hash!Last(PrimesList)
<1> DEFINE enough == {i \in DOMAIN PrimesList : PrimesList[i] >= n}
<1>1. Len(PrimesList) \in Nat /\ Len(PrimesList) # 0 /\ DOMAIN PrimesList = 1 .. Len(PrimesList)
    BY HashAssumption
<1>2. \A i \in DOMAIN PrimesList : PrimesList[i] \in Nat \ {0}
    BY HashAssumption
<1>3. CASE enough = {}
    <2>1. Hash!NextPrime(n) = Hash!Last(PrimesList)
        BY <1>3 DEF Hash!NextPrime
    <2>2. Hash!Last(PrimesList) = PrimesList[Len(PrimesList)] /\ Len(PrimesList) \in DOMAIN PrimesList
        BY <1>1 DEF Hash!Last
    <2>3. QED
        BY <1>2, <2>1, <2>2
<1>4. CASE enough # {}
    <2>1. enough \in SUBSET Nat
        BY <1>1
    <2>2. \E i \in enough : \A j \in enough : i =< j
        BY <1>4, <2>1, LeastElement
    <2> DEFINE least == CHOOSE i \in enough : \A j \in enough : i =< j
    <2>3. least \in enough
        BY <2>2
    <2>4. Hash!NextPrime(n) = PrimesList[least]
        BY <1>4 DEF Hash!NextPrime
    <2>5. least \in DOMAIN PrimesList /\ PrimesList[least] >= n
        BY <2>3
    <2> HIDE DEF least
    <2>6. QED
        BY <1>2, <2>4, <2>5
<1>5. QED
    BY <1>3, <1>4

LEMMA NothingStored ==
    ASSUME NEW N \in Nat \ {0}
    PROVE  Stores([i \in 0 .. N - 1 |-> <<>>], N, {})
<1>1. \A k \in HashKeys : ~ Hash!Contains(<<>>, k)
    BY DEF Hash!Contains
<1>2. QED
    BY <1>1, BucketOf DEF Stores

\* The chains with k pushed to the head of its own.
Push(b, N, k) == [b EXCEPT ![k % N] = <<k>> \o @]

LEMMA PushStores ==
    ASSUME NEW N \in Nat \ {0}, NEW b, NEW S, Stores(b, N, S), NEW k \in HashKeys, k \notin S
    PROVE  Stores(Push(b, N, k), N, S \cup {k})
<1> DEFINE c == b[k % N]
           d == <<k>> \o c
           new == Push(b, N, k)
<1>1. k % N \in 0 .. N - 1 /\ c \in Seq(HashKeys) /\ Len(c) \in Nat
    BY BucketOf DEF Stores
<1>2. /\ d \in Seq(HashKeys) /\ Len(d) = Len(c) + 1 /\ d[1] = k
      /\ \A j \in 2 .. Len(d) : j - 1 \in 1 .. Len(c) /\ d[j] = c[j - 1]
    BY <1>1
<1>3. \A i \in 0 .. N - 1 : new[i] = IF i = k % N THEN d ELSE b[i]
    BY DEF Stores, Push
<1>4. new \in [0 .. N - 1 -> Seq(HashKeys)]
    BY <1>1, <1>2 DEF Stores, Push
<1>5. \A j \in 1 .. Len(c) : c[j] # k
    BY <1>1 DEF Stores, Hash!Contains
<1>6. \A j, l \in 1 .. Len(c) : c[j] = c[l] => j = l
    BY <1>1 DEF Stores
<1> HIDE DEF c, d, new
<1>7. \A j, l \in 1 .. Len(d) : d[j] = d[l] => j = l
    <2>1. \A j \in 2 .. Len(d) : d[j] # k
        BY <1>2, <1>5
    <2>2. ASSUME NEW j \in 2 .. Len(d), NEW l \in 2 .. Len(d), d[j] = d[l] PROVE j = l
        <3>1. j - 1 = l - 1
            BY <1>2, <1>6, <2>2
        <3>2. QED
            BY <3>1
    <2>3. QED
        BY <1>1, <1>2, <2>1, <2>2
<1>8. \A j \in 1 .. Len(d) : d[j] % N = k % N
    <2>1. \A j \in 1 .. Len(c) : c[j] % N = k % N
        BY <1>1 DEF Stores, c
    <2>2. QED
        BY <1>1, <1>2, <2>1
<1>9. ASSUME NEW i \in 0 .. N - 1
      PROVE  /\ \A j, l \in 1 .. Len(new[i]) : new[i][j] = new[i][l] => j = l
             /\ \A j \in 1 .. Len(new[i]) : new[i][j] % N = i
    <2>1. CASE i = k % N
        BY <1>3, <1>7, <1>8, <2>1
    <2>2. CASE i # k % N
        BY <1>3, <2>2 DEF Stores
    <2>3. QED
        BY <2>1, <2>2
<1>10. ASSUME NEW m \in HashKeys
       PROVE  m \in S \cup {k} <=> Hash!Contains(new[m % N], m)
    <2>1. m % N \in 0 .. N - 1
        BY BucketOf
    <2>2. CASE m % N # k % N
        BY <1>3, <2>1, <2>2 DEF Stores
    <2>3. CASE m % N = k % N
        <3>1. new[m % N] = d /\ (m \in S <=> \E j \in 1 .. Len(c) : c[j] = m)
            BY <1>3, <2>1, <2>3 DEF Stores, Hash!Contains, c
        <3>2. (\E j \in 1 .. Len(c) : c[j] = m) \/ m = k <=> \E j \in 1 .. Len(d) : d[j] = m
            <4>1. ASSUME NEW j \in 1 .. Len(c), c[j] = m PROVE \E l \in 1 .. Len(d) : d[l] = m
                <5>1. j + 1 \in 2 .. Len(d) /\ (j + 1) - 1 = j /\ j + 1 \in 1 .. Len(d)
                    BY <1>1, <1>2
                <5>2. d[j + 1] = m
                    BY <1>2, <4>1, <5>1
                <5>3. QED
                    BY <5>1, <5>2
            <4>2. 1 \in 1 .. Len(d)
                BY <1>1, <1>2
            <4>3. ASSUME NEW j \in 1 .. Len(d), d[j] = m
                  PROVE  (\E l \in 1 .. Len(c) : c[l] = m) \/ m = k
                <5>1. j = 1 \/ j \in 2 .. Len(d)
                    BY <1>1, <1>2
                <5>2. QED
                    BY <1>2, <4>3, <5>1
            <4>4. QED
                BY <1>2, <4>1, <4>2, <4>3
        <3>3. QED
            BY <3>1, <3>2 DEF Hash!Contains
    <2>4. QED
        BY <2>2, <2>3
<1>11. QED
    BY <1>4, <1>9, <1>10 DEF Stores, new

-----------------------------------------------------------------------------
(* Hash table: keys one after the other. *)

\* The sequence s lists the keys of S, each once.
Lists(s, S) ==
    /\ s \in Seq(HashKeys)
    /\ \A i, j \in 1 .. Len(s) : s[i] = s[j] => i = j
    /\ \A k \in HashKeys : k \in S <=> \E i \in 1 .. Len(s) : s[i] = k

LEMMA ListsNothing == Lists(<<>>, {})
BY DEF Lists

LEMMA ListsBoth ==
    ASSUME NEW s, NEW S, NEW u, NEW U, Lists(s, S), Lists(u, U),
           \A k \in HashKeys : ~ (k \in S /\ k \in U)
    PROVE  Lists(s \o u, S \cup U)
<1> DEFINE w == s \o u
<1>1. s \in Seq(HashKeys) /\ u \in Seq(HashKeys) /\ Len(s) \in Nat /\ Len(u) \in Nat
    BY DEF Lists
<1>2. /\ w \in Seq(HashKeys) /\ Len(w) = Len(s) + Len(u)
      /\ \A i \in 1 .. Len(s) : w[i] = s[i]
      /\ \A i \in Len(s) + 1 .. Len(w) : i - Len(s) \in 1 .. Len(u) /\ w[i] = u[i - Len(s)]
    BY <1>1
<1> HIDE DEF w
<1>3. /\ \A i \in 1 .. Len(s) : s[i] \in HashKeys /\ s[i] \in S
      /\ \A i \in 1 .. Len(u) : u[i] \in HashKeys /\ u[i] \in U
    BY <1>1 DEF Lists
<1>4. ASSUME NEW i \in 1 .. Len(w), NEW j \in 1 .. Len(w), w[i] = w[j] PROVE i = j
    <2>1. CASE i \in 1 .. Len(s) /\ j \in 1 .. Len(s)
        BY <1>2, <1>4, <2>1 DEF Lists
    <2>2. CASE i \in Len(s) + 1 .. Len(w) /\ j \in Len(s) + 1 .. Len(w)
        <3>1. i - Len(s) = j - Len(s)
            BY <1>2, <1>4, <2>2 DEF Lists
        <3>2. QED
            BY <1>1, <2>2, <3>1
    <2>3. CASE i \in 1 .. Len(s) /\ j \in Len(s) + 1 .. Len(w)
        BY <1>2, <1>3, <1>4, <2>3
    <2>4. CASE j \in 1 .. Len(s) /\ i \in Len(s) + 1 .. Len(w)
        BY <1>2, <1>3, <1>4, <2>4
    <2>5. QED
        BY <1>1, <1>2, <2>1, <2>2, <2>3, <2>4
<1>5. ASSUME NEW k \in HashKeys
      PROVE  k \in S \cup U <=> \E i \in 1 .. Len(w) : w[i] = k
    <2>1. ASSUME NEW i \in 1 .. Len(w), w[i] = k PROVE k \in S \cup U
        <3>1. i \in 1 .. Len(s) \/ i \in Len(s) + 1 .. Len(w)
            BY <1>1, <1>2
        <3>2. QED
            BY <1>2, <1>3, <2>1, <3>1
    <2>2. ASSUME NEW i \in 1 .. Len(s), s[i] = k PROVE \E j \in 1 .. Len(w) : w[j] = k
        <3>1. i \in 1 .. Len(w)
            BY <1>1, <1>2
        <3>2. QED
            BY <1>2, <2>2, <3>1
    <2>3. ASSUME NEW i \in 1 .. Len(u), u[i] = k PROVE \E j \in 1 .. Len(w) : w[j] = k
        <3>1. i + Len(s) \in Len(s) + 1 .. Len(w) /\ (i + Len(s)) - Len(s) = i
            BY <1>1, <1>2
        <3>2. i + Len(s) \in 1 .. Len(w)
            BY <1>1, <1>2
        <3>3. w[i + Len(s)] = k
            BY <1>2, <2>3, <3>1
        <3>4. QED
            BY <3>2, <3>3
    <2>4. QED
        BY <2>1, <2>2, <2>3 DEF Lists
<1>6. QED
    BY <1>2, <1>4, <1>5 DEF Lists, w

\* As many places as keys.
LEMMA ListsSize ==
    ASSUME NEW s, NEW S \in SUBSET HashKeys, Lists(s, S)
    PROVE  IsFiniteSet(S) /\ Cardinality(S) = Len(s)
<1>1. s \in Seq(HashKeys) /\ Len(s) \in Nat
    BY DEF Lists
<1>2. \A i \in 1 .. Len(s) : s[i] \in S
    BY <1>1 DEF Lists
<1>3. s \in [1 .. Len(s) -> S]
    BY <1>1, <1>2
<1>4. \A i, j \in 1 .. Len(s) : s[i] = s[j] => i = j
    BY DEF Lists
<1>5. \A k \in S : \E i \in 1 .. Len(s) : s[i] = k
    BY DEF Lists
<1>6. s \in Bijection(1 .. Len(s), S)
    BY <1>3, <1>4, <1>5 DEF Bijection, Injection, Surjection, IsInjective
<1>7. ExistsBijection(1 .. Len(s), S)
    BY <1>6 DEF ExistsBijection
<1>8. QED
    BY <1>1, <1>7, FS_CountingElements, FS_NatBijection

\* The keys of S that hash to i, and those that hash to i up to before j.
At(S, N, i) == {k \in S : k % N = i}
From(S, N, i, j) == {k \in S : i =< k % N /\ k % N < j}

\* The chain of a bucket lists the keys that hash to it.
LEMMA ChainLists ==
    ASSUME NEW b, NEW N \in Nat \ {0}, NEW S \in SUBSET HashKeys, Stores(b, N, S),
           NEW i \in 0 .. N - 1
    PROVE  Lists(b[i], At(S, N, i))
<1>1. b[i] \in Seq(HashKeys) /\ \A j \in 1 .. Len(b[i]) : b[i][j] \in HashKeys
    BY DEF Stores
<1>2. \A j, l \in 1 .. Len(b[i]) : b[i][j] = b[i][l] => j = l
    BY DEF Stores
<1>3. \A j \in 1 .. Len(b[i]) : b[i][j] % N = i
    BY DEF Stores
<1>4. \A k \in HashKeys : k \in S <=> \E j \in 1 .. Len(b[k % N]) : b[k % N][j] = k
    BY DEF Stores, Hash!Contains
<1>5. ASSUME NEW k \in HashKeys
      PROVE  k \in At(S, N, i) <=> \E j \in 1 .. Len(b[i]) : b[i][j] = k
    BY <1>3, <1>4 DEF At
<1>6. QED
    BY <1>1, <1>2, <1>5 DEF Lists

-----------------------------------------------------------------------------
(* Hash table: rehashing. *)

\* f is what Gathered has taken after each bucket.
Gathers(f, b, n) == f = [i \in 0 .. n |-> IF i = 0 THEN <<>> ELSE f[i - 1] \o b[i - 1]]

LEMMA GathersExist ==
    ASSUME NEW b, NEW N \in Nat
    PROVE  \E f : Gathers(f, b, N)
<1> DEFINE P == {k \in 0 .. N : \E f : Gathers(f, b, k)}
<1>1. 0 \in P
    <2>1. Gathers([i \in 0 .. 0 |-> <<>>], b, 0)
        BY DEF Gathers
    <2>2. QED
        BY <2>1
<1>2. ASSUME NEW k \in 0 .. N - 1, k \in P PROVE k + 1 \in P
    <2>1. PICK f : Gathers(f, b, k)
        BY <1>2
    <2> DEFINE longer == [i \in 0 .. k + 1 |-> IF i = 0 THEN <<>> ELSE f[i - 1] \o b[i - 1]]
    <2>2. ASSUME NEW i \in 0 .. k PROVE longer[i] = f[i]
        <3>1. i \in 0 .. k + 1
            BY <1>2
        <3>2. QED
            BY <2>1, <3>1, Zenon DEF Gathers
    <2>3. ASSUME NEW i \in 0 .. k + 1, i # 0 PROVE longer[i - 1] = f[i - 1]
        <3>1. i - 1 \in 0 .. k
            BY <1>2, <2>3
        <3>2. QED
            BY <2>2, <3>1
    <2>4. Gathers(longer, b, k + 1)
        BY <2>3 DEF Gathers
    <2>5. QED
        BY <1>2, <2>4
<1> HIDE DEF P
<1>3. \A k \in 0 .. N : k \in P
    BY <1>1, <1>2, Induction, Zenon
<1>4. N \in P
    BY <1>3
<1>5. QED
    BY <1>4 DEF P

LEMMA GatheredLists ==
    ASSUME NEW t, NEW N \in Nat \ {0}, NEW S \in SUBSET HashKeys, Stores(t.b, N, S)
    PROVE  Lists(Hash!Gathered(t), S)
<1>1. Hash!Buckets(t) = N /\ N \in Nat
    BY BucketsIs
<1>2. PICK f : Gathers(f, t.b, N) /\ Hash!Gathered(t) = f[N]
    <2>1. Hash!Gathered(t) = (CHOOSE f : Gathers(f, t.b, N))[N]
        BY <1>1 DEF Hash!Gathered, Gathers
    <2>2. Gathers(CHOOSE f : Gathers(f, t.b, N), t.b, N)
        BY <1>1, GathersExist, Zenon
    <2>3. QED
        BY <2>1, <2>2
<1>3. f[0] = <<>> /\ \A i \in 0 .. N - 1 : f[i + 1] = f[i] \o t.b[i]
    <2>1. f = [i \in 0 .. N |-> IF i = 0 THEN <<>> ELSE f[i - 1] \o t.b[i - 1]]
        BY <1>2, Zenon DEF Gathers
    <2>2. f[0] = <<>>
        BY <1>1, <2>1
    <2>3. ASSUME NEW i \in 0 .. N - 1 PROVE f[i + 1] = f[i] \o t.b[i]
        <3>1. i + 1 \in 0 .. N /\ i + 1 # 0 /\ (i + 1) - 1 = i
            BY <1>1
        <3>2. QED
            BY <2>1, <3>1
    <2>4. QED
        BY <2>2, <2>3
<1> DEFINE P == {i \in 0 .. N : Lists(f[i], From(S, N, 0, i))}
<1>4. \A k \in HashKeys : k % N \in 0 .. N - 1
    BY BucketOf
<1>5. 0 \in P
    <2>1. From(S, N, 0, 0) = {}
        BY <1>1, <1>4 DEF From
    <2>2. Lists(f[0], From(S, N, 0, 0))
        BY <1>3, <2>1, ListsNothing, Zenon
    <2>3. 0 \in 0 .. N
        BY <1>1
    <2>4. QED
        BY <2>2, <2>3
<1>6. ASSUME NEW i \in 0 .. N - 1, i \in P PROVE i + 1 \in P
    <2>1. Lists(t.b[i], At(S, N, i))
        BY ChainLists, Zenon
    <2>2. \A k \in HashKeys : ~ (k \in From(S, N, 0, i) /\ k \in At(S, N, i))
        BY <1>4, <1>6 DEF From, At
    <2>3. Lists(f[i] \o t.b[i], From(S, N, 0, i) \cup At(S, N, i))
        BY <1>6, <2>1, <2>2, ListsBoth, Zenon
    <2>4. From(S, N, 0, i) \cup At(S, N, i) = From(S, N, 0, i + 1)
        BY <1>4, <1>6 DEF From, At
    <2>5. i + 1 \in 0 .. N
        BY <1>1, <1>6
    <2>6. Lists(f[i + 1], From(S, N, 0, i + 1))
        BY <1>3, <1>6, <2>3, <2>4, Zenon
    <2>7. QED
        BY <2>5, <2>6
<1> HIDE DEF P
<1>7. \A i \in 0 .. N : i \in P
    BY <1>1, <1>5, <1>6, Induction, Zenon
<1>8. Lists(f[N], From(S, N, 0, N))
    BY <1>1, <1>7 DEF P
<1>9. From(S, N, 0, N) = S
    BY <1>1, <1>4 DEF From
<1>10. QED
    BY <1>2, <1>8, <1>9, Zenon

\* f is the table after each node that Pushed has taken.
PushesUpTo(f, b, s, N, n) ==
    f = [i \in 0 .. n |-> IF i = 0 THEN b ELSE Push(f[i - 1], N, s[i])]

LEMMA PushingExists ==
    ASSUME NEW b, NEW s, NEW N, NEW n \in Nat
    PROVE  \E f : PushesUpTo(f, b, s, N, n)
<1> DEFINE P == {k \in 0 .. n : \E f : PushesUpTo(f, b, s, N, k)}
<1>1. 0 \in P
    <2>1. PushesUpTo([i \in 0 .. 0 |-> b], b, s, N, 0)
        BY DEF PushesUpTo
    <2>2. QED
        BY <2>1
<1>2. ASSUME NEW k \in 0 .. n - 1, k \in P PROVE k + 1 \in P
    <2>1. PICK f : PushesUpTo(f, b, s, N, k)
        BY <1>2
    <2>2. f = [i \in 0 .. k |-> IF i = 0 THEN b ELSE Push(f[i - 1], N, s[i])]
        BY <2>1, Zenon DEF PushesUpTo
    <2> DEFINE longer == [i \in 0 .. k + 1 |-> IF i = 0 THEN b ELSE Push(f[i - 1], N, s[i])]
    <2>3. \A i \in 0 .. k : longer[i] = f[i]
        BY <2>2
    <2>4. ASSUME NEW i \in 0 .. k + 1, i # 0 PROVE longer[i - 1] = f[i - 1]
        <3>1. i - 1 \in 0 .. k
            BY <1>2, <2>4
        <3>2. QED
            BY <2>3, <3>1
    <2>5. longer = [i \in 0 .. k + 1 |-> IF i = 0 THEN b ELSE Push(longer[i - 1], N, s[i])]
        BY <2>4
    <2> HIDE DEF longer
    <2>6. PushesUpTo(longer, b, s, N, k + 1)
        BY <2>5, Zenon DEF PushesUpTo
    <2>7. k + 1 \in 0 .. n
        BY <1>2
    <2>8. QED
        BY <2>6, <2>7
<1> HIDE DEF P
<1>3. \A k \in 0 .. n : k \in P
    BY <1>1, <1>2, Induction, Zenon
<1>4. n \in P
    BY <1>3
<1>5. QED
    BY <1>4, Zenon DEF P

\* The first i keys of a list.
Taken(s, i) == {s[j] : j \in 1 .. i}

LEMMA PushedStores ==
    ASSUME NEW N \in Nat \ {0}, NEW b, Stores(b, N, {}), NEW s, NEW S, Lists(s, S)
    PROVE  Stores(Hash!Pushed(b, s, N), N, Taken(s, Len(s)))
<1>1. s \in Seq(HashKeys) /\ Len(s) \in Nat /\ \A i \in 1 .. Len(s) : s[i] \in HashKeys
    BY DEF Lists
<1>2. PICK f : PushesUpTo(f, b, s, N, Len(s)) /\ Hash!Pushed(b, s, N) = f[Len(s)]
    <2>1. Hash!Pushed(b, s, N) = (CHOOSE f : PushesUpTo(f, b, s, N, Len(s)))[Len(s)]
        BY DEF Hash!Pushed, Hash!BucketNum, PushesUpTo, Push
    <2>2. \E f : PushesUpTo(f, b, s, N, Len(s))
        BY <1>1, PushingExists
    <2>3. PushesUpTo(CHOOSE f : PushesUpTo(f, b, s, N, Len(s)), b, s, N, Len(s))
        BY <2>2, Zenon
    <2>4. QED
        BY <2>1, <2>3
<1>3. f[0] = b /\ \A i \in 0 .. Len(s) - 1 : f[i + 1] = Push(f[i], N, s[i + 1])
    <2>1. f = [i \in 0 .. Len(s) |-> IF i = 0 THEN b ELSE Push(f[i - 1], N, s[i])]
        BY <1>2, Zenon DEF PushesUpTo
    <2>2. f[0] = b
        BY <1>1, <2>1
    <2>3. ASSUME NEW i \in 0 .. Len(s) - 1 PROVE f[i + 1] = Push(f[i], N, s[i + 1])
        <3>1. i + 1 \in 0 .. Len(s) /\ i + 1 # 0 /\ (i + 1) - 1 = i
            BY <1>1
        <3>2. QED
            BY <2>1, <3>1
    <2>4. QED
        BY <2>2, <2>3
<1> DEFINE P == {i \in 0 .. Len(s) : Stores(f[i], N, Taken(s, i))}
<1>4. 0 \in P
    <2>1. Taken(s, 0) = {} /\ 0 \in 0 .. Len(s)
        BY <1>1 DEF Taken
    <2>2. Stores(f[0], N, Taken(s, 0))
        BY <1>3, <2>1, Zenon
    <2>3. QED
        BY <2>1, <2>2
<1>5. ASSUME NEW i \in 0 .. Len(s) - 1, i \in P PROVE i + 1 \in P
    <2>1. i + 1 \in 1 .. Len(s) /\ i + 1 \in 0 .. Len(s) /\ s[i + 1] \in HashKeys
        BY <1>1
    <2>2. s[i + 1] \notin Taken(s, i)
        <3>1. ASSUME NEW j \in 1 .. i PROVE s[j] # s[i + 1]
            <4>1. j \in 1 .. Len(s) /\ j # i + 1
                BY <1>1
            <4>2. QED
                BY <2>1, <4>1 DEF Lists
        <3>2. QED
            BY <3>1 DEF Taken
    <2>3. Stores(Push(f[i], N, s[i + 1]), N, Taken(s, i) \cup {s[i + 1]})
        BY <1>5, <2>1, <2>2, PushStores, Zenon
    <2>4. Taken(s, i) \cup {s[i + 1]} = Taken(s, i + 1)
        BY <1>1 DEF Taken
    <2>5. Stores(f[i + 1], N, Taken(s, i + 1))
        BY <1>3, <2>3, <2>4, Zenon
    <2>6. QED
        BY <2>1, <2>5
<1> HIDE DEF P
<1>6. \A i \in 0 .. Len(s) : i \in P
    BY <1>1, <1>4, <1>5, Induction, Zenon
<1>7. Stores(f[Len(s)], N, Taken(s, Len(s)))
    BY <1>1, <1>6 DEF P
<1>8. QED
    BY <1>2, <1>7, Zenon

\* Rehashed, the table holds the same keys in enough chains.
LEMMA ResizeIs ==
    ASSUME NEW N \in Nat \ {0}, NEW S, NEW t, Tabled(t, N, S), NEW potential \in Nat
    PROVE  \E M \in Nat \ {0} :
              /\ Hash!Resize(t, potential) \in Tables(M)
              /\ Hash!Resize(t, potential).ok
              /\ Stores(Hash!Resize(t, potential).b, M, S)
              /\ Hash!Resize(t, potential).n = t.n
              /\ potential =< M \/ M = Hash!Last(PrimesList)
<1> DEFINE M == Hash!NextPrime(potential)
           moved == Hash!Pushed(Hash!NoBuckets(potential), Hash!Gathered(t), M)
<1>1. t \in Tables(N) /\ S \in SUBSET HashKeys /\ Stores(t.b, N, S)
    BY DEF Tabled
<1>2. t.ok
    BY DEF Tabled
<1>3. Hash!Buckets(t) = N
    BY <1>1, BucketsIs
<1>4. CASE potential =< N
    <2>1. Hash!Resize(t, potential) = t
        BY <1>3, <1>4 DEF Hash!Resize
    <2>2. QED
        BY <1>1, <1>2, <1>4, <2>1, Zenon
<1>5. CASE ~ (potential =< N)
    <2>1. Hash!Resize(t, potential) = [t EXCEPT !.b = moved]
        BY <1>3, <1>5 DEF Hash!Resize
    <2>2. M \in Nat \ {0}
        BY NextPrimeIs
    <2>3. potential =< M \/ M = Hash!Last(PrimesList)
        BY NextPrimeIs
    <2>4. Stores(Hash!NoBuckets(potential), M, {})
        BY <2>2, NothingStored DEF Hash!NoBuckets
    <2>5. Lists(Hash!Gathered(t), S)
        BY <1>1, GatheredLists
    <2>6. Stores(moved, M, Taken(Hash!Gathered(t), Len(Hash!Gathered(t))))
        BY <2>2, <2>4, <2>5, PushedStores
    <2>7. Taken(Hash!Gathered(t), Len(Hash!Gathered(t))) = S
        BY <1>1, <2>5 DEF Taken, Lists
    <2> HIDE DEF moved, M
    <2>8. moved \in [0 .. M - 1 -> Seq(HashKeys)]
        BY <2>6 DEF Stores
    <2>9. /\ [t EXCEPT !.b = moved] \in Tables(M)
          /\ [t EXCEPT !.b = moved].b = moved
          /\ [t EXCEPT !.b = moved].n = t.n
          /\ [t EXCEPT !.b = moved].ok
        BY <1>1, <1>2, <2>8, BucketsReplaced
    <2>10. QED
        BY <2>1, <2>2, <2>3, <2>6, <2>7, <2>9, Zenon
<1>6. QED
    BY <1>4, <1>5

-----------------------------------------------------------------------------
(* Hash table: insertion and erasure of a key. *)

LEMMA StoredIs ==
    ASSUME NEW b, NEW N, NEW S, Stores(b, N, S), NEW k \in HashKeys
    PROVE  k \in S <=> Hash!Contains(b[k % N], k)
BY DEF Stores

LEMMA NoresizeIs ==
    ASSUME NEW M \in Nat \ {0}, NEW r \in Tables(M), r.ok, NEW S \in SUBSET HashKeys,
           Stores(r.b, M, S), IsFiniteSet(S), r.n = Cardinality(S), NEW k \in HashKeys,
           r.n + 1 =< M \/ M = Hash!Last(PrimesList)
    PROVE  Tabled(Hash!InsertUniqueNoresize(r, k)[1], M, S \cup {k})
<1>1. r.n \in Nat /\ r.b[k % M] \in Seq(HashKeys) /\ k % M \in 0 .. M - 1
    BY BucketOf DEF Tables
<1>2. Hash!BucketNum(k, Hash!Buckets(r)) = k % M /\ Hash!ChainOf(r, k) = r.b[k % M]
    BY ChainIs
<1>3. CASE k \in S
    <2>1. Hash!Contains(r.b[k % M], k)
        BY <1>3, StoredIs
    <2>2. Hash!InsertUniqueNoresize(r, k)[1] = r
        BY <1>2, <2>1 DEF Hash!InsertUniqueNoresize
    <2>3. S \cup {k} = S
        BY <1>3
    <2>4. r.n =< M \/ M = Hash!Last(PrimesList)
        BY <1>1
    <2>5. Tabled(r, M, S)
        BY <2>4 DEF Tabled
    <2>6. QED
        BY <2>2, <2>3, <2>5
<1>4. CASE k \notin S
    <2> DEFINE c == <<k>> \o r.b[k % M]
               n == r.n + 1
               e == [r EXCEPT !.b[k % M] = c, !.n = n]
    <2>1. ~ Hash!Contains(r.b[k % M], k)
        BY <1>4, StoredIs
    <2>2. Hash!InsertUniqueNoresize(r, k)[1] = e
        BY <1>1, <1>2, <2>1 DEF Hash!InsertUniqueNoresize, Tables
    <2>3. c \in Seq(HashKeys) /\ n \in Nat
        BY <1>1
    <2>4. [r.b EXCEPT ![k % M] = c] = Push(r.b, M, k)
        BY DEF Push
    <2>5. Stores(Push(r.b, M, k), M, S \cup {k})
        BY <1>4, PushStores
    <2>6. IsFiniteSet(S \cup {k}) /\ Cardinality(S \cup {k}) = n
        BY <1>4, FS_AddElement
    <2>7. n =< M \/ M = Hash!Last(PrimesList)
        OBVIOUS
    <2> HIDE DEF c, n
    <2>8. e \in Tables(M)
        BY <1>1, <2>3, ChainReplaced
    <2>9. e.b = [r.b EXCEPT ![k % M] = c]
        BY <1>1, <2>3 DEF Tables
    <2>10. e.n = n
        BY <1>1, <2>3 DEF Tables
    <2>11. e.ok
        BY <1>1, <2>3, ChainReplaced
    <2> HIDE DEF e
    <2>12. Tabled(e, M, S \cup {k})
        BY <2>4, <2>5, <2>6, <2>7, <2>8, <2>9, <2>10, <2>11 DEF Tabled
    <2>13. QED
        BY <2>2, <2>12
<1>5. QED
    BY <1>3, <1>4

\* The table that an insertion starts from.
Resized(r, M, S) ==
    /\ r \in Tables(M) /\ r.ok
    /\ Stores(r.b, M, S)
    /\ S \in SUBSET HashKeys /\ IsFiniteSet(S) /\ r.n = Cardinality(S)
    /\ r.n + 1 =< M \/ M = Hash!Last(PrimesList)

LEMMA ResizedIs ==
    ASSUME NEW N \in Nat \ {0}, NEW S, NEW t, Tabled(t, N, S)
    PROVE  \E M \in Nat \ {0} : Resized(Hash!Resize(t, t.n + 1), M, S)
<1>1. t.n \in Nat /\ t.n + 1 \in Nat
    BY DEF Tabled, Tables
<1> DEFINE r == Hash!Resize(t, t.n + 1)
<1>2. PICK M \in Nat \ {0} :
          /\ r \in Tables(M)
          /\ r.ok
          /\ Stores(r.b, M, S)
          /\ r.n = t.n
          /\ t.n + 1 =< M \/ M = Hash!Last(PrimesList)
    BY <1>1, ResizeIs
<1> HIDE DEF r
<1>3. r.n + 1 =< M \/ M = Hash!Last(PrimesList)
    BY <1>1, <1>2
<1>4. S \in SUBSET HashKeys /\ IsFiniteSet(S) /\ r.n = Cardinality(S)
    BY <1>2 DEF Tabled
<1>5. Resized(r, M, S)
    BY <1>2, <1>3, <1>4 DEF Resized
<1>6. QED
    BY <1>5 DEF r

LEMMA InsertUniqueIs ==
    ASSUME NEW N \in Nat \ {0}, NEW S, NEW t, Tabled(t, N, S), NEW k \in HashKeys
    PROVE  \E M \in Nat \ {0} : Tabled(Hash!InsertUnique(t, k)[1], M, S \cup {k})
<1> DEFINE r == Hash!Resize(t, t.n + 1)
<1>1. PICK M \in Nat \ {0} : Resized(r, M, S)
    BY ResizedIs
<1>2. Hash!InsertUnique(t, k) = Hash!InsertUniqueNoresize(r, k)
    BY DEF Hash!InsertUnique
<1> HIDE DEF r
<1>3. Tabled(Hash!InsertUniqueNoresize(r, k)[1], M, S \cup {k})
    BY <1>1, NoresizeIs DEF Resized
<1>4. QED
    BY <1>2, <1>3

LEMMA InsertHintIs ==
    ASSUME NEW N \in Nat \ {0}, NEW S, NEW t, Tabled(t, N, S), NEW k \in HashKeys, NEW hint \in S
    PROVE  \E M \in Nat \ {0} : Tabled(Hash!InsertHintUnique(t, hint, k), M, S \cup {k})
<1> DEFINE r == Hash!Resize(t, t.n + 1)
<1>1. PICK M \in Nat \ {0} : Resized(r, M, S)
    BY ResizedIs
<1>2. CASE hint = k
    <2>1. Hash!InsertHintUnique(t, hint, k) = r /\ S \cup {k} = S
        BY <1>2 DEF Hash!InsertHintUnique
    <2> HIDE DEF r
    <2>2. r.n \in Nat
        BY <1>1 DEF Resized, Tables
    <2>3. r.n =< M \/ M = Hash!Last(PrimesList)
        BY <1>1, <2>2 DEF Resized
    <2>4. Tabled(r, M, S)
        BY <1>1, <2>3 DEF Tabled, Resized
    <2>5. QED
        BY <2>1, <2>4
<1>3. CASE hint # k
    <2>1. Hash!InsertHintUnique(t, hint, k) = Hash!InsertUniqueNoresize(r, k)[1]
        BY <1>3 DEF Hash!InsertHintUnique
    <2> HIDE DEF r
    <2>2. Tabled(Hash!InsertUniqueNoresize(r, k)[1], M, S \cup {k})
        BY <1>1, NoresizeIs DEF Resized
    <2>3. QED
        BY <2>1, <2>2
<1>4. QED
    BY <1>2, <1>3

\* w is s without its place i.
Drops(w, s, i) ==
    /\ w \in Seq(HashKeys) /\ Len(w) = Len(s) - 1
    /\ \A j \in 1 .. Len(w) : w[j] = IF j < i THEN s[j] ELSE s[j + 1]

LEMMA DropLists ==
    ASSUME NEW s, NEW S, Lists(s, S), NEW i \in 1 .. Len(s), NEW w, Drops(w, s, i)
    PROVE  Lists(w, S \ {s[i]})
<1>1. /\ s \in Seq(HashKeys) /\ Len(s) \in Nat /\ i \in Nat
      /\ w \in Seq(HashKeys) /\ Len(w) = Len(s) - 1 /\ Len(w) \in Nat
    BY DEF Lists, Drops
<1> DEFINE place(j) == IF j < i THEN j ELSE j + 1
<1>2. \A j \in 1 .. Len(w) : place(j) \in 1 .. Len(s) /\ place(j) # i /\ w[j] = s[place(j)]
    BY <1>1 DEF Drops
<1>3. \A j, l \in 1 .. Len(w) : place(j) = place(l) => j = l
    BY <1>1
<1>4. ASSUME NEW m \in 1 .. Len(s), m # i PROVE \E j \in 1 .. Len(w) : place(j) = m
    <2>1. CASE m < i
        <3>1. m \in 1 .. Len(w) /\ place(m) = m
            BY <1>1, <2>1
        <3>2. QED
            BY <3>1
    <2>2. CASE m > i
        <3>1. m - 1 \in 1 .. Len(w) /\ place(m - 1) = m
            BY <1>1, <2>2
        <3>2. QED
            BY <3>1
    <2>3. QED
        BY <1>1, <1>4, <2>1, <2>2
<1> HIDE DEF place
<1>5. \A j, l \in 1 .. Len(s) : s[j] = s[l] => j = l
    BY DEF Lists
<1>6. \A j, l \in 1 .. Len(w) : w[j] = w[l] => j = l
    BY <1>2, <1>3, <1>5
<1>7. ASSUME NEW k \in HashKeys
      PROVE  k \in S \ {s[i]} <=> \E j \in 1 .. Len(w) : w[j] = k
    <2>1. k \in S <=> \E m \in 1 .. Len(s) : s[m] = k
        BY DEF Lists
    <2>2. ASSUME NEW j \in 1 .. Len(w), w[j] = k PROVE k \in S /\ k # s[i]
        BY <1>2, <1>5, <2>1, <2>2
    <2>3. ASSUME k \in S, k # s[i] PROVE \E j \in 1 .. Len(w) : w[j] = k
        <3>1. PICK m \in 1 .. Len(s) : s[m] = k
            BY <2>1, <2>3
        <3>2. m # i
            BY <2>3, <3>1
        <3>3. QED
            BY <1>2, <1>4, <3>1, <3>2
    <2>4. QED
        BY <2>2, <2>3
<1>8. QED
    BY <1>1, <1>6, <1>7 DEF Lists

\* The chains with that of k replaced.
LEMMA ChainStores ==
    ASSUME NEW N \in Nat \ {0}, NEW b, NEW S \in SUBSET HashKeys, Stores(b, N, S),
           NEW k \in HashKeys, NEW c, Lists(c, At(S, N, k % N) \ {k})
    PROVE  Stores([b EXCEPT ![k % N] = c], N, S \ {k})
<1> DEFINE new == [b EXCEPT ![k % N] = c]
<1>1. k % N \in 0 .. N - 1 /\ c \in Seq(HashKeys) /\ Len(c) \in Nat
    BY BucketOf DEF Lists
<1>2. \A i \in 0 .. N - 1 : new[i] = IF i = k % N THEN c ELSE b[i]
    BY DEF Stores
<1>3. new \in [0 .. N - 1 -> Seq(HashKeys)]
    BY <1>1 DEF Stores
<1> HIDE DEF new
<1>4. \A j, l \in 1 .. Len(c) : c[j] = c[l] => j = l
    BY DEF Lists
<1>5. \A j \in 1 .. Len(c) : c[j] % N = k % N
    BY <1>1 DEF Lists, At
<1>6. ASSUME NEW i \in 0 .. N - 1
      PROVE  /\ \A j, l \in 1 .. Len(new[i]) : new[i][j] = new[i][l] => j = l
             /\ \A j \in 1 .. Len(new[i]) : new[i][j] % N = i
    <2>1. CASE i = k % N
        BY <1>2, <1>4, <1>5, <2>1
    <2>2. CASE i # k % N
        BY <1>2, <2>2 DEF Stores
    <2>3. QED
        BY <2>1, <2>2
<1>7. ASSUME NEW m \in HashKeys
      PROVE  m \in S \ {k} <=> Hash!Contains(new[m % N], m)
    <2>1. m % N \in 0 .. N - 1
        BY BucketOf
    <2>2. CASE m % N # k % N
        BY <1>2, <2>1, <2>2 DEF Stores
    <2>3. CASE m % N = k % N
        <3>1. new[m % N] = c
            BY <1>2, <2>1, <2>3
        <3>2. m \in At(S, N, k % N) \ {k} <=> \E j \in 1 .. Len(c) : c[j] = m
            BY DEF Lists
        <3>3. m \in At(S, N, k % N) <=> m \in S
            BY <2>3 DEF At
        <3>4. QED
            BY <3>1, <3>2, <3>3 DEF Hash!Contains
    <2>4. QED
        BY <2>2, <2>3
<1>8. QED
    BY <1>3, <1>6, <1>7 DEF Stores, new

LEMMA TailDrops ==
    ASSUME NEW s \in Seq(HashKeys), Len(s) # 0
    PROVE  Drops(SubSeq(s, 2, Len(s)), s, 1)
<1>1. Len(s) \in Nat /\ 1 \in 0 .. Len(s) /\ 1 + 1 = 2
    OBVIOUS
<1> DEFINE w == SubSeq(s, 1 + 1, Len(s))
<1>2. /\ w \in Seq(HashKeys) /\ Len(w) = Len(s) - 1
      /\ \A i \in 1 .. Len(s) - 1 : w[i] = s[1 + i]
    BY <1>1, SuffixIs
<1>3. w = SubSeq(s, 2, Len(s))
    OBVIOUS
<1> HIDE DEF w
<1>4. Drops(w, s, 1)
    BY <1>1, <1>2 DEF Drops
<1>5. QED
    BY <1>3, <1>4

LEMMA RemoveDrops ==
    ASSUME NEW s \in Seq(HashKeys), NEW i \in 1 .. Len(s)
    PROVE  Drops(Hash!RemoveAt(s, i), s, i)
<1> DEFINE a == SubSeq(s, 1, i - 1)
           c == SubSeq(s, i + 1, Len(s))
<1>1. Len(s) \in Nat /\ i - 1 \in 0 .. Len(s) /\ i \in 0 .. Len(s) /\ i \in Nat
    OBVIOUS
<1>2. a \in Seq(HashKeys) /\ Len(a) = i - 1 /\ \A j \in 1 .. i - 1 : a[j] = s[j]
    BY <1>1
<1>3. c \in Seq(HashKeys) /\ Len(c) = Len(s) - i /\ \A j \in 1 .. Len(s) - i : c[j] = s[i + j]
    BY <1>1
<1> HIDE DEF a, c
<1>4. /\ a \o c \in Seq(HashKeys) /\ Len(a \o c) = Len(s) - 1
      /\ \A j \in 1 .. Len(s) - 1 : (a \o c)[j] = IF j =< i - 1 THEN a[j] ELSE c[j - (i - 1)]
    BY <1>1, <1>2, <1>3
<1>5. ASSUME NEW j \in 1 .. Len(s) - 1
      PROVE  (a \o c)[j] = IF j < i THEN s[j] ELSE s[j + 1]
    <2>1. CASE j < i
        BY <1>1, <1>2, <1>4, <2>1
    <2>2. CASE ~ (j < i)
        <3>1. j - (i - 1) \in 1 .. Len(s) - i /\ i + (j - (i - 1)) = j + 1 /\ ~ (j =< i - 1)
            BY <1>1, <2>2
        <3>2. QED
            BY <1>3, <1>4, <2>2, <3>1
    <2>3. QED
        BY <2>1, <2>2
<1>6. Hash!RemoveAt(s, i) = a \o c
    BY DEF Hash!RemoveAt, a, c
<1>7. QED
    BY <1>4, <1>5, <1>6 DEF Drops

\* A key that leaves a chain whose second it is not.
LEMMA EraseNodeIs ==
    ASSUME NEW N \in Nat \ {0}, NEW S, NEW t, Tabled(t, N, S), NEW k \in S,
           ~ Hash!SecondInChain(t, k)
    PROVE  Tabled(Hash!EraseNode(t, k), N, S \ {k})
<1> DEFINE chain == t.b[k % N]
           i == CHOOSE j \in DOMAIN chain : chain[j] = k
           rest == IF i =< 2 THEN SubSeq(chain, i + 1, Len(chain)) ELSE Hash!RemoveAt(chain, i)
           n == t.n - 1
           e == [t EXCEPT !.b[k % N] = rest, !.n = n]
<1>1. /\ t \in Tables(N) /\ S \in SUBSET HashKeys /\ IsFiniteSet(S) /\ k \in HashKeys
      /\ Stores(t.b, N, S) /\ t.n = Cardinality(S)
    BY DEF Tabled
<1>2. t.ok
    BY DEF Tabled
<1>3. /\ Hash!BucketNum(k, Hash!Buckets(t)) = k % N
      /\ Hash!ChainOf(t, k) = chain
      /\ chain \in Seq(HashKeys)
      /\ k % N \in 0 .. N - 1
    BY <1>1, ChainIs
<1>4. Lists(chain, At(S, N, k % N))
    BY <1>1, <1>3, ChainLists
<1>5. \E j \in DOMAIN chain : chain[j] = k
    <2>1. k \in At(S, N, k % N)
        BY DEF At
    <2>2. QED
        BY <1>1, <1>3, <1>4, <2>1 DEF Lists
<1> HIDE DEF chain
<1>6. i \in DOMAIN chain /\ chain[i] = k
    BY <1>5
<1> HIDE DEF i
<1>7. i \in 1 .. Len(chain) /\ Len(chain) \in Nat /\ Len(chain) # 0
    BY <1>3, <1>6
<1>8. i # 2
    BY <1>3, <1>6, <1>7 DEF Hash!SecondInChain
<1>9. Drops(rest, chain, i)
    <2>1. CASE i = 1
        <3>1. rest = SubSeq(chain, 2, Len(chain))
            BY <2>1
        <3>2. QED
            BY <1>3, <1>7, <2>1, <3>1, TailDrops
    <2>2. CASE i > 2
        <3>1. rest = Hash!RemoveAt(chain, i)
            BY <1>7, <2>2
        <3>2. QED
            BY <1>3, <1>7, <3>1, RemoveDrops
    <2>3. QED
        BY <1>7, <1>8, <2>1, <2>2
<1>10. Hash!EraseNode(t, k) = e
    BY <1>1, <1>3 DEF Hash!EraseNode, Tables, i
<1> HIDE DEF rest
<1>11. Lists(rest, At(S, N, k % N) \ {k})
    BY <1>4, <1>6, <1>7, <1>9, DropLists
<1>12. rest \in Seq(HashKeys)
    BY <1>11 DEF Lists
<1>13. Stores([t.b EXCEPT ![k % N] = rest], N, S \ {k})
    BY <1>1, <1>11, ChainStores
<1>14. IsFiniteSet(S \ {k}) /\ Cardinality(S \ {k}) = n
    BY <1>1, FS_RemoveElement
<1>15. n \in Nat /\ t.n \in Nat
    BY <1>1, <1>14, FS_CardinalityType
<1>16. n =< N \/ N = Hash!Last(PrimesList)
    BY <1>15 DEF Tabled
<1> HIDE DEF n
<1>17. e \in Tables(N)
    BY <1>1, <1>2, <1>3, <1>12, <1>15, ChainReplaced
<1>18. e.b = [t.b EXCEPT ![k % N] = rest]
    BY <1>1, <1>3, <1>12, <1>15 DEF Tables
<1>19. e.n = n
    BY <1>1, <1>3, <1>12, <1>15 DEF Tables
<1>20. e.ok
    BY <1>1, <1>2, <1>3, <1>12, <1>15, ChainReplaced
<1> HIDE DEF e
<1>21. S \ {k} \in SUBSET HashKeys
    BY <1>1
<1>22. Tabled(e, N, S \ {k})
    BY <1>13, <1>14, <1>16, <1>17, <1>18, <1>19, <1>20, <1>21 DEF Tabled
<1>23. QED
    BY <1>10, <1>22

-----------------------------------------------------------------------------
(* Hash table: iteration where no chain has two nodes. *)

Single(S, N) == \A k, m \in S : k % N = m % N => k = m

\* x is the iterator of the first key of S at or after the bucket i.
NextOf(S, N, i, x) ==
    \/ x = Hash!End /\ \A k \in S : k % N < i
    \/ x \in S /\ i =< x % N /\ \A k \in S : i =< k % N => x % N =< k % N

LEMMA SingleIs ==
    ASSUME NEW N \in Nat \ {0}, NEW b, NEW S \in SUBSET HashKeys, Stores(b, N, S),
           \A i \in DOMAIN b : Len(b[i]) =< 1
    PROVE  Single(S, N)
<1>1. ASSUME NEW k \in S, NEW m \in S, k % N = m % N PROVE k = m
    <2>1. k % N \in 0 .. N - 1
        BY BucketOf
    <2>2. Hash!Contains(b[k % N], k) /\ Hash!Contains(b[k % N], m)
        BY <1>1, StoredIs
    <2>3. Len(b[k % N]) \in Nat /\ Len(b[k % N]) =< 1
        BY <2>1 DEF Stores
    <2>4. QED
        BY <2>2, <2>3 DEF Hash!Contains
<1>2. QED
    BY <1>1 DEF Single

LEMMA ChainOfSingle ==
    ASSUME NEW N \in Nat \ {0}, NEW b, NEW S \in SUBSET HashKeys, Stores(b, N, S), Single(S, N),
           NEW k \in S
    PROVE  Len(b[k % N]) = 1 /\ b[k % N][1] = k
<1> DEFINE c == b[k % N]
<1>1. k % N \in 0 .. N - 1 /\ k \in HashKeys
    BY BucketOf
<1>2. c \in Seq(HashKeys) /\ Len(c) \in Nat
    BY <1>1 DEF Stores
<1>3. Hash!Contains(c, k)
    BY <1>1, StoredIs
<1>4. ASSUME NEW j \in 1 .. Len(c) PROVE c[j] = k
    <2>1. c[j] \in HashKeys /\ c[j] % N = k % N
        BY <1>1, <1>2 DEF Stores
    <2>2. Hash!Contains(c, c[j])
        BY <1>2 DEF Hash!Contains
    <2>3. c[j] \in S
        BY <2>1, <2>2, StoredIs
    <2>4. QED
        BY <2>1, <2>3 DEF Single
<1>5. \A j, l \in 1 .. Len(c) : c[j] = c[l] => j = l
    BY <1>1 DEF Stores
<1> HIDE DEF c
<1>6. Len(c) # 0
    BY <1>3 DEF Hash!Contains
<1>7. Len(c) =< 1
    <2>1. ASSUME Len(c) > 1 PROVE FALSE
        <3>1. 1 \in 1 .. Len(c) /\ 2 \in 1 .. Len(c)
            BY <1>2, <2>1
        <3>2. QED
            BY <1>4, <1>5, <3>1
    <2>2. QED
        BY <1>2, <2>1
<1>8. Len(c) = 1
    <2>1. Len(c) \in Nat
        BY <1>2
    <2>2. QED
        BY <1>6, <1>7, <2>1
<1>9. 1 \in 1 .. Len(c)
    BY <1>8
<1>10. QED
    BY <1>4, <1>8, <1>9 DEF c

LEMMA FirstFromIs ==
    ASSUME NEW N \in Nat \ {0}, NEW t, NEW S \in SUBSET HashKeys, Stores(t.b, N, S), NEW i \in 0 .. N
    PROVE  NextOf(S, N, i, Hash!FirstFrom(t, i))
<1> DEFINE full == {j \in i .. N - 1 : t.b[j] # <<>>}
<1>1. Hash!Buckets(t) = N
    BY BucketsIs
<1>2. ASSUME NEW k \in S PROVE k % N \in 0 .. N - 1 /\ t.b[k % N] # <<>>
    <2>1. k % N \in 0 .. N - 1 /\ k \in HashKeys
        BY BucketOf
    <2>2. Hash!Contains(t.b[k % N], k)
        BY <2>1, StoredIs
    <2>3. QED
        BY <2>1, <2>2 DEF Hash!Contains
<1>3. CASE full = {}
    <2>1. Hash!FirstFrom(t, i) = Hash!End
        BY <1>1, <1>3 DEF Hash!FirstFrom
    <2>2. ASSUME NEW k \in S PROVE k % N < i
        BY <1>2, <1>3
    <2>3. QED
        BY <2>1, <2>2 DEF NextOf
<1>4. CASE full # {}
    <2> DEFINE least == CHOOSE j \in full : \A l \in full : j =< l
    <2>1. full \in SUBSET Nat
        OBVIOUS
    <2>2. \E j \in full : \A l \in full : j =< l
        BY <1>4, <2>1, LeastElement
    <2>3. least \in full /\ \A l \in full : least =< l
        BY <2>2
    <2>4. Hash!FirstFrom(t, i) = Head(t.b[least])
        BY <1>1, <1>4 DEF Hash!FirstFrom
    <2>5. least \in i .. N - 1 /\ least \in 0 .. N - 1 /\ t.b[least] # <<>>
        BY <2>3
    <2>6. ASSUME NEW k \in S, i =< k % N PROVE least =< k % N
        <3>1. k % N \in i .. N - 1 /\ t.b[k % N] # <<>>
            BY <1>2, <2>6
        <3>2. k % N \in full
            BY <3>1
        <3>3. QED
            BY <2>3, <3>2
    <2> HIDE DEF least, full
    <2>7. t.b[least] \in Seq(HashKeys)
        BY <2>5 DEF Stores
    <2> DEFINE x == t.b[least][1]
    <2>8. 1 \in 1 .. Len(t.b[least]) /\ Head(t.b[least]) = x /\ x \in HashKeys
        BY <2>5, <2>7
    <2>9. x % N = least
        BY <2>5, <2>8 DEF Stores
    <2>10. x \in S
        BY <2>8, <2>9, StoredIs DEF Hash!Contains
    <2> HIDE DEF x
    <2>11. i =< x % N /\ \A k \in S : i =< k % N => x % N =< k % N
        BY <2>5, <2>6, <2>9
    <2>12. NextOf(S, N, i, x)
        BY <2>10, <2>11 DEF NextOf
    <2>13. QED
        BY <2>4, <2>8, <2>12
<1>5. QED
    BY <1>3, <1>4

LEMMA IncrementIs ==
    ASSUME NEW N \in Nat \ {0}, NEW t, NEW S \in SUBSET HashKeys, Stores(t.b, N, S), Single(S, N),
           NEW k \in S
    PROVE  NextOf(S, N, (k % N) + 1, Hash!Increment(t, k))
<1>1. k % N \in 0 .. N - 1 /\ k \in HashKeys
    BY BucketOf
<1>2. Hash!ChainOf(t, k) = t.b[k % N] /\ Hash!BucketNum(k, Hash!Buckets(t)) = k % N
    BY <1>1, ChainIs
<1>3. Len(t.b[k % N]) = 1 /\ t.b[k % N][1] = k
    BY ChainOfSingle
<1>4. Hash!Last(Hash!ChainOf(t, k)) = k
    BY <1>2, <1>3 DEF Hash!Last
<1>5. Hash!Increment(t, k) = Hash!FirstFrom(t, (k % N) + 1)
    BY <1>2, <1>4 DEF Hash!Increment
<1>6. (k % N) + 1 \in 0 .. N
    BY <1>1
<1>7. NextOf(S, N, (k % N) + 1, Hash!FirstFrom(t, (k % N) + 1))
    BY <1>6, FirstFromIs
<1>8. QED
    BY <1>5, <1>7

\* The keys up to x, x taken.
LEMMA FromNext ==
    ASSUME NEW N \in Nat \ {0}, NEW S \in SUBSET HashKeys, Single(S, N), NEW i \in 0 .. N,
           NEW j \in i .. N, NEW x \in S, NextOf(S, N, j, x)
    PROVE  /\ (x % N) + 1 \in i .. N
           /\ x \notin From(S, N, i, j)
           /\ From(S, N, i, (x % N) + 1) = From(S, N, i, j) \cup {x}
<1>1. \A k \in S : k \in HashKeys /\ k % N \in 0 .. N - 1
    BY BucketOf
<1>2. x \notin {Hash!End}
    BY <1>1, HashAssumption DEF Hash!End
<1>3. j =< x % N /\ \A k \in S : j =< k % N => x % N =< k % N
    BY <1>2 DEF NextOf
<1>4. (x % N) + 1 \in i .. N
    BY <1>1, <1>3
<1>5. x \notin From(S, N, i, j)
    BY <1>1, <1>3 DEF From
<1>6. ASSUME NEW k \in S
      PROVE  k \in From(S, N, i, (x % N) + 1) <=> k \in From(S, N, i, j) \/ k = x
    <2>1. k % N \in Int /\ x % N \in Int
        BY <1>1
    <2>2. k % N = x % N => k = x
        BY DEF Single
    <2>3. j =< k % N => x % N =< k % N
        BY <1>3
    <2>4. QED
        BY <1>3, <2>1, <2>2, <2>3 DEF From
<1>7. From(S, N, i, (x % N) + 1) = From(S, N, i, j) \cup {x}
    BY <1>6 DEF From
<1>8. QED
    BY <1>4, <1>5, <1>7

\* One turn of KeysFrom, from p = <<keys met, iterator>>.
WalkTurn(t, p) ==
    IF p[2] = Hash!End THEN <<p[1], Hash!End>>
    ELSE <<Append(p[1], p[2]), Hash!Increment(t, p[2])>>

\* f is what KeysFrom has after each turn.
Walks(f, t, x, n) == f = [i \in 0 .. n |-> IF i = 0 THEN <<<<>>, x>> ELSE WalkTurn(t, f[i - 1])]

LEMMA WalksExist ==
    ASSUME NEW t, NEW x, NEW n \in Nat
    PROVE  \E f : Walks(f, t, x, n)
<1> DEFINE P == {k \in 0 .. n : \E f : Walks(f, t, x, k)}
<1>1. 0 \in P
    <2>1. Walks([i \in 0 .. 0 |-> <<<<>>, x>>], t, x, 0)
        BY DEF Walks
    <2>2. QED
        BY <2>1
<1>2. ASSUME NEW k \in 0 .. n - 1, k \in P PROVE k + 1 \in P
    <2>1. PICK f : Walks(f, t, x, k)
        BY <1>2
    <2>2. f = [i \in 0 .. k |-> IF i = 0 THEN <<<<>>, x>> ELSE WalkTurn(t, f[i - 1])]
        BY <2>1, Zenon DEF Walks
    <2> DEFINE longer == [i \in 0 .. k + 1 |-> IF i = 0 THEN <<<<>>, x>> ELSE WalkTurn(t, f[i - 1])]
    <2>3. ASSUME NEW i \in 0 .. k PROVE longer[i] = f[i]
        <3>1. i \in 0 .. k + 1
            BY <1>2
        <3>2. QED
            BY <2>2, <3>1, Zenon
    <2>4. ASSUME NEW i \in 0 .. k + 1, i # 0 PROVE longer[i - 1] = f[i - 1]
        <3>1. i - 1 \in 0 .. k
            BY <1>2, <2>4
        <3>2. QED
            BY <2>3, <3>1
    <2>5. longer = [i \in 0 .. k + 1 |-> IF i = 0 THEN <<<<>>, x>> ELSE WalkTurn(t, longer[i - 1])]
        BY <2>4
    <2> HIDE DEF longer
    <2>6. Walks(longer, t, x, k + 1)
        BY <2>5, Zenon DEF Walks
    <2>7. k + 1 \in 0 .. n
        BY <1>2
    <2>8. QED
        BY <2>6, <2>7
<1> HIDE DEF P
<1>3. \A k \in 0 .. n : k \in P
    BY <1>1, <1>2, Induction, Zenon
<1>4. n \in P
    BY <1>3
<1>5. QED
    BY <1>4, Zenon DEF P

\* After n turns from the bucket i, keys up to the bucket j were met.
Walking(p, S, N, i, n) ==
    \E j \in i .. N :
        /\ Lists(p[1], From(S, N, i, j))
        /\ NextOf(S, N, j, p[2])
        /\ p[2] = Hash!End \/ Len(p[1]) = n

LEMMA ListsOne ==
    ASSUME NEW k \in HashKeys
    PROVE  Lists(<<k>>, {k})
<1>1. <<k>> \in Seq(HashKeys) /\ Len(<<k>>) = 1 /\ <<k>>[1] = k
    OBVIOUS
<1>2. QED
    BY <1>1 DEF Lists

LEMMA WalkTurnIs ==
    ASSUME NEW N \in Nat \ {0}, NEW t, NEW S \in SUBSET HashKeys, Stores(t.b, N, S), Single(S, N),
           NEW i \in 0 .. N, NEW n \in Nat, NEW p, Walking(p, S, N, i, n)
    PROVE  Walking(WalkTurn(t, p), S, N, i, n + 1)
<1>1. PICK j \in i .. N :
          /\ Lists(p[1], From(S, N, i, j))
          /\ NextOf(S, N, j, p[2])
          /\ p[2] = Hash!End \/ Len(p[1]) = n
    BY Zenon DEF Walking
<1> DEFINE x == p[2]
           met == p[1]
<1>2. CASE x = Hash!End
    <2>1. WalkTurn(t, p) = <<met, Hash!End>>
        BY <1>2 DEF WalkTurn
    <2> DEFINE q == <<met, Hash!End>>
    <2>2. q[1] = met /\ q[2] = Hash!End
        OBVIOUS
    <2> HIDE DEF q
    <2>3. Walking(q, S, N, i, n + 1)
        BY <1>1, <1>2, <2>2, Zenon DEF Walking
    <2>4. QED
        BY <2>1, <2>3 DEF q
<1>3. CASE x # Hash!End
    <2>1. x \in S /\ x \in HashKeys
        BY <1>1, <1>3 DEF NextOf
    <2> DEFINE y == Hash!Increment(t, x)
               l == (x % N) + 1
    <2>2. WalkTurn(t, p) = <<Append(met, x), y>>
        BY <1>3 DEF WalkTurn
    <2>3. NextOf(S, N, l, y)
        BY <2>1, IncrementIs
    <2>4. /\ l \in i .. N
          /\ x \notin From(S, N, i, j)
          /\ From(S, N, i, l) = From(S, N, i, j) \cup {x}
        BY <1>1, <2>1, FromNext
    <2> HIDE DEF y, l
    <2>5. Lists(met, From(S, N, i, j)) /\ Lists(<<x>>, {x})
        BY <1>1, <2>1, ListsOne
    <2>6. \A k \in HashKeys : ~ (k \in From(S, N, i, j) /\ k \in {x})
        BY <2>4
    <2> HIDE DEF met, x
    <2>7. Lists(met \o <<x>>, From(S, N, i, j) \cup {x})
        BY <2>5, <2>6, ListsBoth
    <2>8. met \in Seq(HashKeys) /\ Len(met) \in Nat
        BY <2>5 DEF Lists
    <2>9. Append(met, x) = met \o <<x>> /\ Len(Append(met, x)) = Len(met) + 1
        BY <2>1, <2>8
    <2>10. Len(met) = n
        BY <1>1, <1>3 DEF met, x
    <2> DEFINE q == <<Append(met, x), y>>
    <2>11. q[1] = Append(met, x) /\ q[2] = y
        OBVIOUS
    <2>12. Len(q[1]) = n + 1
        BY <2>9, <2>10, <2>11
    <2> HIDE DEF q
    <2>13. Lists(q[1], From(S, N, i, l))
        BY <2>4, <2>7, <2>9, <2>11
    <2>14. Walking(q, S, N, i, n + 1)
        BY <2>3, <2>4, <2>11, <2>12, <2>13, Zenon DEF Walking
    <2>15. QED
        BY <2>2, <2>14 DEF q
<1>4. QED
    BY <1>2, <1>3

LEMMA FromFinite ==
    ASSUME NEW N, NEW S, IsFiniteSet(S), NEW i, NEW j
    PROVE  /\ From(S, N, i, j) \in SUBSET S
           /\ IsFiniteSet(From(S, N, i, j))
<1>1. From(S, N, i, j) \in SUBSET S
    BY DEF From
<1>2. QED
    BY <1>1, FS_Subset

\* KeysFrom has as many turns as keys: it meets them all.
LEMMA KeysFromIs ==
    ASSUME NEW N \in Nat \ {0}, NEW t, NEW S, Tabled(t, N, S), Single(S, N),
           NEW i \in 0 .. N, NEW x, NextOf(S, N, i, x)
    PROVE  Lists(Hash!KeysFrom(t, x), From(S, N, i, N))
<1>1. /\ S \in SUBSET HashKeys /\ IsFiniteSet(S) /\ Stores(t.b, N, S)
      /\ t.n \in Nat /\ t.n = Cardinality(S)
    BY DEF Tabled, Tables
<1>2. \E f : Walks(f, t, x, t.n)
    BY <1>1, WalksExist
<1>3. PICK f : Walks(f, t, x, t.n) /\ Hash!KeysFrom(t, x) = f[t.n][1]
    <2>1. Hash!KeysFrom(t, x) = (CHOOSE f : Walks(f, t, x, t.n))[t.n][1]
        BY DEF Hash!KeysFrom, Walks, WalkTurn
    <2>2. Walks(CHOOSE f : Walks(f, t, x, t.n), t, x, t.n)
        BY <1>2, Zenon
    <2>3. QED
        BY <2>1, <2>2
<1>4. f[0] = <<<<>>, x>> /\ \A j \in 0 .. t.n - 1 : f[j + 1] = WalkTurn(t, f[j])
    <2>1. f = [j \in 0 .. t.n |-> IF j = 0 THEN <<<<>>, x>> ELSE WalkTurn(t, f[j - 1])]
        BY <1>3, Zenon DEF Walks
    <2>2. f[0] = <<<<>>, x>>
        BY <1>1, <2>1
    <2>3. ASSUME NEW j \in 0 .. t.n - 1 PROVE f[j + 1] = WalkTurn(t, f[j])
        <3>1. j + 1 \in 0 .. t.n /\ j + 1 # 0 /\ (j + 1) - 1 = j
            BY <1>1
        <3>2. QED
            BY <2>1, <3>1
    <2>4. QED
        BY <2>2, <2>3
<1> DEFINE P == {j \in 0 .. t.n : Walking(f[j], S, N, i, j)}
<1>5. 0 \in P
    <2>1. From(S, N, i, i) = {}
        <3>1. \A k \in S : k % N \in 0 .. N - 1
            BY <1>1, BucketOf
        <3>2. QED
            BY <3>1 DEF From
    <2>2. f[0][1] = <<>> /\ f[0][2] = x /\ Len(f[0][1]) = 0 /\ i \in i .. N /\ 0 \in 0 .. t.n
        BY <1>1, <1>4
    <2>3. Lists(f[0][1], From(S, N, i, i))
        BY <2>1, <2>2, ListsNothing, Zenon
    <2>4. Walking(f[0], S, N, i, 0)
        BY <2>2, <2>3, Zenon DEF Walking
    <2>5. QED
        BY <2>2, <2>4
<1>6. ASSUME NEW j \in 0 .. t.n - 1, j \in P PROVE j + 1 \in P
    <2>1. j \in Nat /\ j + 1 \in 0 .. t.n
        BY <1>1
    <2>2. Walking(f[j], S, N, i, j)
        BY <1>6
    <2>3. Walking(WalkTurn(t, f[j]), S, N, i, j + 1)
        BY <1>1, <2>1, <2>2, WalkTurnIs
    <2>4. QED
        BY <1>4, <2>1, <2>3
<1> HIDE DEF P
<1>7. \A j \in 0 .. t.n : j \in P
    BY <1>1, <1>5, <1>6, Induction, Zenon
<1>8. Walking(f[t.n], S, N, i, t.n)
    BY <1>1, <1>7 DEF P
<1>9. PICK j \in i .. N :
          /\ Lists(f[t.n][1], From(S, N, i, j))
          /\ NextOf(S, N, j, f[t.n][2])
          /\ f[t.n][2] = Hash!End \/ Len(f[t.n][1]) = t.n
    BY <1>8, Zenon DEF Walking
<1> DEFINE met == f[t.n][1]
           last == f[t.n][2]
<1>10. Lists(met, From(S, N, i, j)) /\ NextOf(S, N, j, last)
    BY <1>9
<1>11. last = Hash!End \/ Len(met) = t.n
    BY <1>9
<1>12. Hash!KeysFrom(t, x) = met
    BY <1>3
<1> HIDE DEF met, last
<1>13. From(S, N, i, j) \in SUBSET S /\ IsFiniteSet(From(S, N, i, j))
    BY <1>1, FromFinite
<1>14. Cardinality(From(S, N, i, j)) = Len(met)
    <2>1. From(S, N, i, j) \in SUBSET HashKeys
        BY <1>1, <1>13
    <2>2. QED
        BY <1>10, <2>1, ListsSize
<1>15. ASSUME last # Hash!End PROVE FALSE
    <2>1. Cardinality(From(S, N, i, j)) = Cardinality(S)
        BY <1>1, <1>11, <1>14, <1>15
    <2>2. From(S, N, i, j) = S
        BY <1>1, <1>13, <2>1, FS_Subset
    <2>3. last \in S
        BY <1>10, <1>15 DEF NextOf
    <2>4. last \notin From(S, N, i, j)
        BY <1>1, <1>10, <2>3, FromNext
    <2>5. QED
        BY <2>2, <2>3, <2>4
<1>16. \A k \in S : k % N < j
    <2>1. \A k \in S : k # Hash!End
        BY <1>1, HashAssumption DEF Hash!End
    <2>2. QED
        BY <1>10, <1>15, <2>1 DEF NextOf
<1>17. From(S, N, i, j) = From(S, N, i, N)
    <2>1. \A k \in S : k % N \in 0 .. N - 1
        BY <1>1, BucketOf
    <2>2. QED
        BY <1>16, <2>1 DEF From
<1>18. QED
    BY <1>10, <1>12, <1>17

-----------------------------------------------------------------------------
(* Hash table: erasure up to the end, where no chain has two nodes. *)

\* f is what EraseRange has after each turn.
Erases(f, t, x, n) ==
    f = [i \in 0 .. n |->
            IF i = 0 THEN <<t, x>> ELSE Hash!EraseTurn(f[i - 1][1], f[i - 1][2], Hash!End)]

LEMMA ErasesExist ==
    ASSUME NEW t, NEW x, NEW n \in Nat
    PROVE  \E f : Erases(f, t, x, n)
<1> DEFINE turn(p) == Hash!EraseTurn(p[1], p[2], Hash!End)
           P == {k \in 0 .. n : \E f : Erases(f, t, x, k)}
<1>1. 0 \in P
    <2>1. Erases([i \in 0 .. 0 |-> <<t, x>>], t, x, 0)
        BY DEF Erases
    <2>2. QED
        BY <2>1
<1>2. ASSUME NEW k \in 0 .. n - 1, k \in P PROVE k + 1 \in P
    <2>1. PICK f : Erases(f, t, x, k)
        BY <1>2
    <2>2. f = [i \in 0 .. k |-> IF i = 0 THEN <<t, x>> ELSE turn(f[i - 1])]
        BY <2>1, Zenon DEF Erases
    <2> HIDE DEF turn
    <2> DEFINE longer == [i \in 0 .. k + 1 |-> IF i = 0 THEN <<t, x>> ELSE turn(f[i - 1])]
    <2>3. ASSUME NEW i \in 0 .. k PROVE longer[i] = f[i]
        <3>1. i \in 0 .. k + 1
            BY <1>2
        <3>2. QED
            BY <2>2, <3>1, Zenon
    <2>4. ASSUME NEW i \in 0 .. k + 1, i # 0 PROVE longer[i - 1] = f[i - 1]
        <3>1. i - 1 \in 0 .. k
            BY <1>2, <2>4
        <3>2. QED
            BY <2>3, <3>1
    <2>5. longer = [i \in 0 .. k + 1 |-> IF i = 0 THEN <<t, x>> ELSE turn(longer[i - 1])]
        BY <2>4
    <2> HIDE DEF longer
    <2>6. Erases(longer, t, x, k + 1)
        BY <2>5, Zenon DEF Erases, turn
    <2>7. k + 1 \in 0 .. n
        BY <1>2
    <2>8. QED
        BY <2>6, <2>7
<1> HIDE DEF P
<1>3. \A k \in 0 .. n : k \in P
    BY <1>1, <1>2, Induction, Zenon
<1>4. n \in P
    BY <1>3
<1>5. QED
    BY <1>4, Zenon DEF P

\* After n turns of the all = elements from the bucket i, p = <<table, iterator>>.
Erasing(p, S, N, i, n, all) ==
    \E j \in i .. N :
        /\ Tabled(p[1], N, S \ From(S, N, i, j))
        /\ NextOf(S, N, j, p[2])
        /\ p[2] = Hash!End \/ p[1].n + n = all

\* What is next among the keys that are left is next among all.
LEMMA NextOfRest ==
    ASSUME NEW N, NEW S, NEW i \in Nat, NEW j \in Nat, NEW l \in Nat, j =< l,
           \A k \in S : k % N \in Int, NEW y,
           NextOf(S \ From(S, N, i, j), N, l, y)
    PROVE  NextOf(S, N, l, y)
<1>1. \A k \in S : l =< k % N => k \in S \ From(S, N, i, j)
    BY DEF From
<1>2. \A k \in S : ~ (k % N < l) <=> l =< k % N
    OBVIOUS
<1>3. CASE y = Hash!End /\ \A k \in S \ From(S, N, i, j) : k % N < l
    BY <1>1, <1>2, <1>3 DEF NextOf
<1>4. CASE /\ y \in S \ From(S, N, i, j) /\ l =< y % N
           /\ \A k \in S \ From(S, N, i, j) : l =< k % N => y % N =< k % N
    BY <1>1, <1>4 DEF NextOf
<1>5. QED
    BY <1>3, <1>4 DEF NextOf

LEMMA EraseTurnIs ==
    ASSUME NEW N \in Nat \ {0}, NEW S \in SUBSET HashKeys, Single(S, N),
           NEW i \in 0 .. N, NEW n \in Nat, NEW all, NEW p, Erasing(p, S, N, i, n, all)
    PROVE  Erasing(Hash!EraseTurn(p[1], p[2], Hash!End), S, N, i, n + 1, all)
<1>1. PICK j \in i .. N :
          /\ Tabled(p[1], N, S \ From(S, N, i, j))
          /\ NextOf(S, N, j, p[2])
          /\ p[2] = Hash!End \/ p[1].n + n = all
    BY Zenon DEF Erasing
<1> DEFINE x == p[2]
           t == p[1]
           T == S \ From(S, N, i, j)
<1>2. \A k \in S : k \in HashKeys /\ k \in Nat /\ k % N \in 0 .. N - 1
    BY BucketOf, HashAssumption
<1>3. i \in Nat /\ j \in Nat /\ N \in Nat
    OBVIOUS
<1>4. CASE x = Hash!End
    <2>1. Hash!EraseTurn(t, x, Hash!End) = <<t, Hash!End>>
        BY <1>4 DEF Hash!EraseTurn
    <2> DEFINE q == <<t, Hash!End>>
    <2>2. q[1] = t /\ q[2] = Hash!End
        OBVIOUS
    <2> HIDE DEF q
    <2>3. Erasing(q, S, N, i, n + 1, all)
        BY <1>1, <1>4, <2>2, Zenon DEF Erasing
    <2>4. QED
        BY <2>1, <2>3 DEF q
<1>5. CASE x # Hash!End
    <2>1. x \in S /\ j =< x % N
        BY <1>1, <1>5 DEF NextOf
    <2>2. x \in T
        BY <1>1, <1>2, <2>1, FromNext
    <2>3. Single(T, N) /\ T \in SUBSET HashKeys
        BY DEF Single
    <2>4. Tabled(t, N, T) /\ Stores(t.b, N, T) /\ t.n \in Nat /\ t.n = Cardinality(T) /\ IsFiniteSet(T)
        BY <1>1 DEF Tabled, Tables
    <2> DEFINE y == Hash!Increment(t, x)
               l == (x % N) + 1
               u == Hash!EraseNode(t, x)
    <2>5. NextOf(T, N, l, y)
        <3> HIDE DEF T, x, t
        <3>1. QED
            BY <2>2, <2>3, <2>4, IncrementIs
    <2>6. y # x
        BY <1>2, <2>1, <2>5, <1>5 DEF NextOf
    <2>7. x \notin {Hash!Freed, Hash!End}
        BY <1>2, <2>1 DEF Hash!Freed, Hash!End
    <2>8. Hash!EraseTurn(t, x, Hash!End) = <<u, y>>
        BY <2>6, <2>7 DEF Hash!EraseTurn, Hash!Erase
    <2>9. ~ Hash!SecondInChain(t, x)
        <3>1. Hash!ChainOf(t, x) = t.b[x % N]
            BY <1>2, <2>1, <2>4, ChainIs
        <3> HIDE DEF T, x, t
        <3>2. Len(t.b[x % N]) = 1
            BY <2>2, <2>3, <2>4, ChainOfSingle
        <3>3. QED
            BY <3>1, <3>2 DEF Hash!SecondInChain
    <2>10. Tabled(u, N, T \ {x})
        <3> HIDE DEF T, x, t
        <3>1. QED
            BY <2>2, <2>4, <2>9, EraseNodeIs
    <2>11. /\ l \in i .. N
           /\ From(S, N, i, l) = From(S, N, i, j) \cup {x}
        BY <1>1, <2>1, FromNext
    <2>12. T \ {x} = S \ From(S, N, i, l)
        BY <2>11
    <2>13. l \in Nat /\ j =< l
        BY <1>2, <2>1
    <2>14. \A k \in S : k % N \in Int
        BY <1>2
    <2>15. NextOf(S, N, l, y)
        <3> HIDE DEF l, y
        <3>1. QED
            BY <1>3, <2>5, <2>13, <2>14, NextOfRest
    <2>16. u.n + (n + 1) = all
        <3>1. t.n + n = all
            BY <1>1, <1>5
        <3> HIDE DEF u, t, T, x
        <3>2. u.n = Cardinality(T \ {x})
            BY <2>10 DEF Tabled
        <3>3. Cardinality(T \ {x}) = Cardinality(T) - 1
            BY <2>2, <2>4, FS_RemoveElement
        <3>4. QED
            BY <2>4, <3>1, <3>2, <3>3
    <2> DEFINE q == <<u, y>>
    <2> HIDE DEF u, y, l, T, x, t
    <2>17. q[1] = u /\ q[2] = y
        OBVIOUS
    <2> HIDE DEF q
    <2>18. Tabled(q[1], N, S \ From(S, N, i, l))
        BY <2>10, <2>12, <2>17
    <2>19. Erasing(q, S, N, i, n + 1, all)
        BY <2>11, <2>15, <2>16, <2>17, <2>18, Zenon DEF Erasing
    <2>20. QED
        BY <2>8, <2>19 DEF q, x, t
<1>6. QED
    BY <1>4, <1>5

\* One turn more than keys: erase(find(k), end()) comes to the end.
LEMMA EraseRangeIs ==
    ASSUME NEW N \in Nat \ {0}, NEW t, NEW S, Tabled(t, N, S), Single(S, N),
           NEW i \in 0 .. N, NEW x, NextOf(S, N, i, x)
    PROVE  Tabled(Hash!EraseRange(t, x, Hash!End), N, S \ From(S, N, i, N))
<1> DEFINE n == t.n + 1
<1>1. /\ S \in SUBSET HashKeys /\ IsFiniteSet(S) /\ t.n \in Nat /\ t.n = Cardinality(S) /\ n \in Nat
    BY DEF Tabled, Tables
<1>2. \E f : Erases(f, t, x, n)
    BY <1>1, ErasesExist
<1>3. PICK f : Erases(f, t, x, n) /\ Hash!EraseRange(t, x, Hash!End) = f[n][1]
    <2>1. Hash!EraseRange(t, x, Hash!End) = (CHOOSE f : Erases(f, t, x, n))[n][1]
        BY DEF Hash!EraseRange, Erases
    <2>2. Erases(CHOOSE f : Erases(f, t, x, n), t, x, n)
        BY <1>2, Zenon
    <2>3. QED
        BY <2>1, <2>2
<1> HIDE DEF n
<1> DEFINE turn(p) == Hash!EraseTurn(p[1], p[2], Hash!End)
<1>4. f[0] = <<t, x>> /\ \A j \in 0 .. n - 1 : f[j + 1] = turn(f[j])
    <2>1. f = [j \in 0 .. n |-> IF j = 0 THEN <<t, x>> ELSE turn(f[j - 1])]
        BY <1>3, Zenon DEF Erases
    <2> HIDE DEF turn
    <2>2. f[0] = <<t, x>>
        BY <1>1, <2>1
    <2>3. ASSUME NEW j \in 0 .. n - 1 PROVE f[j + 1] = turn(f[j])
        <3>1. j + 1 \in 0 .. n /\ j + 1 # 0 /\ (j + 1) - 1 = j
            BY <1>1
        <3>2. QED
            BY <2>1, <3>1
    <2>4. QED
        BY <2>2, <2>3
<1> DEFINE P == {j \in 0 .. n : Erasing(f[j], S, N, i, j, t.n)}
<1>5. \A k \in S : k \in HashKeys /\ k \in Nat /\ k % N \in 0 .. N - 1
    BY <1>1, BucketOf, HashAssumption
<1>6. 0 \in P
    <2>1. S \ From(S, N, i, i) = S
        BY <1>5 DEF From
    <2>2. f[0][1] = t /\ f[0][2] = x /\ f[0][1].n + 0 = t.n /\ i \in i .. N /\ 0 \in 0 .. n
        BY <1>1, <1>4
    <2>3. Tabled(f[0][1], N, S \ From(S, N, i, i))
        BY <2>1, <2>2
    <2>4. Erasing(f[0], S, N, i, 0, t.n)
        BY <2>2, <2>3, Zenon DEF Erasing
    <2>5. QED
        BY <2>2, <2>4
<1>7. ASSUME NEW j \in 0 .. n - 1, j \in P PROVE j + 1 \in P
    <2>1. j \in Nat /\ j + 1 \in 0 .. n
        BY <1>1
    <2>2. Erasing(f[j], S, N, i, j, t.n)
        BY <1>7
    <2>3. Erasing(turn(f[j]), S, N, i, j + 1, t.n)
        BY <1>1, <2>1, <2>2, EraseTurnIs
    <2>4. QED
        BY <1>4, <2>1, <2>3
<1> HIDE DEF P
<1>8. \A j \in 0 .. n : j \in P
    BY <1>1, <1>6, <1>7, Induction, Zenon
<1>9. Erasing(f[n], S, N, i, n, t.n)
    BY <1>1, <1>8 DEF P
<1>10. PICK j \in i .. N :
           /\ Tabled(f[n][1], N, S \ From(S, N, i, j))
           /\ NextOf(S, N, j, f[n][2])
           /\ f[n][2] = Hash!End \/ f[n][1].n + n = t.n
    BY <1>9, Zenon DEF Erasing
<1>11. f[n][1].n \in Nat
    BY <1>10 DEF Tabled, Tables
<1>12. f[n][2] = Hash!End
    BY <1>1, <1>10, <1>11 DEF n
<1>13. \A k \in S : k % N < j
    <2>1. \A k \in S : k # Hash!End
        BY <1>5 DEF Hash!End
    <2>2. QED
        BY <1>10, <1>12, <2>1 DEF NextOf
<1>14. From(S, N, i, j) = From(S, N, i, N)
    BY <1>5, <1>13 DEF From
<1>15. QED
    BY <1>3, <1>10, <1>14

-----------------------------------------------------------------------------
(* Hash table: what the set promises. *)

\* The invariant: the table holds the keys put in and not removed.
HashKept == which = "hash" => \E N \in Nat \ {0} : Tabled(table, N, hashed)

LEMMA TabledAgrees ==
    ASSUME NEW N \in Nat \ {0}, Tabled(table, N, hashed)
    PROVE  Hash!TableAgrees
<1>1. /\ hashed \in SUBSET HashKeys /\ IsFiniteSet(hashed) /\ Stores(table.b, N, hashed)
      /\ table.n = Cardinality(hashed) /\ table.n \in Nat
    BY DEF Tabled, Tables
<1>2. table.ok
    BY DEF Tabled
<1>3. Hash!Cardinality(hashed) = Cardinality(hashed)
    BY Zenon DEF Hash!Cardinality, Cardinality, Hash!IsFiniteSet, IsFiniteSet
<1>4. Hash!Buckets(table) = N /\ DOMAIN table.b = 0 .. N - 1
    BY <1>1, BucketsIs DEF Stores
<1>5. ASSUME NEW i \in 0 .. N - 1
      PROVE  /\ Hash!IsInjective(table.b[i])
             /\ \A k \in Hash!ToSet(table.b[i]) : k \in hashed /\ Hash!BucketNum(k, N) = i
    <2>1. table.b[i] \in Seq(HashKeys) /\ DOMAIN table.b[i] = 1 .. Len(table.b[i])
        BY <1>1 DEF Stores
    <2>2. Hash!IsInjective(table.b[i])
        BY <1>1, <2>1 DEF Stores, Hash!IsInjective
    <2>3. ASSUME NEW k \in Hash!ToSet(table.b[i]) PROVE k \in hashed /\ k % N = i
        <3>1. PICK j \in 1 .. Len(table.b[i]) : table.b[i][j] = k
            BY <2>1, <2>3 DEF Hash!ToSet
        <3>2. k \in HashKeys /\ k % N = i
            BY <1>1, <2>1, <3>1 DEF Stores
        <3>3. Hash!Contains(table.b[k % N], k)
            BY <3>1, <3>2 DEF Hash!Contains
        <3>4. QED
            BY <1>1, <3>2, <3>3, StoredIs
    <2>4. QED
        BY <2>2, <2>3 DEF Hash!BucketNum
<1>6. ASSUME NEW k \in HashKeys
      PROVE  /\ (Hash!Find(table, k) = k) = (k \in hashed)
             /\ k \in hashed => k % N \in 0 .. N - 1 /\ k \in Hash!ToSet(table.b[k % N])
    <2>1. Hash!ChainOf(table, k) = table.b[k % N] /\ k % N \in 0 .. N - 1
          /\ table.b[k % N] \in Seq(HashKeys)
        BY <1>1, ChainIs
    <2>2. k # Hash!End
        BY HashAssumption DEF Hash!End
    <2>3. k \in hashed <=> Hash!Contains(table.b[k % N], k)
        BY <1>1, StoredIs
    <2>4. Hash!Contains(table.b[k % N], k) => k \in Hash!ToSet(table.b[k % N])
        BY <2>1 DEF Hash!Contains, Hash!ToSet
    <2>5. CASE k \in hashed
        BY <2>1, <2>2, <2>3, <2>4, <2>5 DEF Hash!Find
    <2>6. CASE k \notin hashed
        BY <2>1, <2>2, <2>3, <2>4, <2>6 DEF Hash!Find
    <2>7. QED
        BY <2>5, <2>6
<1>7. UNION {Hash!ToSet(table.b[i]) : i \in DOMAIN table.b} = hashed
    BY <1>1, <1>4, <1>5, <1>6
<1>8. ASSUME \A i \in DOMAIN table.b : Len(table.b[i]) =< 1
      PROVE  LET walk == Hash!KeysFrom(table, Hash!GetFirstElem(table))
             IN Hash!ToSet(walk) = hashed /\ Len(walk) = Hash!Cardinality(hashed)
    <2> DEFINE x == Hash!GetFirstElem(table)
               walk == Hash!KeysFrom(table, x)
    <2>1. Single(hashed, N)
        BY <1>1, <1>8, SingleIs
    <2>2. NextOf(hashed, N, 0, x)
        <3>1. CASE table.n = 0
            <4>1. x = Hash!End /\ hashed = {}
                BY <1>1, <3>1, FS_EmptySet DEF Hash!GetFirstElem
            <4>2. QED
                BY <4>1 DEF NextOf
        <3>2. CASE table.n # 0
            <4>1. x = Hash!FirstFrom(table, 0)
                BY <3>2 DEF Hash!GetFirstElem
            <4>2. QED
                BY <1>1, <4>1, FirstFromIs
        <3>3. QED
            BY <3>1, <3>2
    <2> HIDE DEF x
    <2>3. Lists(walk, From(hashed, N, 0, N))
        BY <2>1, <2>2, KeysFromIs
    <2>4. From(hashed, N, 0, N) = hashed
        <3>1. \A k \in hashed : k % N \in 0 .. N - 1
            BY <1>1, BucketOf
        <3>2. QED
            BY <3>1 DEF From
    <2> HIDE DEF walk
    <2>5. Lists(walk, hashed)
        BY <2>3, <2>4
    <2>6. Len(walk) = Cardinality(hashed)
        BY <1>1, <2>5, ListsSize
    <2>7. Hash!ToSet(walk) = hashed
        BY <1>1, <2>5 DEF Lists, Hash!ToSet
    <2>8. QED
        BY <1>3, <2>6, <2>7 DEF walk, x
<1>9. table.n =< N \/ N = Hash!Last(PrimesList)
    BY DEF Tabled
<1>10. QED
    BY <1>1, <1>2, <1>3, <1>4, <1>5, <1>6, <1>7, <1>8, <1>9 DEF Hash!TableAgrees

\* The calls that the table does not survive are not made.
CarefulHash == {"second", "chains"} \subseteq HashAvoids

LEMMA HashStarts ==
    ASSUME Hash!HashInit
    PROVE  \E N \in Nat \ {0} : Tabled(table, N, hashed)
<1> DEFINE N == Hash!NextPrime(0)
           b == [i \in 0 .. N - 1 |-> <<>>]
<1>1. N \in Nat \ {0}
    BY NextPrimeIs
<1>2. table = [b |-> b, n |-> 0, ok |-> TRUE] /\ hashed = {}
    BY DEF Hash!HashInit, Hash!EmptyTable, Hash!NoBuckets
<1>3. Stores(b, N, {})
    BY <1>1, NothingStored
<1>4. b \in [0 .. N - 1 -> Seq(HashKeys)]
    BY <1>3 DEF Stores
<1> HIDE DEF N, b
<1>5. table.b = b /\ table.n = 0
    BY <1>2
<1>6. table.ok
    BY <1>2
<1>7. table \in Tables(N)
    BY <1>2, <1>4 DEF Tables
<1>8. IsFiniteSet({}) /\ Cardinality({}) = 0
    BY FS_EmptySet
<1>9. 0 =< N
    BY <1>1
<1>10. Tabled(table, N, hashed)
    BY <1>2, <1>3, <1>5, <1>6, <1>7, <1>8, <1>9 DEF Tabled
<1>11. QED
    BY <1>1, <1>10

LEMMA HashEraseStep ==
    ASSUME CarefulHash, NEW N \in Nat \ {0}, Tabled(table, N, hashed),
           NEW k \in HashKeys, Hash!HashErase(k)
    PROVE  Tabled(table', N, hashed')
<1>1. hashed' = hashed \ {k} /\ table' = Hash!Erase(table, Hash!Find(table, k))[1]
    BY DEF Hash!HashErase
<1>2. k # Hash!End
    BY HashAssumption DEF Hash!End
<1>3. /\ Hash!ChainOf(table, k) = table.b[k % N]
      /\ k \in hashed <=> Hash!Contains(table.b[k % N], k)
    BY ChainIs, StoredIs DEF Tabled
<1>4. CASE k \in hashed
    <2>1. Hash!Find(table, k) = k
        BY <1>3, <1>4 DEF Hash!Find
    <2>2. table' = Hash!EraseNode(table, k)
        BY <1>1, <1>2, <2>1 DEF Hash!Erase
    <2>3. ~ Hash!SecondInChain(table, k)
        BY <1>4 DEF Hash!HashErase, CarefulHash
    <2>4. QED
        BY <1>1, <1>4, <2>2, <2>3, EraseNodeIs
<1>5. CASE k \notin hashed
    <2>1. Hash!Find(table, k) = Hash!End
        BY <1>3, <1>5 DEF Hash!Find
    <2>2. table' = table
        BY <1>1, <2>1 DEF Hash!Erase
    <2>3. hashed' = hashed
        BY <1>1, <1>5
    <2>4. QED
        BY <2>2, <2>3
<1>6. QED
    BY <1>4, <1>5

LEMMA HashEraseFromStep ==
    ASSUME CarefulHash, NEW N \in Nat \ {0}, Tabled(table, N, hashed),
           NEW k \in hashed, Hash!HashEraseFrom(k)
    PROVE  Tabled(table', N, hashed')
<1> DEFINE i == k % N
<1>1. /\ hashed' = hashed \ Hash!ToSet(Hash!KeysFrom(table, k))
      /\ table' = Hash!EraseRange(table, k, Hash!End)
      /\ \A j \in DOMAIN table.b : Len(table.b[j]) =< 1
    BY DEF Hash!HashEraseFrom, CarefulHash
<1>2. hashed \in SUBSET HashKeys /\ Stores(table.b, N, hashed)
    BY DEF Tabled
<1>3. Single(hashed, N)
    BY <1>1, <1>2, SingleIs
<1>4. i \in 0 .. N - 1 /\ i \in 0 .. N /\ i =< i
    BY <1>2, BucketOf
<1>5. NextOf(hashed, N, i, k)
    BY <1>4 DEF NextOf
<1> HIDE DEF i
<1>6. Tabled(Hash!EraseRange(table, k, Hash!End), N, hashed \ From(hashed, N, i, N))
    BY <1>3, <1>4, <1>5, EraseRangeIs
<1>7. Lists(Hash!KeysFrom(table, k), From(hashed, N, i, N))
    BY <1>3, <1>4, <1>5, KeysFromIs
<1>8. From(hashed, N, i, N) \in SUBSET HashKeys
    BY <1>2 DEF From
<1>9. Hash!ToSet(Hash!KeysFrom(table, k)) = From(hashed, N, i, N)
    BY <1>7, <1>8 DEF Lists, Hash!ToSet
<1>10. QED
    BY <1>1, <1>6, <1>9

LEMMA HashClearStep ==
    ASSUME NEW N \in Nat \ {0}, Tabled(table, N, hashed), Hash!HashClear
    PROVE  Tabled(table', N, hashed')
<1> DEFINE b == [i \in 0 .. N - 1 |-> <<>>]
<1>1. table \in Tables(N) /\ Stores(table.b, N, hashed) /\ DOMAIN table.b = 0 .. N - 1
    BY DEF Tabled, Stores
<1>2. table.ok
    BY DEF Tabled
<1>3. table' = [table EXCEPT !.b = b, !.n = 0] /\ hashed' = {}
    BY <1>1 DEF Hash!HashClear, Hash!ClearTable, Tables
<1>4. Stores(b, N, {})
    BY NothingStored
<1>5. b \in [0 .. N - 1 -> Seq(HashKeys)]
    BY <1>4 DEF Stores
<1> HIDE DEF b
<1>6. table'.b = b /\ table'.n = 0 /\ table' \in Tables(N)
    BY <1>1, <1>3, <1>5 DEF Tables
<1>7. table'.ok
    BY <1>1, <1>2, <1>3 DEF Tables
<1>8. IsFiniteSet({}) /\ Cardinality({}) = 0
    BY FS_EmptySet
<1>9. 0 =< N
    OBVIOUS
<1>10. QED
    BY <1>3, <1>4, <1>6, <1>7, <1>8, <1>9 DEF Tabled

LEMMA HashStep ==
    ASSUME CarefulHash, HashKept, [NodesNext]_nodesVars
    PROVE  HashKept'
<1>1. CASE UNCHANGED nodesVars
    BY <1>1 DEF HashKept, nodesVars, nodes, Tabled, Stores, Tables
<1>2. CASE NodesNext /\ which # "hash"
    BY <1>2 DEF NodesNext, HashKept
<1>3. CASE NodesNext /\ which = "hash"
    <2>1. which = "hash" /\ which' = which /\ Hash!HashNext
        BY <1>3 DEF NodesNext
    <2>2. PICK N \in Nat \ {0} : Tabled(table, N, hashed)
        BY <2>1, Zenon DEF HashKept
    <2>3. hashed \in SUBSET HashKeys
        BY <2>2 DEF Tabled
    <2>4. ASSUME NEW k \in HashKeys, Hash!HashInsert(k)
          PROVE  \E M \in Nat \ {0} : Tabled(table', M, hashed')
        BY <2>2, <2>4, InsertUniqueIs DEF Hash!HashInsert
    <2>5. ASSUME NEW hint \in hashed, NEW k \in HashKeys, Hash!HashInsertHint(hint, k)
          PROVE  \E M \in Nat \ {0} : Tabled(table', M, hashed')
        BY <2>2, <2>5, InsertHintIs DEF Hash!HashInsertHint
    <2>6. ASSUME NEW k \in HashKeys, Hash!HashErase(k)
          PROVE  \E M \in Nat \ {0} : Tabled(table', M, hashed')
        BY <2>2, <2>6, HashEraseStep
    <2>7. ASSUME NEW k \in hashed, Hash!HashEraseFrom(k)
          PROVE  \E M \in Nat \ {0} : Tabled(table', M, hashed')
        BY <2>2, <2>7, HashEraseFromStep
    <2>8. ASSUME Hash!HashClear
          PROVE  \E M \in Nat \ {0} : Tabled(table', M, hashed')
        BY <2>2, <2>8, HashClearStep
    <2>9. \E M \in Nat \ {0} : Tabled(table', M, hashed')
        BY <2>1, <2>4, <2>5, <2>6, <2>7, <2>8 DEF Hash!HashNext
    <2>10. QED
        BY <2>1, <2>9, Zenon DEF HashKept
<1>4. QED
    BY <1>1, <1>2, <1>3

\* Whatever is inserted and removed, with or without a hint, one key or all
\* from one on, and however often the table is rehashed: a key is found
\* exactly when it is in the set, it sits once and in the bucket of its hash,
\* and where no chain has two nodes iteration meets every key once.  For any
\* keys that are numbers and any list of positive numbers of buckets, where no
\* key that is second in its chain is erased and no range is erased from a
\* table that has a chain of two.
THEOREM HashAlwaysAgrees ==
    ASSUME CarefulHash
    PROVE  NodesSpec => []HashAgrees
<1>1. NodesInit => HashKept
    BY HashStarts DEF NodesInit, HashKept
<1>2. HashKept /\ [NodesNext]_nodesVars => HashKept'
    BY HashStep
<1>3. HashKept => HashAgrees
    BY TabledAgrees DEF HashKept, HashAgrees
<1>4. QED
    BY <1>1, <1>2, <1>3, PTL DEF NodesSpec

-----------------------------------------------------------------------------
(* Trie: the ways to its nodes. *)

Sides == {"left", "mid", "right"}
Ways == Seq(Sides)
Texts == Seq(Nat) \ {<<>>}

\* The way of the first i sides of n.
Upto(n, i) == SubSeq(n, 1, i)

\* How many sides of n are "mid".
MidsOf(n) == {i \in 1 .. Len(n) : n[i] = "mid"}
Mids(n) == Cardinality(MidsOf(n))

\* The position that a search has come to at the node n.
Pos(n) == Mids(n) + 1

LEMMA UptoIs ==
    ASSUME NEW n \in Ways, NEW i \in 0 .. Len(n)
    PROVE  /\ Upto(n, i) \in Ways /\ Len(Upto(n, i)) = i
           /\ \A j \in 1 .. i : Upto(n, i)[j] = n[j]
           /\ Upto(n, Len(n)) = n
BY DEF Upto, Ways

LEMMA UptoSame ==
    ASSUME NEW m \in Ways, NEW n \in Ways, NEW i \in 0 .. Len(m), i =< Len(n),
           \A j \in 1 .. i : m[j] = n[j]
    PROVE  Upto(m, i) = Upto(n, i)
<1>1. i \in 0 .. Len(n)
    BY DEF Ways
<1>2. /\ Upto(m, i) \in Ways /\ Len(Upto(m, i)) = i /\ \A j \in 1 .. i : Upto(m, i)[j] = m[j]
      /\ Upto(n, i) \in Ways /\ Len(Upto(n, i)) = i /\ \A j \in 1 .. i : Upto(n, i)[j] = n[j]
    BY <1>1, UptoIs
<1>3. QED
    BY <1>2, SeqEqual DEF Ways

LEMMA AppendIs ==
    ASSUME NEW n \in Ways, NEW side \in Sides
    PROVE  /\ Append(n, side) \in Ways
           /\ Len(Append(n, side)) = Len(n) + 1
           /\ Append(n, side)[Len(n) + 1] = side
           /\ \A i \in 1 .. Len(n) : Append(n, side)[i] = n[i]
<1>1. n \in Seq(Sides)
    BY DEF Ways
<1>2. Append(n, side) \in Seq(Sides)
    BY <1>1
<1>3. QED
    BY <1>1, <1>2 DEF Ways

LEMMA AppendUpto ==
    ASSUME NEW n \in Ways, NEW side \in Sides, NEW i \in 0 .. Len(n)
    PROVE  Upto(Append(n, side), i) = Upto(n, i)
<1>1. Len(n) \in Nat
    BY DEF Ways
<1>2. i \in 0 .. Len(Append(n, side)) /\ i =< Len(n) /\ i \in 0 .. Len(n)
    BY <1>1, AppendIs
<1>3. \A j \in 1 .. i : Append(n, side)[j] = n[j]
    BY <1>1, AppendIs
<1>4. QED
    BY <1>2, <1>3, AppendIs, UptoSame

LEMMA AppendOnce ==
    ASSUME NEW n \in Ways, NEW side \in Sides, NEW m \in Ways, NEW other \in Sides,
           Append(n, side) = Append(m, other)
    PROVE  n = m /\ side = other
<1>1. Len(n) \in Nat /\ Len(m) \in Nat
    BY DEF Ways
<1>2. Len(n) = Len(m) /\ side = other
    BY <1>1, AppendIs
<1>3. Len(n) \in 0 .. Len(n) /\ Len(n) \in 0 .. Len(m)
    BY <1>1, <1>2
<1>4. Upto(Append(n, side), Len(n)) = Upto(n, Len(n))
    BY <1>3, AppendUpto
<1>5. Upto(Append(m, other), Len(n)) = Upto(m, Len(n))
    BY <1>3, AppendUpto
<1>6. Upto(n, Len(n)) = n /\ Upto(m, Len(m)) = m
    BY <1>3, UptoIs
<1>7. QED
    BY <1>2, <1>4, <1>5, <1>6

\* A way is its start and one more side.
LEMMA UptoNext ==
    ASSUME NEW n \in Ways, NEW i \in 0 .. Len(n) - 1
    PROVE  /\ n[i + 1] \in Sides
           /\ Upto(n, i) \in Ways
           /\ Upto(n, i + 1) = Append(Upto(n, i), n[i + 1])
<1>1. Len(n) \in Nat /\ i \in 0 .. Len(n) /\ i + 1 \in 0 .. Len(n) /\ i + 1 \in 1 .. Len(n)
    BY DEF Ways
<1>2. n[i + 1] \in Sides
    BY <1>1 DEF Ways
<1>3. Upto(n, i) \in Ways /\ Len(Upto(n, i)) = i /\ \A j \in 1 .. i : Upto(n, i)[j] = n[j]
    BY <1>1, UptoIs
<1>4. /\ Upto(n, i + 1) \in Ways /\ Len(Upto(n, i + 1)) = i + 1
      /\ \A j \in 1 .. i + 1 : Upto(n, i + 1)[j] = n[j]
    BY <1>1, UptoIs
<1> DEFINE a == Append(Upto(n, i), n[i + 1])
<1>5. /\ a \in Ways /\ Len(a) = i + 1 /\ a[i + 1] = n[i + 1]
      /\ \A j \in 1 .. i : a[j] = Upto(n, i)[j]
    BY <1>2, <1>3, AppendIs
<1> HIDE DEF a
<1>6. ASSUME NEW j \in 1 .. i + 1 PROVE a[j] = n[j]
    <2>1. j \in 1 .. i \/ j = i + 1
        BY <1>1
    <2>2. QED
        BY <1>3, <1>5, <2>1
<1>7. \A j \in 1 .. Len(a) : a[j] = Upto(n, i + 1)[j]
    BY <1>4, <1>5, <1>6
<1>8. a = Upto(n, i + 1)
    BY <1>4, <1>5, <1>7, SeqEqual DEF Ways
<1>9. QED
    BY <1>2, <1>3, <1>8 DEF a

LEMMA MidsIs ==
    ASSUME NEW n \in Ways
    PROVE  IsFiniteSet(MidsOf(n)) /\ Mids(n) \in Nat
<1>1. Len(n) \in Nat
    BY DEF Ways
<1>2. IsFiniteSet(1 .. Len(n)) /\ MidsOf(n) \in SUBSET (1 .. Len(n))
    BY <1>1, FS_Interval DEF MidsOf
<1>3. QED
    BY <1>2, FS_Subset, FS_CardinalityType DEF Mids

LEMMA MidsNone == Mids(<<>>) = 0 /\ <<>> \in Ways /\ Len(<<>>) = 0
<1>1. MidsOf(<<>>) = {}
    BY DEF MidsOf
<1>2. QED
    BY <1>1, FS_EmptySet DEF Mids, Ways

LEMMA MidsAppend ==
    ASSUME NEW n \in Ways, NEW side \in Sides
    PROVE  Mids(Append(n, side)) = IF side = "mid" THEN Mids(n) + 1 ELSE Mids(n)
<1> DEFINE a == Append(n, side)
<1>1. Len(n) \in Nat
    BY DEF Ways
<1>2. Len(a) = Len(n) + 1 /\ a[Len(n) + 1] = side /\ \A i \in 1 .. Len(n) : a[i] = n[i]
    BY AppendIs
<1> HIDE DEF a
<1>3. \A i \in 1 .. Len(a) : i \in 1 .. Len(n) \/ i = Len(n) + 1
    BY <1>1, <1>2
<1>4. MidsOf(a) = IF side = "mid" THEN MidsOf(n) \cup {Len(n) + 1} ELSE MidsOf(n)
    BY <1>1, <1>2, <1>3 DEF MidsOf
<1>5. Len(n) + 1 \notin MidsOf(n)
    BY <1>1 DEF MidsOf
<1>6. IsFiniteSet(MidsOf(n))
    BY MidsIs
<1>7. Cardinality(MidsOf(n) \cup {Len(n) + 1}) = Cardinality(MidsOf(n)) + 1
    BY <1>5, <1>6, FS_AddElement
<1>8. QED
    BY <1>4, <1>7 DEF Mids, a

-----------------------------------------------------------------------------
(* Trie: the way of a search. *)

\* Every node but the root hangs from another.
Rooted(t) ==
    /\ DOMAIN t \in SUBSET Ways /\ IsFiniteSet(DOMAIN t)
    /\ t \in [DOMAIN t -> [c : Nat, v : Nat]]
    /\ \A n \in Ways, side \in Sides : Append(n, side) \in DOMAIN t => n \in DOMAIN t

\* The search for u stops at n.
Stopped(t, u, n) == n \notin DOMAIN t \/ Trie!Found(t, n, u, Pos(n))

\* It goes on to the side.
Leads(t, u, n, side) == ~ Stopped(t, u, n) /\ side = Trie!Side(t, n, u[Pos(n)])

\* It comes to n, and it ends there.
Follows(t, u, n) == \A i \in 0 .. Len(n) - 1 : Leads(t, u, Upto(n, i), n[i + 1])
Ends(t, u, n) == n \in Ways /\ Follows(t, u, n) /\ Stopped(t, u, n)

LEMMA SideIs ==
    ASSUME NEW t, NEW n, NEW c
    PROVE  /\ Trie!Side(t, n, c) \in Sides
           /\ Trie!Side(t, n, c) = "mid" <=> c = t[n].c
BY DEF Trie!Side, Sides

LEMMA FollowsNone ==
    ASSUME NEW t, NEW u
    PROVE  Follows(t, u, <<>>)
BY MidsNone DEF Follows

LEMMA FollowsAppend ==
    ASSUME NEW t, NEW u, NEW n \in Ways, NEW side \in Sides, Follows(t, u, n), Leads(t, u, n, side)
    PROVE  Follows(t, u, Append(n, side))
<1> DEFINE a == Append(n, side)
<1>1. Len(n) \in Nat /\ Len(a) = Len(n) + 1 /\ a[Len(n) + 1] = side
    BY AppendIs DEF Ways
<1>2. ASSUME NEW i \in 0 .. Len(a) - 1 PROVE Leads(t, u, Upto(a, i), a[i + 1])
    <2>1. i \in 0 .. Len(n)
        BY <1>1
    <2>2. Upto(a, i) = Upto(n, i)
        BY <2>1, AppendUpto
    <2>3. CASE i = Len(n)
        <3>1. Upto(n, i) = n
            BY <2>1, <2>3, UptoIs
        <3>2. QED
            BY <1>1, <2>2, <2>3, <3>1
    <2>4. CASE i # Len(n)
        <3>1. i \in 0 .. Len(n) - 1 /\ i + 1 \in 1 .. Len(n)
            BY <1>1, <2>1, <2>4
        <3>2. a[i + 1] = n[i + 1]
            BY <3>1, AppendIs
        <3>3. Leads(t, u, Upto(n, i), n[i + 1])
            BY <3>1 DEF Follows
        <3>4. QED
            BY <2>2, <3>2, <3>3
    <2>5. QED
        BY <2>3, <2>4
<1>3. QED
    BY <1>2 DEF Follows

\* What leads to a way leads to its starts.
LEMMA FollowsUpto ==
    ASSUME NEW t, NEW u, NEW n \in Ways, Follows(t, u, n), NEW k \in 0 .. Len(n)
    PROVE  Follows(t, u, Upto(n, k))
<1>1. Len(n) \in Nat
    BY DEF Ways
<1>2. Upto(n, k) \in Ways /\ Len(Upto(n, k)) = k /\ \A j \in 1 .. k : Upto(n, k)[j] = n[j]
    BY UptoIs
<1>3. ASSUME NEW i \in 0 .. k - 1 PROVE Leads(t, u, Upto(Upto(n, k), i), Upto(n, k)[i + 1])
    <2>1. i \in 0 .. Len(n) - 1 /\ i + 1 \in 1 .. k /\ i \in 0 .. k /\ i =< Len(n)
        BY <1>1
    <2>2. Leads(t, u, Upto(n, i), n[i + 1])
        BY <2>1 DEF Follows
    <2>3. \A j \in 1 .. i : Upto(n, k)[j] = n[j]
        BY <1>2, <2>1
    <2>4. Upto(Upto(n, k), i) = Upto(n, i)
        BY <1>2, <2>1, <2>3, UptoSame
    <2>5. QED
        BY <1>2, <2>1, <2>2, <2>4
<1>4. QED
    BY <1>2, <1>3 DEF Follows

\* The search stays within the text.
LEMMA PosBound ==
    ASSUME NEW t, NEW u \in Texts, NEW n \in Ways, Follows(t, u, n)
    PROVE  Pos(n) \in 1 .. Len(u)
<1>1. Len(n) \in Nat /\ Len(u) \in Nat \ {0} /\ u # <<>>
    BY DEF Ways, Texts
<1> DEFINE P == {i \in 0 .. Len(n) : Pos(Upto(n, i)) \in 1 .. Len(u)}
<1>2. 0 \in P
    <2>1. Upto(n, 0) = <<>>
        BY <1>1, UptoIs, EmptySeq DEF Ways
    <2>2. Pos(Upto(n, 0)) = 1
        BY <2>1, MidsNone DEF Pos
    <2>3. QED
        BY <1>1, <2>2
<1>3. ASSUME NEW i \in 0 .. Len(n) - 1, i \in P PROVE i + 1 \in P
    <2> DEFINE m == Upto(n, i)
    <2>1. m \in Ways /\ n[i + 1] \in Sides /\ Upto(n, i + 1) = Append(m, n[i + 1])
        BY <1>1, UptoNext
    <2>2. Leads(t, u, m, n[i + 1])
        BY DEF Follows
    <2>3. Mids(m) \in Nat /\ Pos(m) \in 1 .. Len(u)
        BY <1>3, <2>1, MidsIs
    <2> HIDE DEF m
    <2>4. CASE n[i + 1] = "mid"
        <3>1. u[Pos(m)] = t[m].c
            BY <2>2, <2>4, SideIs DEF Leads
        <3>2. Pos(m) # Len(u)
            BY <1>1, <2>2, <3>1 DEF Leads, Stopped, Trie!Found
        <3>3. Pos(Upto(n, i + 1)) = Pos(m) + 1
            BY <2>1, <2>3, <2>4, MidsAppend DEF Pos
        <3>4. QED
            BY <1>1, <2>3, <3>2, <3>3
    <2>5. CASE n[i + 1] # "mid"
        <3>1. Pos(Upto(n, i + 1)) = Pos(m)
            BY <2>1, <2>3, <2>5, MidsAppend DEF Pos
        <3>2. QED
            BY <1>1, <2>3, <3>1
    <2>6. QED
        BY <2>4, <2>5
<1> HIDE DEF P
<1>4. \A i \in 0 .. Len(n) : i \in P
    BY <1>1, <1>2, <1>3, Induction, Zenon
<1>5. Len(n) \in P
    BY <1>1, <1>4
<1>6. Upto(n, Len(n)) = n
    BY <1>1, UptoIs
<1>7. QED
    BY <1>5, <1>6 DEF P

\* Two ways that the same search follows go together.
LEMMA FollowsTogether ==
    ASSUME NEW t, NEW u, NEW m \in Ways, NEW n \in Ways, Follows(t, u, m), Follows(t, u, n),
           Len(m) =< Len(n)
    PROVE  Upto(n, Len(m)) = m
<1>1. Len(m) \in Nat /\ Len(n) \in Nat
    BY DEF Ways
<1> DEFINE P == {i \in 0 .. Len(m) : Upto(m, i) = Upto(n, i)}
<1>2. 0 \in P
    <2>1. \A j \in 1 .. 0 : m[j] = n[j]
        OBVIOUS
    <2>2. 0 \in 0 .. Len(m) /\ 0 =< Len(n)
        BY <1>1
    <2>3. Upto(m, 0) = Upto(n, 0)
        BY <2>1, <2>2, UptoSame
    <2>4. QED
        BY <2>2, <2>3
<1>3. ASSUME NEW i \in 0 .. Len(m) - 1, i \in P PROVE i + 1 \in P
    <2>1. i \in 0 .. Len(n) - 1 /\ i + 1 \in 0 .. Len(m)
        BY <1>1
    <2>2. Leads(t, u, Upto(m, i), m[i + 1]) /\ Leads(t, u, Upto(n, i), n[i + 1])
        BY <2>1 DEF Follows
    <2>3. m[i + 1] = n[i + 1]
        BY <1>3, <2>2 DEF Leads
    <2>4. Upto(m, i + 1) = Append(Upto(m, i), m[i + 1]) /\ Upto(n, i + 1) = Append(Upto(n, i), n[i + 1])
        BY <2>1, UptoNext
    <2>5. QED
        BY <1>3, <2>1, <2>3, <2>4
<1> HIDE DEF P
<1>4. \A i \in 0 .. Len(m) : i \in P
    BY <1>1, <1>2, <1>3, Induction, Zenon
<1>5. Len(m) \in P
    BY <1>1, <1>4
<1>6. Upto(m, Len(m)) = m
    BY <1>1, UptoIs
<1>7. QED
    BY <1>5, <1>6 DEF P

\* A search ends at one node.
LEMMA EndsOnce ==
    ASSUME NEW t, NEW u, NEW m, NEW n, Ends(t, u, m), Ends(t, u, n)
    PROVE  m = n
<1>1. m \in Ways /\ n \in Ways /\ Len(m) \in Nat /\ Len(n) \in Nat
    BY DEF Ends, Ways
<1>2. ASSUME NEW a \in Ways, NEW b \in Ways, Ends(t, u, a), Ends(t, u, b), Len(a) =< Len(b)
      PROVE  a = b
    <2>1. Upto(b, Len(a)) = a /\ Len(a) \in Nat /\ Len(b) \in Nat
        BY <1>2, FollowsTogether DEF Ends, Ways
    <2>2. CASE Len(a) = Len(b)
        BY <2>1, <2>2, UptoIs
    <2>3. CASE Len(a) # Len(b)
        <3>1. Len(a) \in 0 .. Len(b) - 1
            BY <1>2, <2>1, <2>3
        <3>2. Leads(t, u, a, b[Len(a) + 1])
            BY <1>2, <2>1, <3>1 DEF Ends, Follows
        <3>3. QED
            BY <1>2, <3>2 DEF Leads, Ends
    <2>4. QED
        BY <2>2, <2>3
<1>3. QED
    BY <1>1, <1>2

\* Each position before the one come to was passed at a node.
LEMMA MidAt ==
    ASSUME NEW n \in Ways, NEW p \in 1 .. Mids(n)
    PROVE  \E i \in 0 .. Len(n) - 1 : n[i + 1] = "mid" /\ Pos(Upto(n, i)) = p
<1>1. Len(n) \in Nat /\ Mids(n) \in Nat
    BY MidsIs DEF Ways
<1> DEFINE Passed == \E i \in 0 .. Len(n) - 1 : n[i + 1] = "mid" /\ Pos(Upto(n, i)) = p
           P == {i \in 0 .. Len(n) : p =< Mids(Upto(n, i)) => Passed}
<1>2. 0 \in P
    <2>1. Upto(n, 0) = <<>>
        BY <1>1, UptoIs, EmptySeq DEF Ways
    <2>2. QED
        BY <1>1, <2>1, MidsNone
<1>3. ASSUME NEW i \in 0 .. Len(n) - 1, i \in P PROVE i + 1 \in P
    <2> DEFINE m == Upto(n, i)
    <2>1. m \in Ways /\ n[i + 1] \in Sides /\ Upto(n, i + 1) = Append(m, n[i + 1])
        BY <1>1, UptoNext
    <2>2. Mids(m) \in Nat /\ (p =< Mids(m) => Passed)
        BY <1>3, <2>1, MidsIs
    <2>3. Mids(Upto(n, i + 1)) = IF n[i + 1] = "mid" THEN Mids(m) + 1 ELSE Mids(m)
        BY <2>1, MidsAppend
    <2>4. ASSUME p =< Mids(Upto(n, i + 1)), ~ (p =< Mids(m)) PROVE Passed
        <3>1. n[i + 1] = "mid" /\ p = Mids(m) + 1
            BY <1>1, <2>2, <2>3, <2>4
        <3>2. QED
            BY <3>1 DEF Pos
    <2>5. QED
        BY <1>1, <2>2, <2>4
<1> HIDE DEF P
<1>4. \A i \in 0 .. Len(n) : i \in P
    BY <1>1, <1>2, <1>3, Induction, Zenon
<1>5. Len(n) \in P
    BY <1>1, <1>4
<1>6. Upto(n, Len(n)) = n /\ p =< Mids(n)
    BY <1>1, UptoIs
<1>7. QED
    BY <1>5, <1>6 DEF P

\* Two texts that are found at one node are one.
LEMMA SameText ==
    ASSUME NEW t, NEW u \in Texts, NEW w \in Texts, NEW n \in DOMAIN t,
           Ends(t, u, n), Ends(t, w, n)
    PROVE  u = w
<1>1. n \in Ways /\ Mids(n) \in Nat
    BY MidsIs DEF Ends
<1>2. ASSUME NEW x \in Texts, Ends(t, x, n)
      PROVE  /\ Len(x) = Pos(n) /\ x[Pos(n)] = t[n].c
             /\ \A i \in 0 .. Len(n) - 1 : n[i + 1] = "mid" => x[Pos(Upto(n, i))] = t[Upto(n, i)].c
    <2>1. Trie!Found(t, n, x, Pos(n)) /\ x # <<>>
        BY <1>2 DEF Ends, Stopped, Texts
    <2>2. ASSUME NEW i \in 0 .. Len(n) - 1, n[i + 1] = "mid"
          PROVE  x[Pos(Upto(n, i))] = t[Upto(n, i)].c
        <3>1. Leads(t, x, Upto(n, i), n[i + 1])
            BY <1>2 DEF Ends, Follows
        <3>2. QED
            BY <2>2, <3>1, SideIs DEF Leads
    <2>3. QED
        BY <2>1, <2>2 DEF Trie!Found
<1>3. /\ Len(u) = Pos(n) /\ Len(w) = Pos(n) /\ u[Pos(n)] = w[Pos(n)]
      /\ \A i \in 0 .. Len(n) - 1 : n[i + 1] = "mid" => u[Pos(Upto(n, i))] = w[Pos(Upto(n, i))]
    BY <1>2
<1>4. ASSUME NEW p \in 1 .. Len(u) PROVE u[p] = w[p]
    <2>1. CASE p = Pos(n)
        BY <1>3, <2>1
    <2>2. CASE p # Pos(n)
        <3>1. p \in 1 .. Mids(n)
            BY <1>1, <1>3, <2>2 DEF Pos
        <3>2. PICK i \in 0 .. Len(n) - 1 : n[i + 1] = "mid" /\ Pos(Upto(n, i)) = p
            BY <1>1, <3>1, MidAt
        <3>3. QED
            BY <1>3, <3>2
    <2>3. QED
        BY <2>1, <2>2
<1>5. QED
    BY <1>3, <1>4, SeqEqual DEF Texts

\* Above a node there are nodes.
LEMMA RootedUpto ==
    ASSUME NEW t, Rooted(t), NEW n \in DOMAIN t, NEW k \in 0 .. Len(n)
    PROVE  Upto(n, k) \in DOMAIN t
<1>1. n \in Ways /\ Len(n) \in Nat
    BY DEF Rooted, Ways
<1> DEFINE P == {i \in 0 .. Len(n) : Upto(n, Len(n) - i) \in DOMAIN t}
<1>2. 0 \in P
    BY <1>1, UptoIs
<1>3. ASSUME NEW i \in 0 .. Len(n) - 1, i \in P PROVE i + 1 \in P
    <2> DEFINE j == Len(n) - (i + 1)
    <2>1. j \in 0 .. Len(n) - 1 /\ j + 1 = Len(n) - i
        BY <1>1
    <2> HIDE DEF j
    <2>2. /\ n[j + 1] \in Sides /\ Upto(n, j) \in Ways
          /\ Upto(n, j + 1) = Append(Upto(n, j), n[j + 1])
        BY <1>1, <2>1, UptoNext
    <2>3. Append(Upto(n, j), n[j + 1]) \in DOMAIN t
        BY <1>3, <2>1, <2>2
    <2>4. Upto(n, j) \in DOMAIN t
        BY <2>2, <2>3 DEF Rooted
    <2>5. QED
        BY <1>1, <2>4 DEF j
<1> HIDE DEF P
<1>4. \A i \in 0 .. Len(n) : i \in P
    BY <1>1, <1>2, <1>3, Induction, Zenon
<1>5. Len(n) - k \in P /\ Len(n) - (Len(n) - k) = k
    BY <1>1, <1>4
<1>6. QED
    BY <1>5 DEF P

\* A way is not longer than the trie has nodes on it.
LEMMA Deep ==
    ASSUME NEW D, IsFiniteSet(D), NEW n \in Ways, NEW k \in 0 .. Len(n),
           \A i \in 0 .. k - 1 : Upto(n, i) \in D
    PROVE  k =< Cardinality(D)
<1>1. Len(n) \in Nat
    BY DEF Ways
<1> DEFINE f == [i \in 0 .. k - 1 |-> Upto(n, i)]
<1>2. f \in [0 .. k - 1 -> D]
    OBVIOUS
<1>3. ASSUME NEW i \in 0 .. k - 1, NEW j \in 0 .. k - 1, f[i] = f[j] PROVE i = j
    <2>1. Len(Upto(n, i)) = i /\ Len(Upto(n, j)) = j
        BY <1>1, UptoIs
    <2>2. QED
        BY <1>3, <2>1
<1> HIDE DEF f
<1>4. f \in Injection(0 .. k - 1, D)
    BY <1>2, <1>3, Zenon DEF Injection, IsInjective
<1>5. Cardinality(0 .. k - 1) =< Cardinality(D)
    BY <1>4, FS_Injection
<1>6. Cardinality(0 .. k - 1) = k
    BY <1>1, FS_Interval
<1>7. QED
    BY <1>5, <1>6

\* f is where GetNode is after each turn.
Gets(f, t, u, n) == f = [i \in 0 .. n |-> IF i = 0 THEN <<Trie!Root, 1>> ELSE Trie!GetTurn(t, u, f[i - 1])]

LEMMA GetsExist ==
    ASSUME NEW t, NEW u, NEW n \in Nat
    PROVE  \E f : Gets(f, t, u, n)
<1> DEFINE P == {k \in 0 .. n : \E f : Gets(f, t, u, k)}
<1>1. 0 \in P
    <2>1. Gets([i \in 0 .. 0 |-> <<Trie!Root, 1>>], t, u, 0)
        BY DEF Gets
    <2>2. QED
        BY <2>1
<1>2. ASSUME NEW k \in 0 .. n - 1, k \in P PROVE k + 1 \in P
    <2>1. PICK f : Gets(f, t, u, k)
        BY <1>2
    <2>2. f = [i \in 0 .. k |-> IF i = 0 THEN <<Trie!Root, 1>> ELSE Trie!GetTurn(t, u, f[i - 1])]
        BY <2>1, Zenon DEF Gets
    <2> DEFINE longer == [i \in 0 .. k + 1 |-> IF i = 0 THEN <<Trie!Root, 1>> ELSE Trie!GetTurn(t, u, f[i - 1])]
    <2>3. ASSUME NEW i \in 0 .. k PROVE longer[i] = f[i]
        <3>1. i \in 0 .. k + 1
            BY <1>2
        <3>2. QED
            BY <2>2, <3>1, Zenon
    <2>4. ASSUME NEW i \in 0 .. k + 1, i # 0 PROVE longer[i - 1] = f[i - 1]
        <3>1. i - 1 \in 0 .. k
            BY <1>2, <2>4
        <3>2. QED
            BY <2>3, <3>1
    <2>5. longer = [i \in 0 .. k + 1 |-> IF i = 0 THEN <<Trie!Root, 1>> ELSE Trie!GetTurn(t, u, longer[i - 1])]
        BY <2>4
    <2> HIDE DEF longer
    <2>6. Gets(longer, t, u, k + 1)
        BY <2>5, Zenon DEF Gets
    <2>7. k + 1 \in 0 .. n
        BY <1>2
    <2>8. QED
        BY <2>6, <2>7
<1> HIDE DEF P
<1>3. \A k \in 0 .. n : k \in P
    BY <1>1, <1>2, Induction, Zenon
<1>4. n \in P
    BY <1>3
<1>5. QED
    BY <1>4, Zenon DEF P

LEMMA GetsTurns ==
    ASSUME NEW t, NEW u, NEW n \in Nat, NEW f, Gets(f, t, u, n)
    PROVE  /\ f[0] = <<Trie!Root, 1>>
           /\ \A i \in 0 .. n - 1 : f[i + 1] = Trie!GetTurn(t, u, f[i])
<1>1. f = [i \in 0 .. n |-> IF i = 0 THEN <<Trie!Root, 1>> ELSE Trie!GetTurn(t, u, f[i - 1])]
    BY Zenon DEF Gets
<1>2. f[0] = <<Trie!Root, 1>>
    BY <1>1
<1>3. ASSUME NEW i \in 0 .. n - 1 PROVE f[i + 1] = Trie!GetTurn(t, u, f[i])
    <2>1. i + 1 \in 0 .. n /\ i + 1 # 0 /\ (i + 1) - 1 = i
        OBVIOUS
    <2>2. QED
        BY <1>1, <2>1
<1>4. QED
    BY <1>2, <1>3

LEMMA TrieCardinalityIs ==
    ASSUME NEW S
    PROVE  Trie!Cardinality(S) = Cardinality(S)
BY Zenon DEF Trie!Cardinality, Cardinality, Trie!IsFiniteSet, IsFiniteSet

\* After i turns the search is i deep, or has ended.
Getting(at, t, u, i) ==
    \E n \in Ways :
        /\ at = <<n, Pos(n)>>
        /\ Follows(t, u, n)
        /\ Len(n) = i \/ Stopped(t, u, n)

LEMMA GetTurnIs ==
    ASSUME NEW t, NEW u, NEW i \in Nat, NEW at, Getting(at, t, u, i)
    PROVE  Getting(Trie!GetTurn(t, u, at), t, u, i + 1)
<1>1. PICK n \in Ways : /\ at = <<n, Pos(n)>>
                        /\ Follows(t, u, n)
                        /\ Len(n) = i \/ Stopped(t, u, n)
    BY DEF Getting
<1>2. CASE Stopped(t, u, n)
    <2>1. Trie!GetTurn(t, u, at) = at
        BY <1>1, <1>2 DEF Stopped, Trie!GetTurn, Trie!IsNull
    <2>2. QED
        BY <1>1, <1>2, <2>1 DEF Getting
<1>3. CASE ~ Stopped(t, u, n)
    <2> DEFINE side == Trie!Side(t, n, u[Pos(n)])
               m == Append(n, side)
    <2>1. side \in Sides /\ Leads(t, u, n, side) /\ (side = "mid" <=> u[Pos(n)] = t[n].c)
        BY <1>3, SideIs DEF Leads
    <2>2. Trie!GetTurn(t, u, at) = <<m, IF u[Pos(n)] = t[n].c THEN Pos(n) + 1 ELSE Pos(n)>>
        BY <1>1, <1>3 DEF Stopped, Trie!GetTurn, Trie!IsNull, Trie!Child, Trie!NextPos
    <2> HIDE DEF side
    <2>3. Follows(t, u, m)
        BY <1>1, <2>1, FollowsAppend
    <2>4. m \in Ways /\ Len(m) = i + 1
        BY <1>1, <1>3, <2>1, AppendIs
    <2>5. Mids(n) \in Nat
        BY MidsIs
    <2>6. Pos(m) = IF u[Pos(n)] = t[n].c THEN Pos(n) + 1 ELSE Pos(n)
        BY <2>1, <2>5, MidsAppend DEF Pos
    <2> HIDE DEF m
    <2>7. Trie!GetTurn(t, u, at) = <<m, Pos(m)>>
        BY <2>2, <2>6
    <2>8. QED
        BY <2>3, <2>4, <2>7 DEF Getting
<1>4. QED
    BY <1>2, <1>3

\* GetNode comes to where the search ends.
LEMMA GetNodeIs ==
    ASSUME NEW t, Rooted(t), NEW u
    PROVE  Ends(t, u, Trie!GetNode(t, u))
<1> DEFINE N == Cardinality(DOMAIN t)
<1>1. N \in Nat /\ IsFiniteSet(DOMAIN t)
    BY FS_CardinalityType DEF Rooted
<1>2. Trie!Cardinality(DOMAIN t) = N
    BY TrieCardinalityIs
<1> HIDE DEF N
<1>3. \E f : Gets(f, t, u, N)
    BY <1>1, GetsExist
<1>4. PICK f : Gets(f, t, u, N) /\ Trie!GetNode(t, u) = f[N][1]
    <2>1. Trie!GetNode(t, u) = (CHOOSE f : Gets(f, t, u, N))[N][1]
        BY <1>2 DEF Trie!GetNode, Gets
    <2>2. Gets(CHOOSE f : Gets(f, t, u, N), t, u, N)
        BY <1>3, Zenon
    <2>3. QED
        BY <2>1, <2>2
<1>5. f[0] = <<Trie!Root, 1>> /\ \A i \in 0 .. N - 1 : f[i + 1] = Trie!GetTurn(t, u, f[i])
    BY <1>1, <1>4, GetsTurns
<1> DEFINE P == {i \in 0 .. N : Getting(f[i], t, u, i)}
<1>6. 0 \in P
    <2>1. Pos(<<>>) = 1 /\ f[0] = <<<<>>, 1>>
        BY <1>5, MidsNone DEF Pos, Trie!Root
    <2>2. QED
        BY <1>1, <2>1, MidsNone, FollowsNone DEF Getting
<1>7. ASSUME NEW i \in 0 .. N - 1, i \in P PROVE i + 1 \in P
    <2>1. i \in Nat /\ i + 1 \in 0 .. N
        BY <1>1
    <2>2. Getting(Trie!GetTurn(t, u, f[i]), t, u, i + 1)
        BY <1>7, <2>1, GetTurnIs
    <2>3. QED
        BY <1>5, <2>1, <2>2
<1> HIDE DEF P
<1>8. \A i \in 0 .. N : i \in P
    BY <1>1, <1>6, <1>7, Induction, Zenon
<1>9. Getting(f[N], t, u, N)
    BY <1>1, <1>8 DEF P
<1>10. PICK n \in Ways : /\ f[N] = <<n, Pos(n)>>
                         /\ Follows(t, u, n)
                         /\ Len(n) = N \/ Stopped(t, u, n)
    BY <1>9 DEF Getting
<1>11. Stopped(t, u, n)
    <2>1. SUFFICES ASSUME ~ Stopped(t, u, n) PROVE FALSE
        OBVIOUS
    <2>2. Len(n) = N /\ n \in DOMAIN t
        BY <1>10, <2>1 DEF Stopped
    <2>3. \A i \in 0 .. Len(n) : Upto(n, i) \in DOMAIN t
        BY <2>2, RootedUpto
    <2> DEFINE m == Append(n, "mid")
    <2>4. "mid" \in Sides
        BY DEF Sides
    <2>5. m \in Ways /\ Len(m) = N + 1 /\ \A i \in 0 .. N : Upto(m, i) = Upto(n, i)
        BY <2>2, <2>4, AppendIs, AppendUpto
    <2> HIDE DEF m
    <2>6. N + 1 \in 0 .. Len(m) /\ \A i \in 0 .. (N + 1) - 1 : Upto(m, i) \in DOMAIN t
        BY <1>1, <2>2, <2>3, <2>5
    <2>7. N + 1 =< Cardinality(DOMAIN t)
        BY <1>1, <2>5, <2>6, Deep
    <2>8. QED
        BY <1>1, <2>7 DEF N
<1>12. QED
    BY <1>4, <1>10, <1>11 DEF Ends

\* A text finds the value of the node where its search ends.
LEMMA GetIs ==
    ASSUME NEW t, Rooted(t), NEW u \in Texts, NEW n, Ends(t, u, n)
    PROVE  Trie!Get(t, u) = IF n \in DOMAIN t THEN t[n].v ELSE Trie!NoValue
<1>1. Trie!GetNode(t, u) = n /\ u # <<>>
    BY GetNodeIs, EndsOnce DEF Texts
<1>2. QED
    BY <1>1 DEF Trie!Get, Trie!IsNull

-----------------------------------------------------------------------------
(* Trie: put and remove. *)

\* s has the nodes of t, and maybe others.
Grown(t, s) == DOMAIN t \in SUBSET DOMAIN s /\ \A n \in DOMAIN t : s[n].c = t[n].c

\* Its values are those of t, but at the nodes of X.
Kept(t, s, X) ==
    \A m \in DOMAIN s \ X : s[m].v = IF m \in DOMAIN t THEN t[m].v ELSE Trie!NoValue

LEMMA GrownLeads ==
    ASSUME NEW t, NEW s, Grown(t, s), NEW u, NEW n, NEW side, Leads(t, u, n, side)
    PROVE  Leads(s, u, n, side)
<1>1. n \in DOMAIN t /\ n \in DOMAIN s /\ s[n].c = t[n].c
    BY DEF Leads, Stopped, Grown
<1>2. QED
    BY <1>1 DEF Leads, Stopped, Trie!Found, Trie!Side

LEMMA GrownFollows ==
    ASSUME NEW t, NEW s, Grown(t, s), NEW u, NEW n, Follows(t, u, n)
    PROVE  Follows(s, u, n)
BY GrownLeads DEF Follows

Creates(new, s, n, c) == new = Trie!CreateNode(s, n, c)
Created(new, s, n, c) ==
    /\ Rooted(new) /\ Grown(s, new)
    /\ DOMAIN new = DOMAIN s \cup {n}
    /\ new[n].c = c /\ new[n].v = Trie!NoValue
    /\ \A m \in DOMAIN s : new[m] = s[m]

\* A node is made where a search came to a null pointer.
LEMMA CreateNodeIs ==
    ASSUME NEW s, Rooted(s), NEW u, NEW n \in Ways, Follows(s, u, n), n \notin DOMAIN s, NEW c \in Nat,
           NEW new, Creates(new, s, n, c)
    PROVE  Created(new, s, n, c)
<1>1. /\ DOMAIN new = DOMAIN s \cup {n}
      /\ new[n] = [c |-> c, v |-> Trie!NoValue]
      /\ \A m \in DOMAIN s : new[m] = s[m]
      /\ new = [m \in DOMAIN new |-> new[m]]
    BY DEF Creates, Trie!CreateNode
<1>2. new[n].c = c /\ new[n].v = Trie!NoValue /\ new[n] \in [c : Nat, v : Nat]
    BY <1>1 DEF Trie!NoValue
<1>3. DOMAIN new \in SUBSET Ways /\ IsFiniteSet(DOMAIN new)
    BY <1>1, FS_AddElement DEF Rooted
<1>4. \A m \in DOMAIN s : s[m] \in [c : Nat, v : Nat]
    BY DEF Rooted
<1>5. new \in [DOMAIN new -> [c : Nat, v : Nat]]
    BY <1>1, <1>2, <1>4
<1>6. ASSUME NEW m \in Ways, NEW side \in Sides, Append(m, side) \in DOMAIN new PROVE m \in DOMAIN new
    <2>1. CASE Append(m, side) \in DOMAIN s
        BY <1>1, <2>1 DEF Rooted
    <2>2. CASE Append(m, side) = n
        <3>1. Len(m) \in Nat /\ Len(n) = Len(m) + 1
            BY <2>2, AppendIs DEF Ways
        <3>2. Upto(n, Len(m)) = m
            <4>1. Len(m) \in 0 .. Len(m)
                BY <3>1
            <4>2. Upto(Append(m, side), Len(m)) = Upto(m, Len(m))
                BY <4>1, AppendUpto
            <4>3. Upto(m, Len(m)) = m
                BY <4>1, UptoIs
            <4>4. QED
                BY <2>2, <4>2, <4>3
        <3>3. Leads(s, u, Upto(n, Len(m)), n[Len(m) + 1])
            BY <3>1 DEF Follows
        <3>4. QED
            BY <1>1, <3>2, <3>3 DEF Leads, Stopped
    <2>3. QED
        BY <1>1, <1>6, <2>1, <2>2
<1>7. Rooted(new)
    BY <1>3, <1>5, <1>6 DEF Rooted
<1>8. Grown(s, new)
    BY <1>1 DEF Grown
<1>9. QED
    BY <1>1, <1>2, <1>7, <1>8 DEF Created

\* After i turns of put for u in t, which has not returned.
Putting(p, t, u, i) ==
    /\ Rooted(p[1]) /\ Grown(t, p[1]) /\ Kept(t, p[1], {})
    /\ p[2] \in Ways /\ Len(p[2]) = i
    /\ p = <<p[1], p[2], Pos(p[2])>> /\ Follows(p[1], u, p[2])
    /\ \A m \in DOMAIN p[1] \ DOMAIN t : Len(m) < i /\ Upto(p[2], Len(m)) = m
    /\ \/ \A j \in 0 .. i - 1 : Upto(p[2], j) \in DOMAIN t
       \/ p[2] \notin DOMAIN t /\ i =< Cardinality(DOMAIN t) + Mids(p[2])

\* It has written val at the node n, and made s of t.
Wrote(s, n, t, u, val) ==
    /\ Rooted(s) /\ Grown(t, s) /\ Kept(t, s, {n})
    /\ n \in DOMAIN s /\ Ends(s, u, n) /\ s[n].v = val
    /\ \A m \in DOMAIN s \ DOMAIN t : Len(m) =< Len(n) /\ Upto(n, Len(m)) = m

PutDone(p, t, u, val) == p[3] = Len(u) + 1 /\ Wrote(p[1], p[2], t, u, val)

\* The trie of a turn of put, with the node that it is at.
PutAt(p, u) == IF Trie!IsNull(p[1], p[2]) THEN Trie!CreateNode(p[1], p[2], u[p[3]]) ELSE p[1]

LEMMA PutHere ==
    ASSUME NEW t, NEW u \in Texts, NEW i \in Nat, NEW p, Putting(p, t, u, i),
           NEW s, s = PutAt(p, u)
    PROVE  /\ Rooted(s) /\ Grown(t, s) /\ Kept(t, s, {})
           /\ p[2] \in DOMAIN s /\ Follows(s, u, p[2])
           /\ \A m \in DOMAIN s \ DOMAIN t : Len(m) < i + 1 /\ Upto(p[2], Len(m)) = m
           /\ p[2] \notin DOMAIN t => s[p[2]].c = u[p[3]]
<1> DEFINE n == p[2]
           pos == p[3]
<1>1. /\ Rooted(p[1]) /\ Grown(t, p[1]) /\ Kept(t, p[1], {})
      /\ n \in Ways /\ Len(n) = i
      /\ pos = Pos(n) /\ Follows(p[1], u, n)
      /\ \A m \in DOMAIN p[1] \ DOMAIN t : Len(m) < i /\ Upto(n, Len(m)) = m
    BY DEF Putting
<1>2. pos \in 1 .. Len(u) /\ u[pos] \in Nat
    BY <1>1, PosBound DEF Texts
<1>3. \A m \in DOMAIN p[1] \ DOMAIN t : Len(m) \in Nat
    BY <1>1 DEF Rooted, Ways
<1> HIDE DEF n, pos
<1>4. CASE n \in DOMAIN p[1]
    <2>1. s = p[1]
        BY <1>4 DEF PutAt, Trie!IsNull, n
    <2>2. n \in DOMAIN t
        BY <1>1, <1>4
    <2>3. \A m \in DOMAIN p[1] \ DOMAIN t : Len(m) < i + 1 /\ Upto(n, Len(m)) = m
        BY <1>1, <1>3
    <2>4. QED
        BY <1>1, <1>4, <2>1, <2>2, <2>3 DEF n
<1>5. CASE n \notin DOMAIN p[1]
    <2> DEFINE old == p[1]
               c == u[pos]
    <2>1. Creates(s, old, n, c)
        BY <1>5 DEF Creates, PutAt, Trie!IsNull, n, pos
    <2>2. /\ Rooted(s) /\ Grown(p[1], s)
          /\ DOMAIN s = DOMAIN p[1] \cup {n}
          /\ s[n].c = u[pos] /\ s[n].v = Trie!NoValue
          /\ \A m \in DOMAIN p[1] : s[m] = p[1][m]
        <3>1. Rooted(old) /\ n \in Ways /\ Follows(old, u, n) /\ n \notin DOMAIN old /\ c \in Nat
            BY <1>1, <1>2, <1>5
        <3> HIDE DEF old, c
        <3>2. Created(s, old, n, c)
            BY <2>1, <3>1, CreateNodeIs
        <3>3. QED
            BY <3>2 DEF Created, old, c
    <2>3. Grown(t, s)
        BY <1>1, <2>2 DEF Grown
    <2>4. n \notin DOMAIN t
        BY <1>1, <1>5 DEF Grown
    <2>5. Kept(t, s, {})
        BY <1>1, <2>2, <2>4 DEF Kept
    <2>6. Follows(s, u, n)
        BY <1>1, <2>2, GrownFollows
    <2>7. \A m \in DOMAIN s \ DOMAIN t : Len(m) < i + 1 /\ Upto(n, Len(m)) = m
        <3>1. Upto(n, Len(n)) = n
            BY <1>1, UptoIs
        <3>2. QED
            BY <1>1, <1>3, <2>2, <3>1
    <2>8. QED
        BY <2>2, <2>3, <2>5, <2>6, <2>7 DEF n, pos
<1>6. QED
    BY <1>4, <1>5

LEMMA PutTurnIs ==
    ASSUME NEW t, Rooted(t), NEW u \in Texts, NEW val \in Nat, NEW i \in Nat, NEW p, Putting(p, t, u, i)
    PROVE  LET q == Trie!PutTurn(u, val, p)
           IN  Putting(q, t, u, i + 1) \/ PutDone(q, t, u, val)
<1> DEFINE n == p[2]
           pos == p[3]
           s == PutAt(p, u)
           q == Trie!PutTurn(u, val, p)
<1>1. /\ n \in Ways /\ Len(n) = i /\ pos = Pos(n) /\ Follows(p[1], u, n)
      /\ \/ \A j \in 0 .. i - 1 : Upto(n, j) \in DOMAIN t
         \/ n \notin DOMAIN t /\ i =< Cardinality(DOMAIN t) + Mids(n)
    BY DEF Putting
<1>2. /\ Rooted(s) /\ Grown(t, s) /\ Kept(t, s, {})
      /\ n \in DOMAIN s /\ Follows(s, u, n)
      /\ \A m \in DOMAIN s \ DOMAIN t : Len(m) < i + 1 /\ Upto(n, Len(m)) = m
      /\ n \notin DOMAIN t => s[n].c = u[pos]
    BY PutHere
<1>3. pos \in 1 .. Len(u) /\ Len(u) \in Nat /\ u # <<>> /\ Mids(n) \in Nat
    BY <1>1, PosBound, MidsIs DEF Texts
<1>4. ~ (pos > Len(u)) /\ pos =< Len(u)
    BY <1>3
<1>5. CASE ~ Trie!Found(s, n, u, pos)
    <2> DEFINE side == Trie!Side(s, n, u[pos])
               m == Append(n, side)
    <2>1. q = <<s, m, IF u[pos] = s[n].c THEN pos + 1 ELSE pos>>
        BY <1>4, <1>5 DEF PutAt, Trie!PutTurn, Trie!Child, Trie!NextPos
    <2>2. side \in Sides /\ (side = "mid" <=> u[pos] = s[n].c) /\ Leads(s, u, n, side)
        BY <1>1, <1>2, <1>5, SideIs DEF Leads, Stopped
    <2> HIDE DEF s, n, pos, q, side
    <2>3. m \in Ways /\ Len(m) = i + 1 /\ Follows(s, u, m)
        BY <1>1, <1>2, <2>2, AppendIs, FollowsAppend
    <2>4. Mids(m) = IF side = "mid" THEN Mids(n) + 1 ELSE Mids(n)
        BY <1>1, <2>2, MidsAppend
    <2>5. Pos(m) = IF u[pos] = s[n].c THEN pos + 1 ELSE pos
        BY <1>1, <1>3, <2>2, <2>4 DEF Pos
    <2>6. q = <<s, m, Pos(m)>>
        BY <2>1, <2>5
    <2>7. \/ \A j \in 0 .. (i + 1) - 1 : Upto(m, j) \in DOMAIN t
          \/ m \notin DOMAIN t /\ i + 1 =< Cardinality(DOMAIN t) + Mids(m)
        <3>1. CASE n \in DOMAIN t
            <4>1. \A j \in 0 .. i : Upto(n, j) \in DOMAIN t
                BY <1>1, <3>1, RootedUpto
            <4>2. \A j \in 0 .. i : Upto(m, j) = Upto(n, j)
                BY <1>1, <2>2, AppendUpto
            <4>3. \A j \in 0 .. (i + 1) - 1 : j \in 0 .. i
                OBVIOUS
            <4>4. QED
                BY <4>1, <4>2, <4>3
        <3>2. CASE n \notin DOMAIN t
            <4>1. Cardinality(DOMAIN t) \in Nat /\ IsFiniteSet(DOMAIN t)
                BY FS_CardinalityType DEF Rooted
            <4>2. i =< Cardinality(DOMAIN t) + Mids(n)
                <5>1. CASE \A j \in 0 .. i - 1 : Upto(n, j) \in DOMAIN t
                    <6>1. i \in 0 .. Len(n)
                        BY <1>1
                    <6>2. i =< Cardinality(DOMAIN t)
                        BY <1>1, <4>1, <5>1, <6>1, Deep
                    <6>3. QED
                        BY <1>3, <4>1, <6>2
                <5>2. QED
                    BY <1>1, <5>1
            <4>3. Mids(m) = Mids(n) + 1
                BY <1>2, <2>2, <2>4, <3>2
            <4>4. m \notin DOMAIN t
                BY <1>1, <2>2, <3>2 DEF Rooted
            <4>5. QED
                BY <1>3, <4>1, <4>2, <4>3, <4>4
        <3>3. QED
            BY <3>1, <3>2
    <2> HIDE DEF m
    <2>8. q[1] = s /\ q[2] = m /\ q = <<q[1], q[2], Pos(q[2])>>
        BY <2>6
    <2>11. ASSUME NEW k \in DOMAIN s \ DOMAIN t PROVE Upto(m, Len(k)) = k
        <3>1. Len(k) < i + 1 /\ Upto(n, Len(k)) = k /\ Len(k) \in Nat
            BY <1>2 DEF Rooted, Ways
        <3>2. Len(k) \in 0 .. Len(n)
            BY <1>1, <3>1
        <3>3. Upto(m, Len(k)) = Upto(n, Len(k))
            BY <1>1, <2>2, <3>2, AppendUpto DEF m
        <3>4. QED
            BY <3>1, <3>3
    <2>9. Putting(q, t, u, i + 1)
        BY <1>2, <2>3, <2>7, <2>8, <2>11 DEF Putting
    <2>10. QED
        BY <2>9 DEF q
<1>6. CASE Trie!Found(s, n, u, pos)
    <2> DEFINE w == [s EXCEPT ![n].v = val]
    <2>1. q = <<w, n, pos + 1>>
        BY <1>4, <1>6 DEF PutAt, Trie!PutTurn
    <2> HIDE DEF s, n, pos, q
    <2>2. pos = Len(u)
        BY <1>3, <1>6 DEF Trie!Found
    <2>3. s \in [DOMAIN s -> [c : Nat, v : Nat]]
        BY <1>2 DEF Rooted
    <2>4. /\ DOMAIN w = DOMAIN s /\ w \in [DOMAIN w -> [c : Nat, v : Nat]]
          /\ w[n].v = val /\ \A m \in DOMAIN s : w[m].c = s[m].c
          /\ \A m \in DOMAIN s : m # n => w[m] = s[m]
        BY <1>2, <2>3
    <2> HIDE DEF w
    <2>5. Rooted(w)
        BY <1>2, <2>4 DEF Rooted
    <2>6. Grown(s, w) /\ Grown(t, w)
        BY <1>2, <2>4 DEF Grown
    <2>7. Kept(t, w, {n})
        BY <1>2, <2>4 DEF Kept
    <2>8. Follows(w, u, n)
        BY <1>2, <2>6, GrownFollows
    <2>9. Stopped(w, u, n)
        BY <1>1, <1>2, <1>6, <2>4 DEF Stopped, Trie!Found
    <2>10. \A m \in DOMAIN w \ DOMAIN t : Len(m) =< Len(n) /\ Upto(n, Len(m)) = m
        BY <1>1, <1>2, <2>4 DEF Rooted, Ways
    <2>11. q[1] = w /\ q[2] = n /\ q[3] = Len(u) + 1
        BY <2>1, <2>2
    <2>12. Wrote(w, n, t, u, val)
        BY <1>1, <1>2, <2>4, <2>5, <2>6, <2>7, <2>8, <2>9, <2>10 DEF Wrote, Ends
    <2>13. QED
        BY <2>11, <2>12 DEF PutDone, q
<1>7. QED
    BY <1>5, <1>6

\* f is what PutNode has after each turn.
Puts(f, t, u, val, n) == f = [i \in 0 .. n |-> IF i = 0 THEN <<t, Trie!Root, 1>> ELSE Trie!PutTurn(u, val, f[i - 1])]

LEMMA PutsExist ==
    ASSUME NEW t, NEW u, NEW val, NEW n \in Nat
    PROVE  \E f : Puts(f, t, u, val, n)
<1> DEFINE P == {k \in 0 .. n : \E f : Puts(f, t, u, val, k)}
<1>1. 0 \in P
    <2>1. Puts([i \in 0 .. 0 |-> <<t, Trie!Root, 1>>], t, u, val, 0)
        BY DEF Puts
    <2>2. QED
        BY <2>1
<1>2. ASSUME NEW k \in 0 .. n - 1, k \in P PROVE k + 1 \in P
    <2>1. PICK f : Puts(f, t, u, val, k)
        BY <1>2
    <2>2. f = [i \in 0 .. k |-> IF i = 0 THEN <<t, Trie!Root, 1>> ELSE Trie!PutTurn(u, val, f[i - 1])]
        BY <2>1, Zenon DEF Puts
    <2> DEFINE longer == [i \in 0 .. k + 1 |-> IF i = 0 THEN <<t, Trie!Root, 1>> ELSE Trie!PutTurn(u, val, f[i - 1])]
    <2>3. ASSUME NEW i \in 0 .. k PROVE longer[i] = f[i]
        <3>1. i \in 0 .. k + 1
            BY <1>2
        <3>2. QED
            BY <2>2, <3>1, Zenon
    <2>4. ASSUME NEW i \in 0 .. k + 1, i # 0 PROVE longer[i - 1] = f[i - 1]
        <3>1. i - 1 \in 0 .. k
            BY <1>2, <2>4
        <3>2. QED
            BY <2>3, <3>1
    <2>5. longer = [i \in 0 .. k + 1 |-> IF i = 0 THEN <<t, Trie!Root, 1>> ELSE Trie!PutTurn(u, val, longer[i - 1])]
        BY <2>4
    <2> HIDE DEF longer
    <2>6. Puts(longer, t, u, val, k + 1)
        BY <2>5, Zenon DEF Puts
    <2>7. k + 1 \in 0 .. n
        BY <1>2
    <2>8. QED
        BY <2>6, <2>7
<1> HIDE DEF P
<1>3. \A k \in 0 .. n : k \in P
    BY <1>1, <1>2, Induction, Zenon
<1>4. n \in P
    BY <1>3
<1>5. QED
    BY <1>4, Zenon DEF P

LEMMA PutsTurns ==
    ASSUME NEW t, NEW u, NEW val, NEW n \in Nat, NEW f, Puts(f, t, u, val, n)
    PROVE  /\ f[0] = <<t, Trie!Root, 1>>
           /\ \A i \in 0 .. n - 1 : f[i + 1] = Trie!PutTurn(u, val, f[i])
<1>1. f = [i \in 0 .. n |-> IF i = 0 THEN <<t, Trie!Root, 1>> ELSE Trie!PutTurn(u, val, f[i - 1])]
    BY Zenon DEF Puts
<1>2. f[0] = <<t, Trie!Root, 1>>
    BY <1>1
<1>3. ASSUME NEW i \in 0 .. n - 1 PROVE f[i + 1] = Trie!PutTurn(u, val, f[i])
    <2>1. i + 1 \in 0 .. n /\ i + 1 # 0 /\ (i + 1) - 1 = i
        OBVIOUS
    <2>2. QED
        BY <1>1, <2>1
<1>4. QED
    BY <1>2, <1>3

LEMMA PutStarts ==
    ASSUME NEW t, Rooted(t), NEW u, NEW p, p = <<t, Trie!Root, 1>>
    PROVE  Putting(p, t, u, 0)
<1>1. p[1] = t /\ p[2] = <<>> /\ Pos(<<>>) = 1
    BY MidsNone DEF Trie!Root, Pos
<1>2. <<>> \in Ways /\ Len(<<>>) = 0 /\ Follows(t, u, <<>>)
    BY MidsNone, FollowsNone
<1>3. Grown(t, t) /\ Kept(t, t, {})
    BY DEF Grown, Kept
<1>4. \A j \in 0 .. 0 - 1 : Upto(p[2], j) \in DOMAIN t
    OBVIOUS
<1>5. p = <<p[1], p[2], Pos(p[2])>>
    BY <1>1
<1>6. QED
    BY <1>1, <1>2, <1>3, <1>4, <1>5 DEF Putting

\* PutNode writes the value at the node where the search for the text ends.
LEMMA PutNodeIs ==
    ASSUME NEW t, Rooted(t), NEW u \in Texts, NEW val \in Nat
    PROVE  \E n : Wrote(Trie!PutNode(t, u, val), n, t, u, val)
<1> DEFINE N == Cardinality(DOMAIN t)
           calls == N + Len(u)
<1>1. N \in Nat /\ IsFiniteSet(DOMAIN t) /\ Len(u) \in Nat \ {0}
    BY FS_CardinalityType DEF Rooted, Texts
<1>2. Trie!Cardinality(DOMAIN t) = N
    BY TrieCardinalityIs
<1>3. calls \in Nat
    BY <1>1
<1> HIDE DEF N, calls
<1>4. \E f : Puts(f, t, u, val, calls)
    BY <1>3, PutsExist
<1>5. PICK f : Puts(f, t, u, val, calls) /\ Trie!PutNode(t, u, val) = f[calls][1]
    <2>1. Trie!PutNode(t, u, val) = (CHOOSE f : Puts(f, t, u, val, calls))[calls][1]
        BY <1>2 DEF Trie!PutNode, Puts, calls
    <2>2. Puts(CHOOSE f : Puts(f, t, u, val, calls), t, u, val, calls)
        BY <1>4, Zenon
    <2>3. QED
        BY <2>1, <2>2
<1>6. f[0] = <<t, Trie!Root, 1>> /\ \A i \in 0 .. calls - 1 : f[i + 1] = Trie!PutTurn(u, val, f[i])
    BY <1>3, <1>5, PutsTurns
<1> DEFINE P == {i \in 0 .. calls : Putting(f[i], t, u, i) \/ PutDone(f[i], t, u, val)}
<1>7. 0 \in P
    BY <1>3, <1>6, PutStarts
<1>8. ASSUME NEW i \in 0 .. calls - 1, i \in P PROVE i + 1 \in P
    <2>1. i \in Nat /\ i + 1 \in 0 .. calls /\ f[i + 1] = Trie!PutTurn(u, val, f[i])
        BY <1>3, <1>6
    <2>2. CASE Putting(f[i], t, u, i)
        <3>1. \/ Putting(Trie!PutTurn(u, val, f[i]), t, u, i + 1)
              \/ PutDone(Trie!PutTurn(u, val, f[i]), t, u, val)
            BY <2>1, <2>2, PutTurnIs
        <3>2. QED
            BY <2>1, <3>1
    <2>3. CASE PutDone(f[i], t, u, val)
        <3>1. f[i][3] > Len(u) /\ ~ (f[i][3] =< Len(u))
            BY <1>1, <2>3 DEF PutDone
        <3>2. Trie!PutTurn(u, val, f[i]) = f[i]
            BY <3>1 DEF Trie!PutTurn
        <3>3. QED
            BY <2>1, <2>3, <3>2
    <2>4. QED
        BY <1>8, <2>2, <2>3
<1> HIDE DEF P
<1>9. \A i \in 0 .. calls : i \in P
    BY <1>3, <1>7, <1>8, Induction, Zenon
<1>10. Putting(f[calls], t, u, calls) \/ PutDone(f[calls], t, u, val)
    BY <1>3, <1>9 DEF P
<1>11. ~ Putting(f[calls], t, u, calls)
    <2>1. SUFFICES ASSUME Putting(f[calls], t, u, calls) PROVE FALSE
        OBVIOUS
    <2> DEFINE n == f[calls][2]
    <2>2. /\ n \in Ways /\ Len(n) = calls /\ Follows(f[calls][1], u, n)
          /\ \/ \A j \in 0 .. calls - 1 : Upto(n, j) \in DOMAIN t
             \/ calls =< N + Mids(n)
        BY <2>1 DEF Putting, N
    <2> HIDE DEF n
    <2>3. Pos(n) \in 1 .. Len(u) /\ Mids(n) \in Nat
        BY <2>2, PosBound, MidsIs
    <2>4. CASE \A j \in 0 .. calls - 1 : Upto(n, j) \in DOMAIN t
        <3>1. calls \in 0 .. Len(n)
            BY <1>3, <2>2
        <3>2. calls =< N
            BY <1>1, <2>2, <2>4, <3>1, Deep DEF N
        <3>3. QED
            BY <1>1, <3>2 DEF calls
    <2>5. CASE calls =< N + Mids(n)
        BY <1>1, <2>3, <2>5 DEF calls, Pos
    <2>6. QED
        BY <2>2, <2>4, <2>5
<1>12. Wrote(f[calls][1], f[calls][2], t, u, val)
    BY <1>10, <1>11 DEF PutDone
<1>13. QED
    BY <1>5, <1>12

\* The search for a text that another trie of the same nodes, or of some of
\* them, finds ends where it ended.
LEMMA GrownEnds ==
    ASSUME NEW t, NEW s, Grown(t, s), NEW u, NEW n \in DOMAIN t, Ends(t, u, n)
    PROVE  Ends(s, u, n)
<1>1. n \in DOMAIN s /\ s[n].c = t[n].c /\ n \in Ways /\ Follows(s, u, n)
    BY GrownFollows DEF Grown, Ends
<1>2. Trie!Found(t, n, u, Pos(n))
    BY DEF Ends, Stopped
<1>3. QED
    BY <1>1, <1>2 DEF Ends, Stopped, Trie!Found

LEMMA ShrunkEnds ==
    ASSUME NEW t, Rooted(t), NEW s, Grown(t, s), NEW u, NEW n \in DOMAIN t, Ends(s, u, n)
    PROVE  Ends(t, u, n)
<1>1. n \in Ways /\ Len(n) \in Nat
    BY DEF Ends, Ways
<1>2. ASSUME NEW i \in 0 .. Len(n) - 1 PROVE Leads(t, u, Upto(n, i), n[i + 1])
    <2>1. Leads(s, u, Upto(n, i), n[i + 1])
        BY DEF Ends, Follows
    <2>2. i \in 0 .. Len(n)
        BY <1>1
    <2>3. Upto(n, i) \in DOMAIN t
        BY <2>2, RootedUpto
    <2>4. s[Upto(n, i)].c = t[Upto(n, i)].c
        BY <2>3 DEF Grown
    <2>5. QED
        BY <2>1, <2>3, <2>4 DEF Leads, Stopped, Trie!Found, Trie!Side
<1>3. n \in DOMAIN s /\ s[n].c = t[n].c
    BY DEF Grown
<1>4. Stopped(t, u, n)
    BY <1>3 DEF Ends, Stopped, Trie!Found
<1>5. QED
    BY <1>1, <1>2, <1>4 DEF Ends, Follows

\* What put writes for a text, no other text reads.
LEMMA WroteGets ==
    ASSUME NEW t, Rooted(t), NEW u \in Texts, NEW val, NEW s, NEW n, Wrote(s, n, t, u, val),
           NEW w \in Texts
    PROVE  Trie!Get(s, w) = IF w = u THEN val ELSE Trie!Get(t, w)
<1>1. /\ Rooted(s) /\ Grown(t, s) /\ Kept(t, s, {n})
      /\ n \in DOMAIN s /\ Ends(s, u, n) /\ s[n].v = val
    BY DEF Wrote
<1>2. CASE w = u
    BY <1>1, <1>2, GetIs
<1>3. CASE w # u
    <2> DEFINE m == Trie!GetNode(s, w)
               l == Trie!GetNode(t, w)
    <2>1. Ends(s, w, m) /\ Ends(t, w, l)
        BY <1>1, GetNodeIs
    <2> HIDE DEF m, l
    <2>2. /\ Trie!Get(s, w) = IF m \in DOMAIN s THEN s[m].v ELSE Trie!NoValue
          /\ Trie!Get(t, w) = IF l \in DOMAIN t THEN t[l].v ELSE Trie!NoValue
        BY <1>1, <2>1, GetIs
    <2>3. ~ (m \in DOMAIN s /\ m = n)
        BY <1>1, <1>3, <2>1, SameText
    <2>4. m \in DOMAIN s => s[m].v = IF m \in DOMAIN t THEN t[m].v ELSE Trie!NoValue
        BY <1>1, <2>3 DEF Kept
    <2>5. m \in DOMAIN t => m = l
        <3>1. SUFFICES ASSUME m \in DOMAIN t PROVE m = l
            OBVIOUS
        <3>2. Ends(t, w, m)
            BY <1>1, <2>1, <3>1, ShrunkEnds
        <3>3. QED
            BY <2>1, <3>2, EndsOnce
    <2>6. l \in DOMAIN t => m = l
        <3>1. SUFFICES ASSUME l \in DOMAIN t PROVE m = l
            OBVIOUS
        <3>2. Ends(s, w, l)
            BY <1>1, <2>1, <3>1, GrownEnds
        <3>3. QED
            BY <2>1, <3>2, EndsOnce
    <2>7. m \in DOMAIN t => m \in DOMAIN s
        BY <1>1 DEF Grown
    <2>8. QED
        BY <1>3, <2>2, <2>4, <2>5, <2>6, <2>7
<1>4. QED
    BY <1>2, <1>3

\* RemoveKey writes that there is no value.
LEMMA RemoveKeyIs ==
    ASSUME NEW t, Rooted(t), NEW u \in Texts
    PROVE  \/ Trie!RemoveKey(t, u) = t /\ Trie!Get(t, u) = Trie!NoValue
           \/ \E n : Wrote(Trie!RemoveKey(t, u), n, t, u, Trie!NoValue)
<1> DEFINE n == Trie!GetNode(t, u)
           s == Trie!RemoveKey(t, u)
<1>1. Ends(t, u, n)
    BY GetNodeIs
<1>2. CASE n \notin DOMAIN t
    <2>1. s = t
        BY <1>2 DEF Trie!RemoveKey, Trie!IsNull
    <2>2. Trie!Get(t, u) = Trie!NoValue
        BY <1>1, <1>2, GetIs
    <2>3. QED
        BY <2>1, <2>2
<1>3. CASE n \in DOMAIN t
    <2>1. s = [t EXCEPT ![n].v = Trie!NoValue]
        BY <1>3 DEF Trie!RemoveKey, Trie!IsNull
    <2> HIDE DEF n, s
    <2>2. t \in [DOMAIN t -> [c : Nat, v : Nat]]
        BY DEF Rooted
    <2>3. /\ DOMAIN s = DOMAIN t /\ s \in [DOMAIN s -> [c : Nat, v : Nat]]
          /\ s[n].v = Trie!NoValue /\ \A m \in DOMAIN t : s[m].c = t[m].c
          /\ \A m \in DOMAIN t : m # n => s[m].v = t[m].v
        BY <1>3, <2>1, <2>2 DEF Trie!NoValue
    <2>4. Rooted(s)
        BY <2>3 DEF Rooted
    <2>5. Grown(t, s) /\ Kept(t, s, {n})
        BY <2>3 DEF Grown, Kept
    <2>6. Ends(s, u, n)
        BY <1>1, <1>3, <2>5, GrownEnds
    <2>7. Wrote(s, n, t, u, Trie!NoValue)
        BY <1>3, <2>3, <2>4, <2>5, <2>6 DEF Wrote
    <2>8. QED
        BY <2>7 DEF s
<1>4. QED
    BY <1>2, <1>3

LEMMA NilIs ==
    /\ Rooted(Trie!Nil)
    /\ \A u \in Texts : Trie!Get(Trie!Nil, u) = Trie!NoValue
<1>1. DOMAIN Trie!Nil = {} /\ Trie!Nil \in [{} -> [c : Nat, v : Nat]]
    BY DEF Trie!Nil
<1>2. IsFiniteSet({})
    BY FS_EmptySet
<1>3. Rooted(Trie!Nil)
    BY <1>1, <1>2 DEF Rooted
<1>4. \A u \in Texts : Trie!Get(Trie!Nil, u) = Trie!NoValue
    BY <1>1 DEF Trie!Get, Trie!IsNull
<1>5. QED
    BY <1>3, <1>4

LEMMA CopyNodeIs ==
    ASSUME NEW t, Rooted(t)
    PROVE  Trie!CopyNode(t) = t
<1>1. t \in [DOMAIN t -> [c : Nat, v : Nat]]
    BY DEF Rooted
<1>2. \A n \in DOMAIN t : [c |-> t[n].c, v |-> t[n].v] = t[n]
    BY <1>1
<1>3. Trie!CopyNode(t) = [n \in DOMAIN t |-> t[n]]
    BY <1>2 DEF Trie!CopyNode
<1>4. QED
    BY <1>1, <1>3

-----------------------------------------------------------------------------
(* Trie: the texts that a way spells. *)

\* The character that is compared at the position p on the way to n, and matches.
Spelt(t, n, p) ==
    t[Upto(n, CHOOSE i \in 0 .. Len(n) - 1 : n[i + 1] = "mid" /\ Pos(Upto(n, i)) = p)].c

\* The start of a text.
Begins(s, u) == Len(s) =< Len(u) /\ \A p \in 1 .. Len(s) : s[p] = u[p]

LEMMA IsPrefixIs ==
    ASSUME NEW s \in Texts, NEW u \in Texts
    PROVE  Trie!IsPrefix(s, u) <=> Begins(s, u)
<1>1. s \in Seq(Nat) /\ u \in Seq(Nat) /\ Len(s) \in Nat /\ Len(u) \in Nat
    BY DEF Texts
<1>2. SubSeq(s, 1, Len(s)) = s
    BY <1>1
<1>3. CASE Len(s) =< Len(u)
    <2>1. /\ SubSeq(u, 1, Len(s)) \in Seq(Nat) /\ Len(SubSeq(u, 1, Len(s))) = Len(s)
          /\ \A p \in 1 .. Len(s) : SubSeq(u, 1, Len(s))[p] = u[p]
        BY <1>1, <1>3
    <2>2. (\A p \in 1 .. Len(s) : s[p] = u[p]) => s = SubSeq(u, 1, Len(s))
        BY <1>1, <2>1, SeqEqual
    <2>3. QED
        BY <1>2, <1>3, <2>1, <2>2 DEF Begins, Trie!IsPrefix
<1>4. CASE ~ (Len(s) =< Len(u))
    BY <1>4 DEF Begins, Trie!IsPrefix
<1>5. QED
    BY <1>3, <1>4

\* Two starts of a text that are as long are one.
LEMMA BeginsOnce ==
    ASSUME NEW s \in Texts, NEW w \in Texts, NEW u, Begins(s, u), Begins(w, u), Len(s) = Len(w)
    PROVE  s = w
BY SeqEqual DEF Begins, Texts

LEMMA SpeltIs ==
    ASSUME NEW t, NEW n \in Ways, NEW u,
           \A i \in 0 .. Len(n) - 1 : n[i + 1] = "mid" => u[Pos(Upto(n, i))] = t[Upto(n, i)].c,
           NEW p \in 1 .. Mids(n)
    PROVE  u[p] = Spelt(t, n, p)
<1> DEFINE j == CHOOSE i \in 0 .. Len(n) - 1 : n[i + 1] = "mid" /\ Pos(Upto(n, i)) = p
<1>1. j \in 0 .. Len(n) - 1 /\ n[j + 1] = "mid" /\ Pos(Upto(n, j)) = p
    BY MidAt
<1> HIDE DEF j
<1>2. u[p] = t[Upto(n, j)].c
    BY <1>1
<1>3. QED
    BY <1>2 DEF Spelt, j

LEMMA FollowsSpelt ==
    ASSUME NEW t, NEW u, NEW n \in Ways, Follows(t, u, n), NEW p \in 1 .. Mids(n)
    PROVE  u[p] = Spelt(t, n, p)
<1>1. ASSUME NEW i \in 0 .. Len(n) - 1, n[i + 1] = "mid"
      PROVE  u[Pos(Upto(n, i))] = t[Upto(n, i)].c
    <2>1. Leads(t, u, Upto(n, i), n[i + 1])
        BY DEF Follows
    <2>2. QED
        BY <1>1, <2>1, SideIs DEF Leads
<1>2. QED
    BY <1>1, SpeltIs

\* A text is found where it is spelt.
LEMMA EndsSpelt ==
    ASSUME NEW t, NEW u \in Texts, NEW n \in DOMAIN t, Ends(t, u, n)
    PROVE  /\ n \in Ways /\ Follows(t, u, n) /\ Mids(n) \in Nat
           /\ Len(u) = Pos(n) /\ u[Pos(n)] = t[n].c
           /\ \A p \in 1 .. Mids(n) : u[p] = Spelt(t, n, p)
<1>1. n \in Ways /\ Follows(t, u, n) /\ Mids(n) \in Nat
    BY MidsIs DEF Ends
<1>2. Trie!Found(t, n, u, Pos(n)) /\ u # <<>>
    BY DEF Ends, Stopped, Texts
<1>3. QED
    BY <1>1, <1>2, FollowsSpelt DEF Trie!Found

\* The positions on a way do not go back.
LEMMA MidsUpto ==
    ASSUME NEW n \in Ways, NEW i \in 0 .. Len(n)
    PROVE  Mids(Upto(n, i)) \in Nat /\ Mids(Upto(n, i)) =< Mids(n)
<1>1. Upto(n, i) \in Ways /\ Len(Upto(n, i)) = i /\ \A j \in 1 .. i : Upto(n, i)[j] = n[j]
    BY UptoIs
<1>2. Len(n) \in Nat
    BY DEF Ways
<1>3. MidsOf(Upto(n, i)) \in SUBSET MidsOf(n)
    BY <1>1, <1>2 DEF MidsOf
<1>4. QED
    BY <1>1, <1>3, MidsIs, FS_Subset DEF Mids

LEMMA UptoUpto ==
    ASSUME NEW n \in Ways, NEW i \in 0 .. Len(n), NEW j \in 0 .. i
    PROVE  Upto(Upto(n, i), j) = Upto(n, j)
<1>1. Upto(n, i) \in Ways /\ Len(Upto(n, i)) = i /\ \A k \in 1 .. i : Upto(n, i)[k] = n[k]
    BY UptoIs
<1>2. j \in 0 .. Len(Upto(n, i)) /\ j =< Len(n) /\ \A k \in 1 .. j : Upto(n, i)[k] = n[k]
    BY <1>1 DEF Ways
<1>3. QED
    BY <1>1, <1>2, UptoSame

LEMMA Depth ==
    ASSUME NEW t, Rooted(t), NEW n \in DOMAIN t
    PROVE  Len(n) \in Nat /\ Cardinality(DOMAIN t) \in Nat /\ Len(n) + 1 =< Cardinality(DOMAIN t)
<1>1. n \in Ways /\ Len(n) \in Nat /\ IsFiniteSet(DOMAIN t) /\ Cardinality(DOMAIN t) \in Nat
    BY FS_CardinalityType DEF Rooted, Ways
<1>2. \A i \in 0 .. Len(n) : Upto(n, i) \in DOMAIN t
    BY RootedUpto
<1> DEFINE m == Append(n, "mid")
<1>3. "mid" \in Sides
    BY DEF Sides
<1>4. m \in Ways /\ Len(m) = Len(n) + 1 /\ \A i \in 0 .. Len(n) : Upto(m, i) = Upto(n, i)
    BY <1>1, <1>3, AppendIs, AppendUpto
<1> HIDE DEF m
<1>5. Len(n) + 1 \in 0 .. Len(m) /\ \A i \in 0 .. (Len(n) + 1) - 1 : Upto(m, i) \in DOMAIN t
    BY <1>1, <1>2, <1>4
<1>6. QED
    BY <1>1, <1>4, <1>5, Deep

\* What a text begins with is found above it, at a node that the text leaves
\* to the middle.
LEMMA BeginsEnds ==
    ASSUME NEW t, Rooted(t), NEW s \in Texts, NEW u \in Texts, NEW m \in DOMAIN t, Ends(t, u, m),
           Begins(s, u), s # u
    PROVE  \E i \in 0 .. Len(m) - 1 : Ends(t, s, Upto(m, i)) /\ m[i + 1] = "mid"
<1>1. /\ m \in Ways /\ Follows(t, u, m) /\ Mids(m) \in Nat /\ Len(m) \in Nat
      /\ Len(u) = Mids(m) + 1
    BY EndsSpelt DEF Pos, Ways
<1>2. Len(s) \in Nat /\ Len(u) \in Nat /\ Len(s) # 0
    BY EmptySeq DEF Texts
<1>3. Len(s) # Len(u)
    BY SeqEqual DEF Begins, Texts
<1>4. Len(s) \in 1 .. Mids(m)
    BY <1>1, <1>2, <1>3 DEF Begins
<1>5. PICK i \in 0 .. Len(m) - 1 : m[i + 1] = "mid" /\ Pos(Upto(m, i)) = Len(s)
    BY <1>1, <1>4, MidAt
<1> DEFINE k == Upto(m, i)
<1>6. i \in 0 .. Len(m)
    BY <1>1
<1>7. /\ k \in Ways /\ Len(k) = i /\ Follows(t, u, k) /\ Leads(t, u, k, "mid")
      /\ Pos(k) = Len(s) /\ Mids(k) \in Nat
    BY <1>1, <1>5, <1>6, UptoIs, FollowsUpto, MidsIs DEF Follows
<1> HIDE DEF k
<1>8. ASSUME NEW j \in 0 .. Len(k) - 1 PROVE Leads(t, s, Upto(k, j), k[j + 1])
    <2> DEFINE a == Upto(k, j)
    <2>1. j \in 0 .. Len(k) /\ j + 1 \in 0 .. Len(k)
        BY <1>7
    <2>2. /\ a \in Ways /\ Mids(a) \in Nat /\ Pos(a) =< Len(s)
          /\ k[j + 1] \in Sides /\ Upto(k, j + 1) = Append(a, k[j + 1])
          /\ Pos(Upto(k, j + 1)) =< Len(s)
        BY <1>7, <2>1, UptoIs, UptoNext, MidsUpto DEF Pos
    <2>3. Leads(t, u, a, k[j + 1])
        BY <1>7 DEF Follows
    <2> HIDE DEF a
    <2>4. Pos(a) \in 1 .. Len(s)
        BY <1>2, <2>2 DEF Pos
    <2>5. s[Pos(a)] = u[Pos(a)]
        BY <2>4 DEF Begins
    <2>6. s[Pos(a)] = t[a].c => Pos(a) # Len(s)
        <3>1. SUFFICES ASSUME s[Pos(a)] = t[a].c, Pos(a) = Len(s) PROVE FALSE
            OBVIOUS
        <3>2. k[j + 1] = "mid"
            BY <2>3, <2>5, <3>1, SideIs DEF Leads
        <3>3. Pos(Upto(k, j + 1)) = Pos(a) + 1
            BY <2>2, <3>2, MidsAppend DEF Pos
        <3>4. QED
            BY <1>2, <2>2, <3>1, <3>3
    <2>7. s # <<>>
        BY DEF Texts
    <2>8. QED
        BY <2>3, <2>5, <2>6, <2>7 DEF Leads, Stopped, Trie!Found, a
<1>9. Follows(t, s, k)
    BY <1>8 DEF Follows
<1>10. u[Pos(k)] = t[k].c
    BY <1>7, SideIs DEF Leads
<1>11. s[Pos(k)] = u[Pos(k)]
    BY <1>2, <1>7 DEF Begins
<1>12. Stopped(t, s, k)
    BY <1>7, <1>10, <1>11 DEF Stopped, Trie!Found
<1>13. Ends(t, s, k)
    BY <1>7, <1>9, <1>12 DEF Ends
<1>14. QED
    BY <1>5, <1>13 DEF k

\* And what leaves it there begins with it.
LEMMA EndsBegins ==
    ASSUME NEW t, NEW s \in Texts, NEW n \in DOMAIN t, Ends(t, s, n),
           NEW u \in Texts, NEW m \in Ways, Follows(t, u, m),
           Len(n) < Len(m), Upto(m, Len(n)) = n, m[Len(n) + 1] = "mid"
    PROVE  Begins(s, u) /\ Len(s) < Len(u)
<1>1. /\ n \in Ways /\ Mids(n) \in Nat /\ Len(s) = Pos(n) /\ s[Pos(n)] = t[n].c
      /\ \A p \in 1 .. Mids(n) : s[p] = Spelt(t, n, p)
    BY EndsSpelt
<1>2. Len(n) \in Nat /\ Len(m) \in Nat
    BY <1>1 DEF Ways
<1>3. Len(n) \in 0 .. Len(m) - 1 /\ Len(n) \in 0 .. Len(m) /\ Len(n) + 1 \in 0 .. Len(m)
    BY <1>2
<1>4. Follows(t, u, n)
    BY <1>3, FollowsUpto
<1>5. Leads(t, u, n, "mid")
    BY <1>3 DEF Follows
<1>6. u[Pos(n)] = t[n].c
    BY <1>5, SideIs DEF Leads
<1>7. \A p \in 1 .. Mids(n) : u[p] = Spelt(t, n, p)
    BY <1>1, <1>4, FollowsSpelt
<1>8. Follows(t, u, Append(n, "mid")) /\ Append(n, "mid") \in Ways
    BY <1>1, <1>4, <1>5, FollowsAppend, AppendIs DEF Sides
<1>9. Pos(Append(n, "mid")) = Pos(n) + 1
    BY <1>1, MidsAppend DEF Pos, Sides
<1>10. Pos(n) + 1 \in 1 .. Len(u)
    BY <1>8, <1>9, PosBound
<1>11. Len(u) \in Nat
    BY DEF Texts
<1>12. \A p \in 1 .. Len(s) : p = Pos(n) \/ p \in 1 .. Mids(n)
    BY <1>1 DEF Pos
<1>13. \A p \in 1 .. Len(s) : s[p] = u[p]
    BY <1>1, <1>6, <1>7, <1>12
<1>14. Len(s) < Len(u)
    BY <1>1, <1>10, <1>11 DEF Pos
<1>15. Len(s) =< Len(u)
    BY <1>1, <1>11, <1>14 DEF Pos
<1>16. QED
    BY <1>13, <1>14, <1>15 DEF Begins

-----------------------------------------------------------------------------
(* Trie: what collect lists. *)

LEMMA PutBefore ==
    ASSUME NEW keys \in Seq(Seq(Nat)), NEW pre \in Seq(Nat),
           NEW all, all = [i \in DOMAIN keys |-> pre \o keys[i]]
    PROVE  all \in Seq(Seq(Nat)) /\ Len(all) = Len(keys)
<1>1. DOMAIN keys = 1 .. Len(keys) /\ Len(keys) \in Nat /\ \A i \in 1 .. Len(keys) : keys[i] \in Seq(Nat)
    OBVIOUS
<1>2. \A i \in 1 .. Len(keys) : pre \o keys[i] \in Seq(Nat)
    BY <1>1
<1>3. all \in [1 .. Len(keys) -> Seq(Nat)]
    BY <1>1, <1>2
<1>4. QED
    BY <1>1, <1>3

\* How many keys were found for m.
Listed(t, found, m) == IF m \in DOMAIN t THEN Len(found[m]) ELSE 0

LEMMA LongerBy ==
    ASSUME NEW S, NEW a \in Seq(S), NEW b \in Seq(S)
    PROVE  a \o b \in Seq(S) /\ Len(a \o b) = Len(a) + Len(b)
OBVIOUS

LEMMA CollectNodeIs ==
    ASSUME NEW t, Rooted(t), NEW n \in DOMAIN t, NEW found \in [DOMAIN t -> Seq(Seq(Nat))],
           NEW keys, keys = Trie!CollectNode(t, n, found)
    PROVE  /\ keys \in Seq(Seq(Nat))
           /\ Len(keys) = (IF t[n].v # Trie!NoValue THEN 1 ELSE 0)
                          + Listed(t, found, Append(n, "left")) + Listed(t, found, Append(n, "mid"))
                          + Listed(t, found, Append(n, "right"))
<1> DEFINE B(side) == IF Trie!IsNull(t, Append(n, side)) THEN <<>> ELSE found[Append(n, side)]
           here == IF t[n].v # Trie!NoValue THEN <<<<>>>> ELSE <<>>
           left == B("left")
           mid == B("mid")
           right == B("right")
           all == here \o left \o mid \o right
           c == t[n].c
<1>1. keys = [i \in DOMAIN all |-> <<c>> \o all[i]]
    BY DEF Trie!CollectNode
<1>2. here \in Seq(Seq(Nat)) /\ Len(here) = IF t[n].v # Trie!NoValue THEN 1 ELSE 0
    OBVIOUS
<1>3. ASSUME NEW side PROVE B(side) \in Seq(Seq(Nat)) /\ Len(B(side)) = Listed(t, found, Append(n, side))
    BY DEF Listed, Trie!IsNull
<1>4. c \in Nat /\ <<c>> \in Seq(Nat)
    BY DEF Rooted
<1>5. /\ left \in Seq(Seq(Nat)) /\ Len(left) = Listed(t, found, Append(n, "left"))
      /\ mid \in Seq(Seq(Nat)) /\ Len(mid) = Listed(t, found, Append(n, "mid"))
      /\ right \in Seq(Seq(Nat)) /\ Len(right) = Listed(t, found, Append(n, "right"))
    BY <1>3
<1> HIDE DEF B, here, left, mid, right, c
<1>6. all \in Seq(Seq(Nat)) /\ Len(all) = Len(here) + Len(left) + Len(mid) + Len(right)
    <2> DEFINE two == here \o left
               three == two \o mid
    <2>1. two \in Seq(Seq(Nat)) /\ Len(two) = Len(here) + Len(left)
        BY <1>2, <1>5, LongerBy
    <2> HIDE DEF two
    <2>2. three \in Seq(Seq(Nat)) /\ Len(three) = Len(two) + Len(mid)
        BY <1>5, <2>1, LongerBy
    <2> HIDE DEF three
    <2>3. three \o right \in Seq(Seq(Nat)) /\ Len(three \o right) = Len(three) + Len(right)
        BY <1>5, <2>2, LongerBy
    <2>4. all = three \o right
        BY DEF two, three
    <2> HIDE DEF all
    <2>5. Len(here) \in Nat /\ Len(left) \in Nat /\ Len(mid) \in Nat /\ Len(right) \in Nat
        BY <1>2, <1>5
    <2>6. QED
        BY <2>1, <2>2, <2>3, <2>4, <2>5
<1> HIDE DEF all
<1>7. keys \in Seq(Seq(Nat)) /\ Len(keys) = Len(all)
    BY <1>1, <1>4, <1>6, PutBefore
<1>8. QED
    BY <1>2, <1>5, <1>6, <1>7

\* The nodes with a value that n leads to, itself among them, and those of
\* them that are less than h below it.
Under(t, n) ==
    {m \in DOMAIN t : Len(n) =< Len(m) /\ Upto(m, Len(n)) = n /\ t[m].v # Trie!NoValue}
Within(t, n, h) == {m \in Under(t, n) : Len(m) < Len(n) + h}

LEMMA UnderFinite ==
    ASSUME NEW t, Rooted(t), NEW n
    PROVE  /\ Under(t, n) \in SUBSET DOMAIN t /\ IsFiniteSet(Under(t, n)) /\ Cardinality(Under(t, n)) \in Nat
           /\ \A h : IsFiniteSet(Within(t, n, h)) /\ Cardinality(Within(t, n, h)) \in Nat
<1>1. IsFiniteSet(DOMAIN t)
    BY DEF Rooted
<1>2. Under(t, n) \in SUBSET DOMAIN t /\ \A h : Within(t, n, h) \in SUBSET DOMAIN t
    BY DEF Under, Within
<1>3. QED
    BY <1>1, <1>2, FS_Subset, FS_CardinalityType

\* The nodes under one side of n are not under another.
LEMMA UnderSide ==
    ASSUME NEW t, Rooted(t), NEW n \in DOMAIN t, NEW side \in Sides, NEW m \in DOMAIN t
    PROVE  m \in Under(t, Append(n, side)) <=> m \in Under(t, n) /\ Len(n) < Len(m) /\ m[Len(n) + 1] = side
<1> DEFINE a == Append(n, side)
<1>1. n \in Ways /\ m \in Ways /\ Len(n) \in Nat /\ Len(m) \in Nat
    BY DEF Rooted, Ways
<1>2. a \in Ways /\ Len(a) = Len(n) + 1 /\ Upto(a, Len(n)) = n /\ a[Len(n) + 1] = side
    BY <1>1, AppendIs, AppendUpto, UptoIs
<1>3. CASE Len(n) < Len(m)
    <2>1. Len(n) \in 0 .. Len(m) - 1 /\ Len(n) \in 0 .. Len(m) /\ Len(n) + 1 \in 0 .. Len(m)
        BY <1>1, <1>3
    <2>2. /\ m[Len(n) + 1] \in Sides /\ Upto(m, Len(n)) \in Ways
          /\ Upto(m, Len(n) + 1) = Append(Upto(m, Len(n)), m[Len(n) + 1])
        BY <1>1, <2>1, UptoNext
    <2>3. Upto(m, Len(n) + 1) = a <=> Upto(m, Len(n)) = n /\ m[Len(n) + 1] = side
        BY <1>1, <2>2, AppendOnce
    <2> HIDE DEF a
    <2>4. Len(a) =< Len(m) /\ Len(n) =< Len(m)
        BY <1>1, <1>2, <1>3
    <2>5. QED
        BY <1>2, <1>3, <2>3, <2>4 DEF Under, a
<1>4. CASE ~ (Len(n) < Len(m))
    <2>1. ~ (Len(a) =< Len(m))
        BY <1>1, <1>2, <1>4
    <2>2. QED
        BY <1>4, <2>1 DEF Under
<1>5. QED
    BY <1>3, <1>4

\* What is under no node has no node under it.
LEMMA UnderNone ==
    ASSUME NEW t, Rooted(t), NEW n \in Ways, n \notin DOMAIN t
    PROVE  Under(t, n) = {} /\ \A h : Within(t, n, h) = {}
<1>1. ASSUME NEW m \in Under(t, n) PROVE FALSE
    <2>1. m \in DOMAIN t /\ Len(n) \in 0 .. Len(m) /\ Upto(m, Len(n)) = n
        BY DEF Under, Rooted, Ways
    <2>2. QED
        BY <2>1, RootedUpto
<1>2. QED
    BY <1>1 DEF Within

\* Three sets and one more element, apart from each other.
LEMMA FourParts ==
    ASSUME NEW A, NEW B, NEW C, NEW D, IsFiniteSet(A), IsFiniteSet(B), IsFiniteSet(C), IsFiniteSet(D),
           A \cap B = {}, A \cap C = {}, A \cap D = {}, B \cap C = {}, B \cap D = {}, C \cap D = {}
    PROVE  Cardinality(A \cup B \cup C \cup D) = Cardinality(A) + Cardinality(B) + Cardinality(C) + Cardinality(D)
<1>1. /\ Cardinality(A) \in Nat /\ Cardinality(B) \in Nat /\ Cardinality(C) \in Nat /\ Cardinality(D) \in Nat
      /\ Cardinality({}) = 0
    BY FS_CardinalityType, FS_EmptySet
<1>2. IsFiniteSet(A \cup B) /\ Cardinality(A \cup B) = Cardinality(A) + Cardinality(B) - Cardinality(A \cap B)
    BY FS_Union
<1>3. /\ IsFiniteSet(A \cup B \cup C)
      /\ Cardinality(A \cup B \cup C) = Cardinality(A \cup B) + Cardinality(C) - Cardinality((A \cup B) \cap C)
    BY <1>2, FS_Union
<1>4. Cardinality(A \cup B \cup C \cup D)
        = Cardinality(A \cup B \cup C) + Cardinality(D) - Cardinality((A \cup B \cup C) \cap D)
    BY <1>3, FS_Union
<1>5. /\ A \cap B = {} /\ (A \cup B) \cap C = {} /\ (A \cup B \cup C) \cap D = {}
      /\ Cardinality({}) = 0
    BY <1>1
<1> DEFINE a == Cardinality(A)
           b == Cardinality(B)
           c == Cardinality(C)
           d == Cardinality(D)
           ab == Cardinality(A \cup B)
           abc == Cardinality(A \cup B \cup C)
<1>7. /\ a \in Nat /\ b \in Nat /\ c \in Nat /\ d \in Nat
      /\ ab = a + b - 0 /\ abc = ab + c - 0
      /\ Cardinality(A \cup B \cup C \cup D) = abc + d - 0
    BY <1>1, <1>2, <1>3, <1>4, <1>5, Zenon
<1> HIDE DEF a, b, c, d, ab, abc
<1>8. Cardinality(A \cup B \cup C \cup D) = a + b + c + d
    BY <1>7
<1>6. QED
    BY <1>8 DEF a, b, c, d

LEMMA WithinNext ==
    ASSUME NEW t, Rooted(t), NEW n \in DOMAIN t, NEW h \in Nat
    PROVE  Cardinality(Within(t, n, h + 1)) =
             (IF t[n].v # Trie!NoValue THEN 1 ELSE 0)
             + Cardinality(Within(t, Append(n, "left"), h)) + Cardinality(Within(t, Append(n, "mid"), h))
             + Cardinality(Within(t, Append(n, "right"), h))
<1> DEFINE here == IF t[n].v # Trie!NoValue THEN {n} ELSE {}
           W(side) == Within(t, Append(n, side), h)
<1>1. n \in Ways /\ Len(n) \in Nat /\ Upto(n, Len(n)) = n
    BY UptoIs DEF Rooted, Ways
<1>2. \A m \in DOMAIN t : m \in Ways /\ Len(m) \in Nat
    BY DEF Rooted, Ways
<1>3. ASSUME NEW m \in DOMAIN t, NEW side \in Sides
      PROVE  m \in W(side) <=> /\ m \in Under(t, n) /\ Len(n) < Len(m) /\ m[Len(n) + 1] = side
                               /\ Len(m) < Len(n) + (h + 1)
    <2>1. Len(Append(n, side)) = Len(n) + 1
        BY <1>1, AppendIs
    <2>2. Len(m) < Len(Append(n, side)) + h <=> Len(m) < Len(n) + (h + 1)
        BY <1>1, <1>2, <2>1
    <2>3. QED
        BY <2>2, UnderSide DEF Within
<1>4. \A m \in DOMAIN t : Len(n) < Len(m) => m[Len(n) + 1] \in Sides
    BY <1>1, <1>2 DEF Ways
<1>5. ASSUME NEW m \in DOMAIN t
      PROVE  m \in Under(t, n) /\ ~ (Len(n) < Len(m)) <=> m \in here
    <2>1. m \in Under(t, n) /\ ~ (Len(n) < Len(m)) => m = n /\ t[n].v # Trie!NoValue
        <3>1. SUFFICES ASSUME m \in Under(t, n), ~ (Len(n) < Len(m)) PROVE m = n /\ t[n].v # Trie!NoValue
            OBVIOUS
        <3>2. Len(n) = Len(m) /\ Upto(m, Len(n)) = n /\ t[m].v # Trie!NoValue
            BY <1>1, <1>2, <3>1 DEF Under
        <3>3. Upto(m, Len(m)) = m
            BY <1>2, UptoIs
        <3>4. QED
            BY <3>2, <3>3
    <2>2. m \in here => m = n /\ t[n].v # Trie!NoValue
        OBVIOUS
    <2>3. t[n].v # Trie!NoValue => n \in Under(t, n) /\ ~ (Len(n) < Len(n))
        BY <1>1 DEF Under
    <2>4. QED
        BY <2>1, <2>2, <2>3
<1>6. W("left") \in SUBSET DOMAIN t /\ W("mid") \in SUBSET DOMAIN t /\ W("right") \in SUBSET DOMAIN t
      /\ here \in SUBSET DOMAIN t /\ Within(t, n, h + 1) \in SUBSET DOMAIN t
    BY DEF Within, Under
<1>7. Len(n) < Len(n) + (h + 1)
    BY <1>1
<1>8. n \in here => ~ (Len(n) < Len(n))
    BY <1>1
<1>9. IsFiniteSet(W("left")) /\ IsFiniteSet(W("mid")) /\ IsFiniteSet(W("right"))
    BY UnderFinite
<1>10. IsFiniteSet(here) /\ Cardinality(here) = IF t[n].v # Trie!NoValue THEN 1 ELSE 0
    BY FS_Singleton, FS_EmptySet
<1>11. \A m \in here : m = n
    OBVIOUS
<1> DEFINE L == W("left")
           M == W("mid")
           R == W("right")
<1>12. /\ \A m \in L : Len(n) < Len(m) /\ m[Len(n) + 1] = "left"
       /\ \A m \in M : Len(n) < Len(m) /\ m[Len(n) + 1] = "mid"
       /\ \A m \in R : Len(n) < Len(m) /\ m[Len(n) + 1] = "right"
    BY <1>3, <1>6 DEF Sides
<1>13. ASSUME NEW m \in DOMAIN t
       PROVE  m \in Within(t, n, h + 1) <=> m \in here \/ m \in L \/ m \in M \/ m \in R
    <2>1. m \in Within(t, n, h + 1) <=> m \in Under(t, n) /\ Len(m) < Len(n) + (h + 1)
        BY DEF Within
    <2>2. /\ m \in L <=> m \in Under(t, n) /\ Len(n) < Len(m) /\ m[Len(n) + 1] = "left" /\ Len(m) < Len(n) + (h + 1)
          /\ m \in M <=> m \in Under(t, n) /\ Len(n) < Len(m) /\ m[Len(n) + 1] = "mid" /\ Len(m) < Len(n) + (h + 1)
          /\ m \in R <=> m \in Under(t, n) /\ Len(n) < Len(m) /\ m[Len(n) + 1] = "right" /\ Len(m) < Len(n) + (h + 1)
        BY <1>3 DEF Sides
    <2>3. m \in here => Len(m) < Len(n) + (h + 1)
        BY <1>7, <1>11
    <2> HIDE DEF L, M, R, here, W
    <2>4. Len(n) < Len(m) => m[Len(n) + 1] = "left" \/ m[Len(n) + 1] = "mid" \/ m[Len(n) + 1] = "right"
        BY <1>4 DEF Sides
    <2>5. QED
        BY <1>5, <2>1, <2>2, <2>3, <2>4
<1> HIDE DEF L, M, R, here, W
<1>14. /\ L \in SUBSET DOMAIN t /\ M \in SUBSET DOMAIN t /\ R \in SUBSET DOMAIN t
       /\ here \in SUBSET DOMAIN t /\ Within(t, n, h + 1) \in SUBSET DOMAIN t
       /\ IsFiniteSet(L) /\ IsFiniteSet(M) /\ IsFiniteSet(R)
    BY <1>6, <1>9 DEF L, M, R
<1>15. Within(t, n, h + 1) = here \cup L \cup M \cup R
    BY <1>13, <1>14
<1>16. /\ here \cap L = {} /\ here \cap M = {} /\ here \cap R = {}
       /\ L \cap M = {} /\ L \cap R = {} /\ M \cap R = {}
    BY <1>8, <1>11, <1>12
<1>17. Cardinality(Within(t, n, h + 1)) = Cardinality(here) + Cardinality(L) + Cardinality(M) + Cardinality(R)
    BY <1>10, <1>14, <1>15, <1>16, FourParts
<1>18. QED
    BY <1>10, <1>17 DEF L, M, R, W

\* f is what Collected finds, by the height of the calls.
Founds(f, t, n) ==
    f = [h \in 0 .. n |-> [node \in DOMAIN t |-> IF h = 0 THEN <<>> ELSE Trie!CollectNode(t, node, f[h - 1])]]

LEMMA FoundsExist ==
    ASSUME NEW t, NEW n \in Nat
    PROVE  \E f : Founds(f, t, n)
<1> DEFINE P == {k \in 0 .. n : \E f : Founds(f, t, k)}
<1>1. 0 \in P
    <2> DEFINE none == [h \in 0 .. 0 |-> [node \in DOMAIN t |-> <<>>]]
    <2>1. none = [h \in 0 .. 0 |-> [node \in DOMAIN t |-> IF h = 0 THEN <<>> ELSE Trie!CollectNode(t, node, none[h - 1])]]
        OBVIOUS
    <2> HIDE DEF none
    <2>2. Founds(none, t, 0)
        BY <2>1, Zenon DEF Founds
    <2>3. QED
        BY <2>2
<1>2. ASSUME NEW k \in 0 .. n - 1, k \in P PROVE k + 1 \in P
    <2>1. PICK f : Founds(f, t, k)
        BY <1>2
    <2>2. f = [h \in 0 .. k |-> [node \in DOMAIN t |-> IF h = 0 THEN <<>> ELSE Trie!CollectNode(t, node, f[h - 1])]]
        BY <2>1, Zenon DEF Founds
    <2> DEFINE longer == [h \in 0 .. k + 1 |-> [node \in DOMAIN t |-> IF h = 0 THEN <<>> ELSE Trie!CollectNode(t, node, f[h - 1])]]
    <2>3. ASSUME NEW h \in 0 .. k PROVE longer[h] = f[h]
        <3>1. h \in 0 .. k + 1
            BY <1>2
        <3>2. QED
            BY <2>2, <3>1, Zenon
    <2>4. ASSUME NEW h \in 0 .. k + 1, h # 0 PROVE longer[h - 1] = f[h - 1]
        <3>1. h - 1 \in 0 .. k
            BY <1>2, <2>4
        <3>2. QED
            BY <2>3, <3>1
    <2>5. longer = [h \in 0 .. k + 1 |-> [node \in DOMAIN t |-> IF h = 0 THEN <<>> ELSE Trie!CollectNode(t, node, longer[h - 1])]]
        BY <2>4
    <2> HIDE DEF longer
    <2>6. Founds(longer, t, k + 1)
        BY <2>5, Zenon DEF Founds
    <2>7. k + 1 \in 0 .. n
        BY <1>2
    <2>8. QED
        BY <2>6, <2>7
<1> HIDE DEF P
<1>3. \A k \in 0 .. n : k \in P
    BY <1>1, <1>2, Induction, Zenon
<1>4. n \in P
    BY <1>3
<1>5. QED
    BY <1>4, Zenon DEF P

LEMMA FoundsNext ==
    ASSUME NEW t, NEW n \in Nat, NEW f, Founds(f, t, n)
    PROVE  /\ \A h \in 0 .. n : DOMAIN f[h] = DOMAIN t /\ f[h] = [node \in DOMAIN t |-> f[h][node]]
           /\ \A node \in DOMAIN t : f[0][node] = <<>>
           /\ \A h \in 0 .. n - 1, node \in DOMAIN t : f[h + 1][node] = Trie!CollectNode(t, node, f[h])
<1>1. f = [h \in 0 .. n |-> [node \in DOMAIN t |-> IF h = 0 THEN <<>> ELSE Trie!CollectNode(t, node, f[h - 1])]]
    BY Zenon DEF Founds
<1>2. \A h \in 0 .. n : DOMAIN f[h] = DOMAIN t /\ f[h] = [node \in DOMAIN t |-> f[h][node]]
    BY <1>1
<1>3. 0 \in 0 .. n
    OBVIOUS
<1>4. ASSUME NEW h \in 0 .. n - 1, NEW node \in DOMAIN t
      PROVE  f[h + 1][node] = Trie!CollectNode(t, node, f[h])
    <2> DEFINE k == h + 1
    <2>1. k \in 0 .. n /\ k # 0 /\ k - 1 = h
        OBVIOUS
    <2> HIDE DEF k
    <2>2. f[k] = [m \in DOMAIN t |-> IF k = 0 THEN <<>> ELSE Trie!CollectNode(t, m, f[k - 1])]
        BY <1>1, <2>1, Zenon
    <2>3. f[k] = [m \in DOMAIN t |-> Trie!CollectNode(t, m, f[h])]
        BY <2>1, <2>2
    <2>4. QED
        BY <2>3 DEF k
<1>5. f[0] = [node \in DOMAIN t |-> <<>>]
    BY <1>1, <1>3
<1>6. \A node \in DOMAIN t : f[0][node] = <<>>
    BY <1>5
<1>7. QED
    BY <1>2, <1>4, <1>6

\* collect finds as many keys as there are nodes with a value.
LEMMA CollectedIs ==
    ASSUME NEW t, Rooted(t), NEW n \in DOMAIN t
    PROVE  /\ Trie!Collected(t)[n] \in Seq(Seq(Nat))
           /\ Len(Trie!Collected(t)[n]) = Cardinality(Under(t, n))
<1> DEFINE N == Cardinality(DOMAIN t)
<1>1. N \in Nat /\ IsFiniteSet(DOMAIN t)
    BY FS_CardinalityType DEF Rooted
<1>2. Trie!Cardinality(DOMAIN t) = N
    BY TrieCardinalityIs
<1> HIDE DEF N
<1>3. \E f : Founds(f, t, N)
    BY <1>1, FoundsExist
<1>4. PICK f : Founds(f, t, N) /\ Trie!Collected(t) = f[N]
    <2>1. Trie!Collected(t) = (CHOOSE f : Founds(f, t, N))[N]
        BY <1>2 DEF Trie!Collected, Founds
    <2>2. Founds(CHOOSE f : Founds(f, t, N), t, N)
        BY <1>3, Zenon
    <2>3. QED
        BY <2>1, <2>2
<1>5. /\ \A h \in 0 .. N : DOMAIN f[h] = DOMAIN t /\ f[h] = [node \in DOMAIN t |-> f[h][node]]
      /\ \A m \in DOMAIN t : f[0][m] = <<>>
      /\ \A h \in 0 .. N - 1, m \in DOMAIN t : f[h + 1][m] = Trie!CollectNode(t, m, f[h])
    BY <1>1, <1>4, FoundsNext
<1> DEFINE Q(h, m) == f[h][m] \in Seq(Seq(Nat)) /\ Len(f[h][m]) = Cardinality(Within(t, m, h))
           P == {h \in 0 .. N : \A m \in DOMAIN t : Q(h, m)}
<1>6. 0 \in P
    <2>1. ASSUME NEW m \in DOMAIN t PROVE Q(0, m)
        <3>1. ASSUME NEW k \in Within(t, m, 0) PROVE FALSE
            BY DEF Within, Under, Rooted, Ways
        <3>2. Within(t, m, 0) = {}
            BY <3>1
        <3>3. <<>> \in Seq(Seq(Nat)) /\ Len(<<>>) = 0
            OBVIOUS
        <3>4. f[0][m] = <<>> /\ Cardinality(Within(t, m, 0)) = 0
            BY <1>5, <3>2, FS_EmptySet
        <3>5. QED
            BY <3>3, <3>4, Zenon
    <2>2. QED
        BY <1>1, <2>1
<1>7. ASSUME NEW h \in 0 .. N - 1, h \in P PROVE h + 1 \in P
    <2>1. h \in Nat /\ h \in 0 .. N /\ h + 1 \in 0 .. N
        BY <1>1
    <2> DEFINE found == f[h]
    <2>2. found \in [DOMAIN t -> Seq(Seq(Nat))] /\ \A m \in DOMAIN t : Len(found[m]) = Cardinality(Within(t, m, h))
        BY <1>5, <1>7, <2>1
    <2>3. ASSUME NEW m \in DOMAIN t PROVE f[h + 1][m] = Trie!CollectNode(t, m, found)
        BY <1>5
    <2> HIDE DEF found
    <2>4. ASSUME NEW m \in DOMAIN t, NEW side \in Sides
          PROVE  Listed(t, found, Append(m, side)) = Cardinality(Within(t, Append(m, side), h))
        <3>1. CASE Append(m, side) \in DOMAIN t
            BY <2>2, <3>1 DEF Listed
        <3>2. CASE Append(m, side) \notin DOMAIN t
            <4>1. m \in Ways /\ Append(m, side) \in Ways
                BY AppendIs DEF Rooted
            <4>2. Within(t, Append(m, side), h) = {}
                BY <3>2, <4>1, UnderNone
            <4>3. QED
                BY <3>2, <4>2, FS_EmptySet DEF Listed
        <3>3. QED
            BY <3>1, <3>2
    <2>5. ASSUME NEW m \in DOMAIN t PROVE Q(h + 1, m)
        <3> DEFINE keys == f[h + 1][m]
        <3>1. keys = Trie!CollectNode(t, m, found)
            BY <2>3
        <3> HIDE DEF keys
        <3>2. /\ keys \in Seq(Seq(Nat))
              /\ Len(keys) = (IF t[m].v # Trie!NoValue THEN 1 ELSE 0)
                             + Listed(t, found, Append(m, "left")) + Listed(t, found, Append(m, "mid"))
                             + Listed(t, found, Append(m, "right"))
            BY <2>2, <3>1, CollectNodeIs
        <3>3. Cardinality(Within(t, m, h + 1)) =
                (IF t[m].v # Trie!NoValue THEN 1 ELSE 0)
                + Cardinality(Within(t, Append(m, "left"), h)) + Cardinality(Within(t, Append(m, "mid"), h))
                + Cardinality(Within(t, Append(m, "right"), h))
            BY <2>1, WithinNext
        <3>4. /\ Listed(t, found, Append(m, "left")) = Cardinality(Within(t, Append(m, "left"), h))
              /\ Listed(t, found, Append(m, "mid")) = Cardinality(Within(t, Append(m, "mid"), h))
              /\ Listed(t, found, Append(m, "right")) = Cardinality(Within(t, Append(m, "right"), h))
            BY <2>4 DEF Sides
        <3>5. Len(keys) = Cardinality(Within(t, m, h + 1))
            BY <3>2, <3>3, <3>4, Zenon
        <3>6. QED
            BY <3>2, <3>5 DEF keys
    <2>6. QED
        BY <2>1, <2>5
<1> HIDE DEF P
<1>8. \A h \in 0 .. N : h \in P
    BY <1>1, <1>6, <1>7, Induction, Zenon
<1>9. Q(N, n)
    BY <1>1, <1>8 DEF P
<1>10. Within(t, n, N) = Under(t, n)
    <2>1. ASSUME NEW m \in Under(t, n) PROVE Len(m) < Len(n) + N
        <3>1. m \in DOMAIN t /\ Len(n) \in Nat
            BY DEF Under, Rooted, Ways
        <3>2. Len(m) \in Nat /\ Len(m) + 1 =< N
            BY <3>1, Depth DEF N
        <3>3. QED
            BY <1>1, <3>1, <3>2
    <2>2. QED
        BY <2>1 DEF Within
<1>11. QED
    BY <1>4, <1>9, <1>10

LEMMA CollectIs ==
    ASSUME NEW t, Rooted(t), NEW n \in Ways, NEW pre \in Seq(Nat)
    PROVE  /\ Trie!Collect(t, n, pre) \in Seq(Seq(Nat))
           /\ Len(Trie!Collect(t, n, pre)) = Cardinality(Under(t, n))
<1>1. CASE n \notin DOMAIN t
    <2>1. Under(t, n) = {} /\ Trie!Collect(t, n, pre) = <<>>
        BY <1>1, UnderNone DEF Trie!Collect, Trie!IsNull
    <2>2. QED
        BY <2>1, FS_EmptySet
<1>2. CASE n \in DOMAIN t
    <2> DEFINE found == Trie!Collected(t)[n]
               all == Trie!Collect(t, n, pre)
    <2>1. found \in Seq(Seq(Nat)) /\ Len(found) = Cardinality(Under(t, n))
        BY <1>2, CollectedIs
    <2>2. all = [i \in DOMAIN found |-> pre \o found[i]]
        BY <1>2 DEF Trie!Collect, Trie!IsNull
    <2> HIDE DEF found, all
    <2>3. all \in Seq(Seq(Nat)) /\ Len(all) = Len(found)
        BY <2>1, <2>2, PutBefore
    <2>4. QED
        BY <2>1, <2>3 DEF all
<1>3. QED
    BY <1>1, <1>2

-----------------------------------------------------------------------------
(* Trie: the texts that are stored. *)

\* Every value is that of a text of S, and every node is on the way to one.
Owned(t, S) == \A n \in DOMAIN t : t[n].v # Trie!NoValue => \E w \in S : Ends(t, w, n)
Reached(t, S) ==
    \A n \in DOMAIN t : \E w \in S, m \in DOMAIN t :
        Ends(t, w, m) /\ Len(n) =< Len(m) /\ Upto(m, Len(n)) = n

\* As many texts of S are found in X as it has nodes.
LEMMA TextsOf ==
    ASSUME NEW t, Rooted(t), NEW S \in SUBSET Texts, Owned(t, S),
           NEW X \in SUBSET DOMAIN t, \A n \in X : t[n].v # Trie!NoValue
    PROVE  Cardinality({w \in S : \E n \in X : Ends(t, w, n)}) = Cardinality(X)
<1> DEFINE W == {w \in S : \E n \in X : Ends(t, w, n)}
           f == [n \in X |-> CHOOSE w \in S : Ends(t, w, n)]
<1>1. ASSUME NEW n \in X PROVE f[n] \in W /\ f[n] \in Texts /\ Ends(t, f[n], n)
    <2>1. \E w \in S : Ends(t, w, n)
        BY DEF Owned
    <2>2. f[n] \in S /\ Ends(t, f[n], n)
        BY <2>1
    <2>3. QED
        BY <2>2
<1>2. f \in [X -> W]
    BY <1>1
<1>3. ASSUME NEW m \in X, NEW n \in X, f[m] = f[n] PROVE m = n
    BY <1>1, <1>3, EndsOnce
<1>4. ASSUME NEW w \in W PROVE \E n \in X : f[n] = w
    <2>1. PICK n \in X : Ends(t, w, n)
        OBVIOUS
    <2>2. w \in Texts /\ n \in DOMAIN t
        OBVIOUS
    <2>3. f[n] = w
        BY <1>1, <2>1, <2>2, SameText
    <2>4. QED
        BY <2>3
<1> HIDE DEF f, W
<1>5. f \in Injection(X, W)
    BY <1>2, <1>3, Zenon DEF Injection, IsInjective
<1>6. f \in Surjection(X, W)
    BY <1>2, <1>4, Zenon DEF Surjection
<1>7. ExistsBijection(X, W)
    BY <1>5, <1>6, Zenon DEF ExistsBijection, Bijection
<1>8. IsFiniteSet(X)
    BY FS_Subset DEF Rooted
<1>9. Cardinality(W) = Cardinality(X)
    BY <1>7, <1>8, FS_Bijection
<1>10. QED
    BY <1>9 DEF W

LEMMA StringsAre == \A s \in TrieStrings : s \in Texts
BY TrieAssumption DEF Texts

\* What the trie is between the operations.
TrieHolds ==
    /\ Rooted(trie)
    /\ stored \in [TrieStrings -> Nat]
    /\ \A w \in TrieStrings : Trie!Get(trie, w) = stored[w]
    /\ Owned(trie, TrieStrings) /\ Reached(trie, TrieStrings)

\* A text is stored when it is found at a node with a value.
LEMMA LiveIs ==
    ASSUME TrieHolds, NEW w \in TrieStrings
    PROVE  w \in Trie!Live <=> \E n \in DOMAIN trie : trie[n].v # Trie!NoValue /\ Ends(trie, w, n)
<1>1. Rooted(trie) /\ Trie!Get(trie, w) = stored[w] /\ w \in Texts
    BY StringsAre DEF TrieHolds
<1>2. w \in Trie!Live <=> Trie!Get(trie, w) # Trie!NoValue
    BY <1>1 DEF Trie!Live
<1> DEFINE m == Trie!GetNode(trie, w)
<1>3. Ends(trie, w, m)
    BY <1>1, GetNodeIs
<1> HIDE DEF m
<1>4. Trie!Get(trie, w) = IF m \in DOMAIN trie THEN trie[m].v ELSE Trie!NoValue
    BY <1>1, <1>3, GetIs
<1>5. ASSUME NEW n \in DOMAIN trie, trie[n].v # Trie!NoValue, Ends(trie, w, n)
      PROVE  Trie!Get(trie, w) # Trie!NoValue
    <2>1. n = m
        BY <1>3, <1>5, EndsOnce
    <2>2. QED
        BY <1>4, <1>5, <2>1
<1>6. QED
    BY <1>2, <1>3, <1>4, <1>5

LEMMA KeysCount ==
    ASSUME TrieHolds
    PROVE  Len(Trie!Keys(trie)) = Cardinality(Trie!Live)
<1>1. Rooted(trie) /\ Owned(trie, TrieStrings) /\ TrieStrings \in SUBSET Texts
    BY StringsAre DEF TrieHolds
<1>2. <<>> \in Ways /\ Len(<<>>) = 0 /\ <<>> \in Seq(Nat)
    BY MidsNone
<1>3. Len(Trie!Keys(trie)) = Cardinality(Under(trie, <<>>))
    BY <1>1, <1>2, CollectIs DEF Trie!Keys, Trie!Root
<1> DEFINE X == Under(trie, <<>>)
<1>4. ASSUME NEW n \in DOMAIN trie PROVE n \in X <=> trie[n].v # Trie!NoValue
    <2>1. n \in Ways /\ Len(n) \in Nat
        BY <1>1 DEF Rooted, Ways
    <2>2. Upto(n, 0) = <<>>
        BY <2>1, UptoIs, EmptySeq DEF Ways
    <2>3. QED
        BY <1>2, <2>1, <2>2 DEF Under
<1>5. X \in SUBSET DOMAIN trie
    BY DEF Under
<1> HIDE DEF X
<1>6. \A n \in X : trie[n].v # Trie!NoValue
    BY <1>4, <1>5
<1>7. Trie!Live = {w \in TrieStrings : \E n \in X : Ends(trie, w, n)}
    <2>1. Trie!Live \in SUBSET TrieStrings
        BY DEF Trie!Live
    <2>2. \A w \in TrieStrings : w \in Trie!Live <=> \E n \in X : Ends(trie, w, n)
        BY <1>4, <1>5, LiveIs
    <2>3. QED
        BY <2>1, <2>2
<1>8. Cardinality({w \in TrieStrings : \E n \in X : Ends(trie, w, n)}) = Cardinality(X)
    BY <1>1, <1>5, <1>6, TextsOf
<1>9. QED
    BY <1>3, <1>7, <1>8 DEF X

\* A text is found at the node of its start or under the middle of it.
LEMMA PrefixAbove ==
    ASSUME NEW t, Rooted(t), NEW s \in Texts, NEW n, Ends(t, s, n),
           NEW u \in Texts, NEW m \in DOMAIN t, Ends(t, u, m), t[m].v # Trie!NoValue
    PROVE  Begins(s, u) <=> n \in DOMAIN t /\ (m = n \/ m \in Under(t, Append(n, "mid")))
<1>1. n \in Ways /\ m \in Ways /\ Len(m) \in Nat /\ "mid" \in Sides
    BY DEF Ends, Ways, Sides
<1>2. ASSUME Begins(s, u), s = u PROVE n \in DOMAIN t /\ m = n
    BY <1>2, EndsOnce
<1>3. ASSUME Begins(s, u), s # u PROVE n \in DOMAIN t /\ m \in Under(t, Append(n, "mid"))
    <2>1. PICK i \in 0 .. Len(m) - 1 : Ends(t, s, Upto(m, i)) /\ m[i + 1] = "mid"
        BY <1>3, BeginsEnds
    <2>2. i \in 0 .. Len(m) /\ i < Len(m)
        BY <1>1
    <2>3. n = Upto(m, i) /\ n \in DOMAIN t /\ Len(n) = i
        BY <1>1, <2>1, <2>2, EndsOnce, UptoIs, RootedUpto
    <2>4. m \in Under(t, n)
        BY <2>2, <2>3 DEF Under
    <2>5. QED
        BY <1>1, <2>1, <2>2, <2>3, <2>4, UnderSide
<1>4. ASSUME n \in DOMAIN t, m = n PROVE Begins(s, u)
    <2>1. s = u
        BY <1>4, SameText
    <2>2. QED
        BY <2>1 DEF Begins, Texts
<1>5. ASSUME n \in DOMAIN t, m \in Under(t, Append(n, "mid")) PROVE Begins(s, u)
    <2>1. m \in Under(t, n) /\ Len(n) < Len(m) /\ m[Len(n) + 1] = "mid"
        BY <1>1, <1>5, UnderSide
    <2>2. Upto(m, Len(n)) = n /\ Follows(t, u, m)
        BY <2>1 DEF Under, Ends
    <2>3. QED
        BY <1>1, <1>5, <2>1, <2>2, EndsBegins
<1>6. QED
    BY <1>2, <1>3, <1>4, <1>5

LEMMA KeysWithPrefixCount ==
    ASSUME TrieHolds, NEW s \in TrieStrings
    PROVE  Len(Trie!KeysWithPrefix(trie, s)) = Cardinality({u \in Trie!Live : Trie!IsPrefix(s, u)})
<1>1. Rooted(trie) /\ Owned(trie, TrieStrings) /\ TrieStrings \in SUBSET Texts /\ s \in Texts
    BY StringsAre DEF TrieHolds
<1> DEFINE n == Trie!GetNode(trie, s)
           below == Under(trie, Append(n, "mid"))
           all == Trie!KeysWithPrefix(trie, s)
           here == IF trie[n].v # Trie!NoValue THEN {n} ELSE {}
           Y == {u \in Trie!Live : Trie!IsPrefix(s, u)}
           X == IF n \in DOMAIN trie THEN here \cup below ELSE {}
           start == IF trie[n].v # Trie!NoValue THEN <<s>> ELSE <<>>
           rest == Trie!Collect(trie, Append(n, "mid"), s)
<1>2. Ends(trie, s, n) /\ n \in Ways /\ "mid" \in Sides /\ Append(n, "mid") \in Ways
    BY <1>1, GetNodeIs, AppendIs DEF Ends, Sides
<1>3. all = IF n \in DOMAIN trie THEN start \o rest ELSE <<>>
    BY DEF Trie!KeysWithPrefix, Trie!IsNull
<1>4. s \in Seq(Nat) /\ Len(start) = (IF trie[n].v # Trie!NoValue THEN 1 ELSE 0) /\ start \in Seq(Seq(Nat))
    BY <1>1 DEF Texts
<1>5. rest \in Seq(Seq(Nat)) /\ Len(rest) = Cardinality(below)
    BY <1>1, <1>2, <1>4, CollectIs
<1>6. IsFiniteSet(below) /\ Cardinality(below) \in Nat /\ below \in SUBSET DOMAIN trie
    BY <1>1, UnderFinite
<1>7. Y = {w \in TrieStrings : \E m \in X : Ends(trie, w, m)}
    <2>1. Y \in SUBSET TrieStrings
        BY DEF Trie!Live
    <2>2. ASSUME NEW u \in TrieStrings, u \in Y PROVE \E m \in X : Ends(trie, u, m)
        <3>1. u \in Texts /\ Begins(s, u)
            BY <1>1, <2>2, IsPrefixIs
        <3>2. PICK m \in DOMAIN trie : trie[m].v # Trie!NoValue /\ Ends(trie, u, m)
            BY <2>2, LiveIs
        <3> HIDE DEF n
        <3>3. n \in DOMAIN trie /\ (m = n \/ m \in below)
            BY <1>1, <1>2, <3>1, <3>2, PrefixAbove
        <3>4. QED
            BY <3>2, <3>3
    <2>3. ASSUME NEW u \in TrieStrings, NEW m \in X, Ends(trie, u, m) PROVE u \in Y
        <3> HIDE DEF n
        <3>1. n \in DOMAIN trie /\ (m = n \/ m \in below) /\ m \in DOMAIN trie /\ trie[m].v # Trie!NoValue
            BY DEF Under
        <3>2. u \in Texts /\ u \in Trie!Live
            BY <1>1, <2>3, <3>1, LiveIs
        <3>3. Begins(s, u)
            BY <1>1, <1>2, <2>3, <3>1, <3>2, PrefixAbove
        <3>4. QED
            BY <1>1, <3>2, <3>3, IsPrefixIs
    <2>4. QED
        BY <2>1, <2>2, <2>3
<1>8. X \in SUBSET DOMAIN trie /\ \A m \in X : trie[m].v # Trie!NoValue
    BY <1>6 DEF Under
<1> HIDE DEF Y, X, all
<1>9. Cardinality(Y) = Cardinality(X)
    BY <1>1, <1>7, <1>8, TextsOf
<1>10. CASE n \notin DOMAIN trie
    <2>1. X = {} /\ all = <<>>
        BY <1>3, <1>10 DEF X
    <2>2. QED
        BY <1>9, <2>1, FS_EmptySet DEF all, Y
<1>11. CASE n \in DOMAIN trie
    <2>1. X = here \cup below /\ all = start \o rest
        BY <1>3, <1>11 DEF X
    <2>2. ~ (Len(n) < Len(n))
        BY <1>2 DEF Ways
    <2>3. n \notin below
        BY <1>1, <1>2, <1>11, <2>2, UnderSide
    <2> HIDE DEF n, below, start, rest
    <2>4. Cardinality(X) = (IF trie[n].v # Trie!NoValue THEN 1 ELSE 0) + Cardinality(below)
        <3>1. CASE trie[n].v # Trie!NoValue
            <4>1. X = below \cup {n}
                BY <2>1, <3>1
            <4>2. Cardinality(X) = Cardinality(below) + 1
                BY <1>6, <2>3, <4>1, FS_AddElement
            <4>3. QED
                BY <1>6, <3>1, <4>2
        <3>2. CASE ~ (trie[n].v # Trie!NoValue)
            BY <1>6, <2>1, <3>2
        <3>3. QED
            BY <3>1, <3>2
    <2>5. Len(all) = Len(start) + Len(rest)
        BY <1>4, <1>5, <2>1, LongerBy
    <2>6. Len(all) = Cardinality(X)
        BY <1>4, <1>5, <2>4, <2>5, Zenon
    <2>7. QED
        BY <1>9, <2>6 DEF all, Y
<1>12. QED
    BY <1>10, <1>11

-----------------------------------------------------------------------------
(* Trie: the longest prefix. *)

\* The way of longestPrefixOf for u, which a key does not end, comes to n.
Runs(t, u, n) ==
    \A i \in 0 .. Len(n) - 1 :
        LET m == Upto(n, i)
        IN m \in DOMAIN t /\ Pos(m) =< Len(u) /\ n[i + 1] = Trie!Side(t, m, u[Pos(m)])

LEMMA RunsAppend ==
    ASSUME NEW t, NEW u, NEW n \in Ways, Runs(t, u, n), n \in DOMAIN t, Pos(n) =< Len(u),
           NEW side \in Sides, side = Trie!Side(t, n, u[Pos(n)])
    PROVE  Runs(t, u, Append(n, side))
<1> DEFINE a == Append(n, side)
<1>1. Len(n) \in Nat /\ a \in Ways /\ Len(a) = Len(n) + 1 /\ a[Len(n) + 1] = side
    BY AppendIs DEF Ways
<1>2. \A i \in 0 .. Len(n) : Upto(a, i) = Upto(n, i)
    BY AppendUpto
<1>3. \A i \in 1 .. Len(n) : a[i] = n[i]
    BY AppendIs
<1>4. Upto(n, Len(n)) = n
    BY <1>1, UptoIs
<1> HIDE DEF a
<1>5. ASSUME NEW i \in 0 .. Len(a) - 1
      PROVE  /\ Upto(a, i) \in DOMAIN t /\ Pos(Upto(a, i)) =< Len(u)
             /\ a[i + 1] = Trie!Side(t, Upto(a, i), u[Pos(Upto(a, i))])
    <2>1. CASE i = Len(n)
        <3>1. Upto(a, i) = n /\ a[i + 1] = side
            BY <1>1, <1>2, <1>4, <2>1
        <3>2. QED
            BY <3>1
    <2>2. CASE i # Len(n)
        <3>1. i \in 0 .. Len(n) - 1 /\ i \in 0 .. Len(n) /\ i + 1 \in 1 .. Len(n)
            BY <1>1, <2>2
        <3>2. Upto(a, i) = Upto(n, i) /\ a[i + 1] = n[i + 1]
            BY <1>2, <1>3, <3>1
        <3>3. QED
            BY <3>1, <3>2 DEF Runs
    <2>3. QED
        BY <2>1, <2>2
<1>6. QED
    BY <1>5 DEF Runs, a

LEMMA RunsSpelt ==
    ASSUME NEW t, NEW u, NEW n \in Ways, Runs(t, u, n), NEW p \in 1 .. Mids(n)
    PROVE  u[p] = Spelt(t, n, p)
<1>1. ASSUME NEW i \in 0 .. Len(n) - 1, n[i + 1] = "mid"
      PROVE  u[Pos(Upto(n, i))] = t[Upto(n, i)].c
    BY <1>1, SideIs DEF Runs
<1>2. QED
    BY <1>1, SpeltIs

LEMMA RunsBound ==
    ASSUME NEW t, NEW u \in Texts, NEW n \in Ways, Runs(t, u, n)
    PROVE  Pos(n) \in 1 .. Len(u) + 1
<1>1. Len(n) \in Nat /\ Len(u) \in Nat /\ Len(u) # 0 /\ Mids(n) \in Nat
    BY MidsIs, EmptySeq DEF Ways, Texts
<1>2. CASE Len(n) = 0
    <2>1. n = <<>>
        BY <1>2, EmptySeq DEF Ways
    <2>2. QED
        BY <1>1, <2>1, MidsNone DEF Pos
<1>3. CASE Len(n) # 0
    <2> DEFINE i == Len(n) - 1
               m == Upto(n, i)
    <2>1. i \in 0 .. Len(n) - 1 /\ i \in 0 .. Len(n) /\ i + 1 = Len(n) /\ Upto(n, Len(n)) = n
        BY <1>1, <1>3, UptoIs
    <2>2. n[i + 1] \in Sides /\ m \in Ways /\ Upto(n, i + 1) = Append(m, n[i + 1])
        BY <2>1, UptoNext
    <2>3. Pos(m) =< Len(u)
        BY <2>1 DEF Runs
    <2> HIDE DEF m, i
    <2>4. n = Append(m, n[i + 1]) /\ Mids(m) \in Nat
        BY <2>1, <2>2, MidsIs
    <2>5. Mids(n) = Mids(m) + 1 \/ Mids(n) = Mids(m)
        BY <2>2, <2>4, MidsAppend
    <2>6. QED
        BY <1>1, <2>3, <2>4, <2>5 DEF Pos
<1>4. QED
    BY <1>2, <1>3

\* Where the search for a start of u goes, longestPrefixOf goes for u.
LEMMA FollowsRuns ==
    ASSUME NEW t, NEW u \in Texts, NEW w \in Texts, Begins(w, u), NEW n \in Ways, Follows(t, w, n)
    PROVE  Runs(t, u, n)
<1>1. ASSUME NEW i \in 0 .. Len(n) - 1
      PROVE  /\ Upto(n, i) \in DOMAIN t /\ Pos(Upto(n, i)) =< Len(u)
             /\ n[i + 1] = Trie!Side(t, Upto(n, i), u[Pos(Upto(n, i))])
    <2> DEFINE m == Upto(n, i)
    <2>1. i \in 0 .. Len(n) /\ Len(u) \in Nat /\ Len(w) \in Nat
        BY DEF Ways, Texts
    <2>2. m \in Ways /\ Follows(t, w, m) /\ Leads(t, w, m, n[i + 1])
        BY <2>1, UptoIs, FollowsUpto DEF Follows
    <2> HIDE DEF m
    <2>3. Pos(m) \in 1 .. Len(w)
        BY <2>2, PosBound
    <2>4. w[Pos(m)] = u[Pos(m)] /\ Len(w) =< Len(u)
        BY <2>3 DEF Begins
    <2>5. Pos(m) =< Len(u)
        BY <2>1, <2>3, <2>4
    <2>6. QED
        BY <2>2, <2>4, <2>5 DEF Leads, Stopped, m
<1>2. QED
    BY <1>1 DEF Runs

LEMMA RunsTogether ==
    ASSUME NEW t, NEW u, NEW m \in Ways, NEW n \in Ways, Runs(t, u, m), Runs(t, u, n),
           Len(m) =< Len(n)
    PROVE  Upto(n, Len(m)) = m
<1>1. Len(m) \in Nat /\ Len(n) \in Nat
    BY DEF Ways
<1> DEFINE P == {i \in 0 .. Len(m) : Upto(m, i) = Upto(n, i)}
<1>2. 0 \in P
    <2>1. \A j \in 1 .. 0 : m[j] = n[j]
        OBVIOUS
    <2>2. 0 \in 0 .. Len(m) /\ 0 =< Len(n)
        BY <1>1
    <2>3. Upto(m, 0) = Upto(n, 0)
        BY <2>1, <2>2, UptoSame
    <2>4. QED
        BY <2>2, <2>3
<1>3. ASSUME NEW i \in 0 .. Len(m) - 1, i \in P PROVE i + 1 \in P
    <2>1. i \in 0 .. Len(n) - 1 /\ i + 1 \in 0 .. Len(m)
        BY <1>1
    <2>2. m[i + 1] = n[i + 1]
        BY <1>3, <2>1 DEF Runs
    <2>3. Upto(m, i + 1) = Append(Upto(m, i), m[i + 1]) /\ Upto(n, i + 1) = Append(Upto(n, i), n[i + 1])
        BY <2>1, UptoNext
    <2>4. QED
        BY <1>3, <2>1, <2>2, <2>3
<1> HIDE DEF P
<1>4. \A i \in 0 .. Len(m) : i \in P
    BY <1>1, <1>2, <1>3, Induction, Zenon
<1>5. Len(m) \in P
    BY <1>1, <1>4
<1>6. Upto(m, Len(m)) = m
    BY <1>1, UptoIs
<1>7. QED
    BY <1>5, <1>6 DEF P

\* A start of u that ends at the position of n is searched on the same way.
LEMMA RunsFollows ==
    ASSUME NEW t, NEW u \in Texts, NEW w \in Texts, Begins(w, u), NEW n \in Ways, Runs(t, u, n),
           Len(w) = Pos(n)
    PROVE  Follows(t, w, n)
<1>1. ASSUME NEW i \in 0 .. Len(n) - 1 PROVE Leads(t, w, Upto(n, i), n[i + 1])
    <2> DEFINE m == Upto(n, i)
    <2>1. i \in 0 .. Len(n) /\ i + 1 \in 0 .. Len(n) /\ Mids(n) \in Nat
        BY MidsIs DEF Ways
    <2>2. /\ m \in Ways /\ Mids(m) \in Nat /\ Pos(m) =< Len(w)
          /\ n[i + 1] \in Sides /\ Upto(n, i + 1) = Append(m, n[i + 1])
          /\ Pos(Upto(n, i + 1)) =< Len(w)
        BY <2>1, UptoIs, UptoNext, MidsUpto DEF Pos
    <2>3. m \in DOMAIN t /\ n[i + 1] = Trie!Side(t, m, u[Pos(m)])
        BY DEF Runs
    <2> HIDE DEF m
    <2>4. Pos(m) \in 1 .. Len(w) /\ Len(w) \in Nat
        BY <2>2 DEF Pos, Texts
    <2>5. w[Pos(m)] = u[Pos(m)]
        BY <2>4 DEF Begins
    <2>6. w[Pos(m)] = t[m].c => Pos(m) # Len(w)
        <3>1. SUFFICES ASSUME w[Pos(m)] = t[m].c, Pos(m) = Len(w) PROVE FALSE
            OBVIOUS
        <3>2. n[i + 1] = "mid"
            BY <2>3, <2>5, <3>1, SideIs
        <3>3. Pos(Upto(n, i + 1)) = Pos(m) + 1
            BY <2>2, <3>2, MidsAppend DEF Pos
        <3>4. QED
            BY <2>2, <2>4, <3>1, <3>3
    <2>7. w # <<>>
        BY DEF Texts
    <2>8. QED
        BY <2>3, <2>5, <2>6, <2>7 DEF Leads, Stopped, Trie!Found, m
<1>2. QED
    BY <1>1 DEF Follows

\* The longest of the starts of a text.
LEMMA LongestIs ==
    ASSUME NEW u, NEW A \in SUBSET Texts, \A w \in A : Begins(w, u),
           NEW x \in A, \A w \in A : Len(w) =< Len(x)
    PROVE  Trie!Longest(A) = x
<1> DEFINE y == CHOOSE s \in A : \A w \in A : Len(w) =< Len(s)
<1>1. y \in A /\ \A w \in A : Len(w) =< Len(y)
    OBVIOUS
<1> HIDE DEF y
<1>2. Len(y) \in Nat /\ Len(x) \in Nat
    BY <1>1 DEF Texts
<1>3. Len(x) = Len(y)
    BY <1>1, <1>2
<1>4. x = y
    BY <1>1, <1>3, BeginsOnce
<1>5. A # {}
    OBVIOUS
<1>6. QED
    BY <1>4, <1>5 DEF Trie!Longest, y

\* The stored texts that u begins with, shorter than p.
PrefixesBefore(u, p) == {w \in Trie!PrefixesOf(u) : Len(w) < p}

LEMMA PrefixesOfIs ==
    ASSUME NEW u \in TrieStrings
    PROVE  Trie!PrefixesOf(u) = {w \in Trie!Live : Begins(w, u)} /\ Trie!Live \in SUBSET Texts
<1>1. Trie!Live \in SUBSET TrieStrings
    BY DEF Trie!Live
<1>2. u \in Texts /\ \A w \in Trie!Live : w \in Texts
    BY <1>1, StringsAre
<1>3. \A w \in Trie!Live : Trie!IsPrefix(w, u) <=> Begins(w, u)
    BY <1>2, IsPrefixIs
<1>4. QED
    BY <1>2, <1>3 DEF Trie!PrefixesOf

\* After i turns longestPrefixOf is i deep, or has ended, and has the longest of
\* the prefixes that are shorter than where it is.
Searching(p, u, i) ==
    \E n \in Ways :
        /\ p[1] = n /\ p[2] = Pos(n) /\ Runs(trie, u, n)
        /\ Len(n) = i \/ n \notin DOMAIN trie \/ Pos(n) > Len(u)
        /\ p[3] \in Seq(Nat) /\ p[3] = Trie!Longest(PrefixesBefore(u, Pos(n)))

\* Where a key ends, longestPrefixOf finds it.
LEMMA LongerFound ==
    ASSUME TrieHolds, NEW u \in TrieStrings, NEW n \in DOMAIN trie, Runs(trie, u, n),
           Pos(n) =< Len(u), u[Pos(n)] = trie[n].c, trie[n].v # Trie!NoValue
    PROVE  Trie!Longest(PrefixesBefore(u, Pos(n) + 1)) = SubSeq(u, 1, Pos(n))
<1>1. Rooted(trie) /\ Owned(trie, TrieStrings) /\ u \in Texts /\ n \in Ways
    BY StringsAre DEF TrieHolds, Rooted
<1>2. PICK w \in TrieStrings : Ends(trie, w, n)
    BY <1>1 DEF Owned
<1>3. w \in Texts /\ w \in Trie!Live
    BY <1>2, StringsAre, LiveIs
<1>4. /\ Mids(n) \in Nat /\ Len(w) = Pos(n) /\ w[Pos(n)] = trie[n].c
      /\ \A p \in 1 .. Mids(n) : w[p] = Spelt(trie, n, p)
    BY <1>2, <1>3, EndsSpelt
<1>5. \A p \in 1 .. Mids(n) : u[p] = Spelt(trie, n, p)
    BY <1>1, RunsSpelt
<1>6. \A p \in 1 .. Len(w) : p = Pos(n) \/ p \in 1 .. Mids(n)
    BY <1>4 DEF Pos
<1>7. Begins(w, u)
    BY <1>4, <1>5, <1>6 DEF Begins
<1> DEFINE A == PrefixesBefore(u, Pos(n) + 1)
           x == SubSeq(u, 1, Pos(n))
<1>8. u \in Seq(Nat) /\ Pos(n) \in 1 .. Len(u) /\ Pos(n) \in Nat
    BY <1>1, <1>4 DEF Texts, Pos
<1>9. x \in Seq(Nat) /\ Len(x) = Pos(n) /\ \A p \in 1 .. Pos(n) : x[p] = u[p]
    BY <1>8
<1> HIDE DEF x
<1>10. x = w
    <2>1. w \in Seq(Nat) /\ Len(x) = Len(w) /\ \A p \in 1 .. Len(x) : x[p] = w[p]
        BY <1>3, <1>4, <1>7, <1>9 DEF Texts, Begins
    <2>2. QED
        BY <1>9, <2>1, SeqEqual
<1>11. A \in SUBSET Texts /\ \A y \in A : Begins(y, u) /\ Len(y) < Pos(n) + 1 /\ Len(y) \in Nat
    BY PrefixesOfIs DEF PrefixesBefore, Texts
<1>12. w \in A
    <2>1. Len(w) < Pos(n) + 1
        BY <1>4, <1>8
    <2>2. QED
        BY <1>3, <1>7, <2>1, PrefixesOfIs DEF PrefixesBefore
<1> HIDE DEF A
<1>13. \A y \in A : Len(y) =< Len(w)
    BY <1>4, <1>8, <1>11
<1>14. Trie!Longest(A) = w
    BY <1>11, <1>12, <1>13, LongestIs
<1>15. QED
    BY <1>10, <1>14 DEF A, x

\* Where none ends, there is none.
LEMMA NoLonger ==
    ASSUME TrieHolds, NEW u \in TrieStrings, NEW n \in DOMAIN trie, Runs(trie, u, n),
           Pos(n) =< Len(u), u[Pos(n)] = trie[n].c, trie[n].v = Trie!NoValue
    PROVE  PrefixesBefore(u, Pos(n) + 1) = PrefixesBefore(u, Pos(n))
<1>1. Rooted(trie) /\ u \in Texts /\ n \in Ways /\ Mids(n) \in Nat
    BY StringsAre, MidsIs DEF TrieHolds, Rooted
<1>2. ASSUME NEW w \in Trie!Live, Begins(w, u), Len(w) = Pos(n) PROVE FALSE
    <2>1. w \in TrieStrings /\ w \in Texts
        BY PrefixesOfIs DEF Trie!Live
    <2>2. Follows(trie, w, n)
        BY <1>1, <1>2, <2>1, RunsFollows
    <2>3. w[Pos(n)] = trie[n].c
        BY <1>1, <1>2 DEF Begins, Pos
    <2>4. Ends(trie, w, n)
        BY <1>1, <1>2, <2>2, <2>3 DEF Ends, Stopped, Trie!Found
    <2>5. PICK m \in DOMAIN trie : trie[m].v # Trie!NoValue /\ Ends(trie, w, m)
        BY <2>1, <1>2, LiveIs
    <2>6. m = n
        BY <2>4, <2>5, EndsOnce
    <2>7. QED
        BY <2>5, <2>6
<1>3. \A w \in Trie!Live : Len(w) \in Nat
    BY PrefixesOfIs DEF Texts
<1>4. ASSUME NEW w \in Trie!Live, Begins(w, u)
      PROVE  Len(w) < Pos(n) + 1 <=> Len(w) < Pos(n)
    BY <1>1, <1>2, <1>3, <1>4 DEF Pos
<1>5. QED
    BY <1>4, PrefixesOfIs DEF PrefixesBefore

LEMMA SearchTurnIs ==
    ASSUME TrieHolds, NEW u \in TrieStrings, NEW i \in Nat, NEW p, Searching(p, u, i)
    PROVE  Searching(Trie!SearchTurn(trie, u, p), u, i + 1)
<1>1. PICK n \in Ways :
        /\ p[1] = n /\ p[2] = Pos(n) /\ Runs(trie, u, n)
        /\ Len(n) = i \/ n \notin DOMAIN trie \/ Pos(n) > Len(u)
        /\ p[3] \in Seq(Nat) /\ p[3] = Trie!Longest(PrefixesBefore(u, Pos(n)))
    BY DEF Searching
<1>2. CASE n \notin DOMAIN trie \/ Pos(n) > Len(u)
    <2>1. Trie!SearchTurn(trie, u, p) = p
        BY <1>1, <1>2 DEF Trie!SearchTurn, Trie!IsNull
    <2>2. QED
        BY <1>1, <1>2, <2>1 DEF Searching
<1>3. CASE ~ (n \notin DOMAIN trie \/ Pos(n) > Len(u))
    <2> DEFINE side == Trie!Side(trie, n, u[Pos(n)])
               m == Append(n, side)
               longer == u[Pos(n)] = trie[n].c /\ trie[n].v # Trie!NoValue
               q == Trie!SearchTurn(trie, u, p)
    <2>1. side \in Sides /\ (side = "mid" <=> u[Pos(n)] = trie[n].c)
        BY SideIs
    <2>2. /\ q[1] = m
          /\ q[2] = IF u[Pos(n)] = trie[n].c THEN Pos(n) + 1 ELSE Pos(n)
          /\ q[3] = IF longer THEN SubSeq(u, 1, Pos(n)) ELSE p[3]
        BY <1>1, <1>3 DEF Trie!SearchTurn, Trie!IsNull, Trie!Child, Trie!NextPos
    <2> HIDE DEF q
    <2>3. u \in Texts /\ Len(u) \in Nat /\ Mids(n) \in Nat
        BY StringsAre, MidsIs DEF Texts
    <2>4. n \in DOMAIN trie /\ Pos(n) =< Len(u) /\ Len(n) = i /\ Pos(n) \in Nat /\ Pos(n) # 0
        BY <1>1, <1>3, <2>3 DEF Pos
    <2>5. Runs(trie, u, m)
        BY <1>1, <2>1, <2>4, RunsAppend
    <2> HIDE DEF side
    <2>6. m \in Ways /\ Len(m) = i + 1
        BY <2>1, <2>4, AppendIs
    <2>7. Pos(m) = IF u[Pos(n)] = trie[n].c THEN Pos(n) + 1 ELSE Pos(n)
        BY <2>1, <2>3, MidsAppend DEF Pos
    <2> HIDE DEF m
    <2>8. q[3] \in Seq(Nat)
        <3>1. u \in Seq(Nat) /\ Pos(n) \in 1 .. Len(u)
            BY <2>3, <2>4 DEF Texts
        <3>2. SubSeq(u, 1, Pos(n)) \in Seq(Nat)
            BY <3>1
        <3>3. QED
            BY <1>1, <2>2, <3>2
    <2>9. q[3] = Trie!Longest(PrefixesBefore(u, Pos(m)))
        <3>1. CASE longer
            <4>1. Trie!Longest(PrefixesBefore(u, Pos(n) + 1)) = SubSeq(u, 1, Pos(n))
                BY <1>1, <2>4, <3>1, LongerFound
            <4>2. QED
                BY <2>2, <2>7, <3>1, <4>1
        <3>2. CASE u[Pos(n)] = trie[n].c /\ trie[n].v = Trie!NoValue
            <4>1. PrefixesBefore(u, Pos(n) + 1) = PrefixesBefore(u, Pos(n))
                BY <1>1, <2>4, <3>2, NoLonger
            <4>2. QED
                BY <1>1, <2>2, <2>7, <3>2, <4>1
        <3>3. CASE u[Pos(n)] # trie[n].c
            BY <1>1, <2>2, <2>7, <3>3
        <3>4. QED
            BY <3>1, <3>2, <3>3
    <2>10. QED
        BY <2>2, <2>5, <2>6, <2>7, <2>8, <2>9 DEF Searching, q
<1>4. QED
    BY <1>2, <1>3

\* f is what SearchNode has after each turn.
Searches(f, t, u, n) ==
    f = [i \in 0 .. n |-> IF i = 0 THEN <<Trie!Root, 1, <<>>>> ELSE Trie!SearchTurn(t, u, f[i - 1])]

LEMMA SearchesExist ==
    ASSUME NEW t, NEW u, NEW n \in Nat
    PROVE  \E f : Searches(f, t, u, n)
<1> DEFINE P == {k \in 0 .. n : \E f : Searches(f, t, u, k)}
<1>1. 0 \in P
    <2>1. Searches([i \in 0 .. 0 |-> <<Trie!Root, 1, <<>>>>], t, u, 0)
        BY DEF Searches
    <2>2. QED
        BY <2>1
<1>2. ASSUME NEW k \in 0 .. n - 1, k \in P PROVE k + 1 \in P
    <2>1. PICK f : Searches(f, t, u, k)
        BY <1>2
    <2>2. f = [i \in 0 .. k |-> IF i = 0 THEN <<Trie!Root, 1, <<>>>> ELSE Trie!SearchTurn(t, u, f[i - 1])]
        BY <2>1, Zenon DEF Searches
    <2> DEFINE longer == [i \in 0 .. k + 1 |-> IF i = 0 THEN <<Trie!Root, 1, <<>>>> ELSE Trie!SearchTurn(t, u, f[i - 1])]
    <2>3. ASSUME NEW i \in 0 .. k PROVE longer[i] = f[i]
        <3>1. i \in 0 .. k + 1
            BY <1>2
        <3>2. QED
            BY <2>2, <3>1, Zenon
    <2>4. ASSUME NEW i \in 0 .. k + 1, i # 0 PROVE longer[i - 1] = f[i - 1]
        <3>1. i - 1 \in 0 .. k
            BY <1>2, <2>4
        <3>2. QED
            BY <2>3, <3>1
    <2>5. longer = [i \in 0 .. k + 1 |-> IF i = 0 THEN <<Trie!Root, 1, <<>>>> ELSE Trie!SearchTurn(t, u, longer[i - 1])]
        BY <2>4
    <2> HIDE DEF longer
    <2>6. Searches(longer, t, u, k + 1)
        BY <2>5, Zenon DEF Searches
    <2>7. k + 1 \in 0 .. n
        BY <1>2
    <2>8. QED
        BY <2>6, <2>7
<1> HIDE DEF P
<1>3. \A k \in 0 .. n : k \in P
    BY <1>1, <1>2, Induction, Zenon
<1>4. n \in P
    BY <1>3
<1>5. QED
    BY <1>4, Zenon DEF P

SearchesOn(f, t, u, n) ==
    /\ f[0][1] = Trie!Root /\ f[0][2] = 1 /\ f[0][3] = <<>>
    /\ \A i \in 0 .. n - 1 : f[i + 1] = Trie!SearchTurn(t, u, f[i])

LEMMA SearchesTurns ==
    ASSUME NEW t, NEW u, NEW n \in Nat, NEW f, Searches(f, t, u, n)
    PROVE  SearchesOn(f, t, u, n)
<1>1. f = [i \in 0 .. n |-> IF i = 0 THEN <<Trie!Root, 1, <<>>>> ELSE Trie!SearchTurn(t, u, f[i - 1])]
    BY Zenon DEF Searches
<1>2. f[0] = <<Trie!Root, 1, <<>>>>
    BY <1>1
<1>3. ASSUME NEW i \in 0 .. n - 1 PROVE f[i + 1] = Trie!SearchTurn(t, u, f[i])
    <2>1. i + 1 \in 0 .. n /\ i + 1 # 0 /\ (i + 1) - 1 = i
        OBVIOUS
    <2>2. QED
        BY <1>1, <2>1
<1>4. QED
    BY <1>2, <1>3 DEF SearchesOn

LEMMA SearchNodeTurns ==
    ASSUME NEW t, IsFiniteSet(DOMAIN t), NEW u, NEW N, N = Cardinality(DOMAIN t)
    PROVE  \E f : SearchesOn(f, t, u, N) /\ Trie!SearchNode(t, u) = f[N]
<1>1. N \in Nat
    BY FS_CardinalityType
<1>2. Trie!Cardinality(DOMAIN t) = N
    BY TrieCardinalityIs
<1>3. \E f : Searches(f, t, u, N)
    BY <1>1, SearchesExist
<1>4. PICK f : Searches(f, t, u, N) /\ Trie!SearchNode(t, u) = f[N]
    <2>1. Trie!SearchNode(t, u) = (CHOOSE f : Searches(f, t, u, N))[N]
        BY <1>2 DEF Trie!SearchNode, Searches
    <2>2. Searches(CHOOSE f : Searches(f, t, u, N), t, u, N)
        BY <1>3, Zenon
    <2>3. QED
        BY <2>1, <2>2
<1>5. SearchesOn(f, t, u, N)
    BY <1>1, <1>4, SearchesTurns
<1>6. QED
    BY <1>4, <1>5

LEMMA SearchNodeIs ==
    ASSUME TrieHolds, NEW u \in TrieStrings, NEW p, p = Trie!SearchNode(trie, u)
    PROVE  \E n \in Ways :
               /\ p[1] = n /\ p[2] = Pos(n) /\ Runs(trie, u, n)
               /\ n \notin DOMAIN trie \/ Pos(n) > Len(u)
               /\ p[3] \in Seq(Nat) /\ p[3] = Trie!Longest(PrefixesBefore(u, Pos(n)))
<1> DEFINE N == Cardinality(DOMAIN trie)
<1>1. N \in Nat /\ IsFiniteSet(DOMAIN trie) /\ Rooted(trie)
    BY FS_CardinalityType DEF Rooted, TrieHolds
<1> HIDE DEF N
<1>4. PICK f : SearchesOn(f, trie, u, N) /\ p = f[N]
    BY <1>1, SearchNodeTurns DEF N
<1>5. /\ f[0][1] = Trie!Root /\ f[0][2] = 1 /\ f[0][3] = <<>>
      /\ \A i \in 0 .. N - 1 : f[i + 1] = Trie!SearchTurn(trie, u, f[i])
    BY <1>4 DEF SearchesOn
<1> DEFINE P == {i \in 0 .. N : Searching(f[i], u, i)}
<1>6. 0 \in P
    <2>1. Pos(<<>>) = 1 /\ f[0][1] = <<>> /\ f[0][2] = 1 /\ f[0][3] = <<>>
        BY <1>5, MidsNone DEF Pos, Trie!Root
    <2>2. ASSUME NEW w \in PrefixesBefore(u, 1) PROVE FALSE
        <3>1. w \in Texts /\ Len(w) < 1
            BY PrefixesOfIs DEF PrefixesBefore
        <3>2. QED
            BY <3>1, EmptySeq DEF Texts
    <2>3. Trie!Longest(PrefixesBefore(u, 1)) = <<>>
        BY <2>2 DEF Trie!Longest
    <2>4. Runs(trie, u, <<>>) /\ <<>> \in Seq(Nat)
        BY MidsNone DEF Runs
    <2>5. Searching(f[0], u, 0)
        BY <2>1, <2>3, <2>4, MidsNone DEF Searching
    <2>6. QED
        BY <1>1, <2>5
<1>7. ASSUME NEW i \in 0 .. N - 1, i \in P PROVE i + 1 \in P
    <2>1. i \in Nat /\ i + 1 \in 0 .. N
        BY <1>1
    <2>2. Searching(Trie!SearchTurn(trie, u, f[i]), u, i + 1)
        BY <1>7, <2>1, SearchTurnIs
    <2>3. QED
        BY <1>5, <2>1, <2>2
<1> HIDE DEF P
<1>8. \A i \in 0 .. N : i \in P
    BY <1>1, <1>6, <1>7, Induction, Zenon
<1>9. Searching(f[N], u, N)
    BY <1>1, <1>8 DEF P
<1>10. PICK n \in Ways :
        /\ f[N][1] = n /\ f[N][2] = Pos(n) /\ Runs(trie, u, n)
        /\ Len(n) = N \/ n \notin DOMAIN trie \/ Pos(n) > Len(u)
        /\ f[N][3] \in Seq(Nat) /\ f[N][3] = Trie!Longest(PrefixesBefore(u, Pos(n)))
    BY <1>9 DEF Searching
<1>11. ~ (Len(n) = N /\ n \in DOMAIN trie)
    BY <1>1, Depth DEF N
<1>12. QED
    BY <1>4, <1>10, <1>11

\* longestPrefixOf finds the longest, or throws where a key goes on.
LEMMA LongestPrefixOfIs ==
    ASSUME TrieHolds, NEW u \in TrieStrings
    PROVE  /\ Trie!LongestPrefixOf(trie, u) # Trie!Thrown =>
                Trie!LongestPrefixOf(trie, u) = Trie!Longest(Trie!PrefixesOf(u))
           /\ Trie!LongestPrefixOf(trie, u) = Trie!Thrown =>
                \E w \in TrieStrings : Trie!IsStrictPrefix(u, w) /\ ~ Trie!IsNull(trie, Trie!GetNode(trie, w))
<1> DEFINE p == Trie!SearchNode(trie, u)
           r == Trie!LongestPrefixOf(trie, u)
<1>1. r = IF p[1] \in DOMAIN trie /\ p[2] > Len(u) THEN Trie!Thrown ELSE p[3]
    BY DEF Trie!LongestPrefixOf, Trie!IsNull
<1> HIDE DEF r
<1>2. PICK n \in Ways :
        /\ p[1] = n /\ p[2] = Pos(n) /\ Runs(trie, u, n)
        /\ n \notin DOMAIN trie \/ Pos(n) > Len(u)
        /\ p[3] \in Seq(Nat) /\ p[3] = Trie!Longest(PrefixesBefore(u, Pos(n)))
    BY SearchNodeIs
<1> HIDE DEF p
<1>3. Rooted(trie) /\ u \in Texts /\ Len(u) \in Nat /\ Mids(n) \in Nat
    BY StringsAre, MidsIs DEF TrieHolds, Texts
<1>4. p[3] # Trie!Thrown
    <2>1. SUFFICES ASSUME p[3] = Trie!Thrown PROVE FALSE
        OBVIOUS
    <2>2. Trie!Thrown[1] \in Nat
        BY <1>2, <2>1 DEF Trie!Thrown
    <2>3. Trie!Thrown[1] = -1
        BY DEF Trie!Thrown
    <2>4. QED
        BY <2>2, <2>3
<1>5. CASE n \in DOMAIN trie
    <2>1. Pos(n) > Len(u) /\ r = Trie!Thrown
        BY <1>1, <1>2, <1>5
    <2>2. Mids(n) = Len(u)
        BY <1>2, <1>3, <2>1, RunsBound DEF Pos
    <2>3. PICK w \in TrieStrings, m \in DOMAIN trie :
            Ends(trie, w, m) /\ Len(n) =< Len(m) /\ Upto(m, Len(n)) = n
        BY <1>5 DEF TrieHolds, Reached
    <2>4. w \in Texts /\ Len(w) \in Nat /\ m \in Ways /\ Follows(trie, w, m)
        BY <2>3, StringsAre DEF Ends, Texts
    <2>5. Len(n) \in 0 .. Len(m)
        BY <2>3, <2>4 DEF Ways
    <2>6. Follows(trie, w, n)
        BY <2>3, <2>4, <2>5, FollowsUpto
    <2>7. \A j \in 1 .. Mids(n) : w[j] = Spelt(trie, n, j) /\ u[j] = Spelt(trie, n, j)
        BY <1>2, <2>6, FollowsSpelt, RunsSpelt
    <2>8. Pos(n) \in 1 .. Len(w)
        BY <2>4, <2>6, PosBound
    <2>9. Begins(u, w) /\ Len(u) # Len(w)
        BY <1>3, <2>1, <2>2, <2>4, <2>7, <2>8 DEF Begins
    <2>10. Trie!IsStrictPrefix(u, w)
        <3>1. u # w
            BY <2>9
        <3>2. Trie!IsPrefix(u, w)
            BY <1>3, <2>4, <2>9, IsPrefixIs
        <3>3. QED
            BY <3>1, <3>2 DEF Trie!IsStrictPrefix
    <2>11. Trie!GetNode(trie, w) = m
        BY <1>3, <2>3, GetNodeIs, EndsOnce
    <2>12. ~ Trie!IsNull(trie, Trie!GetNode(trie, w))
        BY <2>3, <2>11 DEF Trie!IsNull
    <2>13. QED
        BY <2>1, <2>10, <2>12 DEF r
<1>6. CASE n \notin DOMAIN trie
    <2>1. r = p[3]
        BY <1>1, <1>2, <1>6
    <2>2. ASSUME NEW w \in Trie!Live, Begins(w, u) PROVE Len(w) < Pos(n)
        <3>1. w \in TrieStrings /\ w \in Texts /\ Len(w) \in Nat
            BY PrefixesOfIs DEF Trie!Live, Texts
        <3>2. PICK m \in DOMAIN trie : trie[m].v # Trie!NoValue /\ Ends(trie, w, m)
            BY <2>2, <3>1, LiveIs
        <3>3. /\ m \in Ways /\ Follows(trie, w, m) /\ Mids(m) \in Nat
              /\ Len(w) = Pos(m) /\ w[Pos(m)] = trie[m].c
            BY <3>1, <3>2, EndsSpelt
        <3>4. Runs(trie, u, m)
            BY <1>3, <2>2, <3>1, <3>3, FollowsRuns
        <3>5. Len(m) \in Nat /\ Len(n) \in Nat
            BY <3>3 DEF Ways
        <3>6. ~ (Len(n) =< Len(m))
            <4>1. SUFFICES ASSUME Len(n) =< Len(m) PROVE FALSE
                OBVIOUS
            <4>2. Upto(m, Len(n)) = n /\ Len(n) \in 0 .. Len(m)
                BY <1>2, <3>3, <3>4, <3>5, <4>1, RunsTogether
            <4>3. QED
                BY <1>3, <1>6, <3>2, <4>2, RootedUpto
        <3>7. Len(m) =< Len(n) /\ Len(m) \in 0 .. Len(n) - 1 /\ Len(m) + 1 \in 0 .. Len(n)
            BY <3>5, <3>6
        <3>8. Upto(n, Len(m)) = m
            BY <1>2, <3>3, <3>4, <3>7, RunsTogether
        <3>9. n[Len(m) + 1] = Trie!Side(trie, m, u[Pos(m)])
            BY <1>2, <3>7, <3>8 DEF Runs
        <3>10. u[Pos(m)] = trie[m].c
            BY <2>2, <3>1, <3>3 DEF Begins, Pos
        <3>11. n[Len(m) + 1] = "mid" /\ Upto(n, Len(m) + 1) = Append(m, "mid")
            BY <3>7, <3>8, <3>9, <3>10, SideIs, UptoNext
        <3>12. Mids(Append(m, "mid")) = Mids(m) + 1
            BY <3>3, MidsAppend DEF Sides
        <3>13. Mids(m) + 1 =< Mids(n)
            BY <3>7, <3>11, <3>12, MidsUpto
        <3>14. QED
            BY <1>3, <3>3, <3>13 DEF Pos
    <2>3. PrefixesBefore(u, Pos(n)) = Trie!PrefixesOf(u)
        BY <2>2, PrefixesOfIs DEF PrefixesBefore
    <2>4. QED
        BY <1>2, <1>4, <2>1, <2>3 DEF r
<1>7. QED
    BY <1>5, <1>6

\* What a trie lists is what it holds.
LEMMA KeysAre ==
    ASSUME TrieHolds
    PROVE  Trie!KeysAgree
<1>1. Len(Trie!Keys(trie)) = Trie!Cardinality(Trie!Live)
    BY KeysCount, TrieCardinalityIs
<1>2. \A s \in TrieStrings :
        Len(Trie!KeysWithPrefix(trie, s)) = Trie!Cardinality({u \in Trie!Live : Trie!IsPrefix(s, u)})
    BY KeysWithPrefixCount, TrieCardinalityIs
<1>3. QED
    BY <1>1, <1>2, LongestPrefixOfIs DEF Trie!KeysAgree

-----------------------------------------------------------------------------
(* Trie: every operation keeps it. *)

\* Callers do not remove the empty string.
CarefulTrie == "empty" \in TrieAvoids

TrieKept == which = "trie" => TrieHolds

LEMMA TrieStarts ==
    ASSUME Trie!TrieInit
    PROVE  TrieHolds
<1>1. trie = Trie!Nil /\ stored = [s \in TrieStrings |-> Trie!NoValue]
    BY DEF Trie!TrieInit
<1>2. Trie!NoValue \in Nat
    BY DEF Trie!NoValue
<1>3. DOMAIN trie = {}
    BY <1>1 DEF Trie!Nil
<1>4. Owned(trie, TrieStrings) /\ Reached(trie, TrieStrings)
    BY <1>3 DEF Owned, Reached
<1>5. QED
    BY <1>1, <1>2, <1>4, NilIs, StringsAre DEF TrieHolds

\* What is written for one of the texts leaves each value theirs.
LEMMA WroteOwned ==
    ASSUME NEW t, NEW S, Owned(t, S), Reached(t, S),
           NEW u \in S, NEW val, NEW s, NEW n, Wrote(s, n, t, u, val)
    PROVE  Owned(s, S) /\ Reached(s, S)
<1>1. /\ Grown(t, s) /\ Kept(t, s, {n}) /\ n \in DOMAIN s /\ Ends(s, u, n)
      /\ \A m \in DOMAIN s \ DOMAIN t : Len(m) =< Len(n) /\ Upto(n, Len(m)) = m
    BY DEF Wrote
<1>2. ASSUME NEW m \in DOMAIN s, s[m].v # Trie!NoValue PROVE \E w \in S : Ends(s, w, m)
    <2>1. CASE m = n
        BY <1>1, <2>1
    <2>2. CASE m # n
        <3>1. m \in DOMAIN t /\ t[m].v # Trie!NoValue
            BY <1>1, <1>2, <2>2 DEF Kept
        <3>2. PICK w \in S : Ends(t, w, m)
            BY <3>1 DEF Owned
        <3>3. QED
            BY <1>1, <3>1, <3>2, GrownEnds
    <2>3. QED
        BY <2>1, <2>2
<1>3. ASSUME NEW m \in DOMAIN s
      PROVE  \E w \in S, k \in DOMAIN s : Ends(s, w, k) /\ Len(m) =< Len(k) /\ Upto(k, Len(m)) = m
    <2>1. CASE m \notin DOMAIN t
        BY <1>1, <2>1
    <2>2. CASE m \in DOMAIN t
        <3>1. PICK w \in S, k \in DOMAIN t : Ends(t, w, k) /\ Len(m) =< Len(k) /\ Upto(k, Len(m)) = m
            BY <2>2 DEF Reached
        <3>2. Ends(s, w, k) /\ k \in DOMAIN s
            BY <1>1, <3>1, GrownEnds DEF Grown
        <3>3. QED
            BY <3>1, <3>2
    <2>3. QED
        BY <2>1, <2>2
<1>4. QED
    BY <1>2, <1>3 DEF Owned, Reached

LEMMA TriePutStep ==
    ASSUME TrieHolds, NEW s \in TrieStrings, NEW val \in TrieValues, Trie!TriePut(s, val)
    PROVE  TrieHolds'
<1>1. trie' = Trie!PutNode(trie, s, val) /\ stored' = [stored EXCEPT ![s] = val]
    BY DEF Trie!TriePut
<1>2. val \in Nat /\ s \in Texts /\ Rooted(trie) /\ stored \in [TrieStrings -> Nat]
    BY TrieAssumption, StringsAre DEF TrieHolds
<1>3. PICK n : Wrote(Trie!PutNode(trie, s, val), n, trie, s, val)
    BY <1>2, PutNodeIs
<1>4. Wrote(trie', n, trie, s, val)
    BY <1>1, <1>3
<1>5. Rooted(trie')
    BY <1>4 DEF Wrote
<1>6. \A w \in TrieStrings : Trie!Get(trie', w) = IF w = s THEN val ELSE Trie!Get(trie, w)
    BY <1>2, <1>4, WroteGets, StringsAre
<1>7. stored' \in [TrieStrings -> Nat] /\ \A w \in TrieStrings : stored'[w] = IF w = s THEN val ELSE stored[w]
    BY <1>1, <1>2
<1>8. Owned(trie', TrieStrings) /\ Reached(trie', TrieStrings)
    BY <1>4, WroteOwned DEF TrieHolds
<1>9. \A w \in TrieStrings : Trie!Get(trie', w) = stored'[w]
    BY <1>6, <1>7 DEF TrieHolds
<1>10. QED
    BY <1>5, <1>7, <1>8, <1>9 DEF TrieHolds

LEMMA TrieRemoveStep ==
    ASSUME CarefulTrie, TrieHolds, NEW s \in TrieStrings \cup {<<>>}, Trie!TrieRemove(s)
    PROVE  TrieHolds'
<1>1. /\ s # <<>> /\ trie' = Trie!RemoveKey(trie, s)
      /\ stored' = [w \in TrieStrings |-> IF w = s THEN Trie!NoValue ELSE stored[w]]
    BY DEF Trie!TrieRemove, CarefulTrie
<1>2. /\ s \in TrieStrings /\ s \in Texts /\ Trie!NoValue \in Nat
      /\ Rooted(trie) /\ stored \in [TrieStrings -> Nat]
      /\ \A w \in TrieStrings : Trie!Get(trie, w) = stored[w]
      /\ Owned(trie, TrieStrings) /\ Reached(trie, TrieStrings)
    BY <1>1, StringsAre DEF Trie!NoValue, TrieHolds
<1>3. CASE trie' = trie /\ Trie!Get(trie, s) = Trie!NoValue
    BY <1>1, <1>2, <1>3 DEF TrieHolds
<1>4. ASSUME NEW n, Wrote(trie', n, trie, s, Trie!NoValue) PROVE TrieHolds'
    <2>1. Rooted(trie')
        BY <1>4 DEF Wrote
    <2>2. \A w \in TrieStrings : Trie!Get(trie', w) = IF w = s THEN Trie!NoValue ELSE Trie!Get(trie, w)
        BY <1>2, <1>4, WroteGets, StringsAre
    <2>3. Owned(trie', TrieStrings) /\ Reached(trie', TrieStrings)
        BY <1>2, <1>4, WroteOwned
    <2>4. QED
        BY <1>1, <1>2, <2>1, <2>2, <2>3 DEF TrieHolds
<1>5. \/ Trie!RemoveKey(trie, s) = trie /\ Trie!Get(trie, s) = Trie!NoValue
      \/ \E n : Wrote(Trie!RemoveKey(trie, s), n, trie, s, Trie!NoValue)
    BY <1>2, RemoveKeyIs
<1>6. QED
    BY <1>1, <1>3, <1>4, <1>5

LEMMA TrieStep ==
    ASSUME CarefulTrie, TrieKept, [NodesNext]_nodesVars
    PROVE  TrieKept'
<1>1. CASE UNCHANGED nodesVars
    BY <1>1 DEF TrieKept, TrieHolds, nodesVars, nodes
<1>2. CASE NodesNext /\ which # "trie"
    BY <1>2 DEF NodesNext, TrieKept
<1>3. CASE NodesNext /\ which = "trie"
    <2>1. which = "trie" /\ which' = which /\ Trie!TrieNext /\ TrieHolds
        BY <1>3 DEF NodesNext, TrieKept
    <2>2. ASSUME NEW s \in TrieStrings, NEW val \in TrieValues, Trie!TriePut(s, val) PROVE TrieHolds'
        BY <2>1, <2>2, TriePutStep
    <2>3. ASSUME NEW s \in TrieStrings \cup {<<>>}, Trie!TrieRemove(s) PROVE TrieHolds'
        BY <2>1, <2>3, TrieRemoveStep
    <2>4. ASSUME Trie!TrieAssignCopy PROVE TrieHolds'
        <3>1. trie' = trie /\ stored' = stored
            BY <2>1, <2>4, CopyNodeIs DEF Trie!TrieAssignCopy, TrieHolds
        <3>2. QED
            BY <2>1, <3>1 DEF TrieHolds
    <2>5. ASSUME Trie!TrieAssignEmpty PROVE TrieHolds'
        <3>1. /\ trie' = Trie!CopyNode(Trie!Nil)
              /\ stored' = [s \in TrieStrings |-> Trie!NoValue]
            BY <2>5 DEF Trie!TrieAssignEmpty
        <3>2. trie' = Trie!Nil
            BY <3>1, NilIs, CopyNodeIs
        <3>3. Trie!NoValue \in Nat /\ DOMAIN trie' = {}
            BY <3>2 DEF Trie!NoValue, Trie!Nil
        <3>4. Owned(trie', TrieStrings) /\ Reached(trie', TrieStrings)
            BY <3>3 DEF Owned, Reached
        <3>5. Rooted(trie') /\ \A w \in TrieStrings : Trie!Get(trie', w) = Trie!NoValue
            BY <3>2, NilIs, StringsAre
        <3>6. QED
            BY <3>1, <3>3, <3>4, <3>5 DEF TrieHolds
    <2>6. TrieHolds'
        BY <2>1, <2>2, <2>3, <2>4, <2>5 DEF Trie!TrieNext
    <2>7. QED
        BY <2>6 DEF TrieKept
<1>4. QED
    BY <1>1, <1>2, <1>3

\* Whatever is put, overwritten and removed, and however often the trie is
\* assigned a copy of itself or emptied: get answers with the value put last,
\* keys and keysWithPrefix give as many strings as are stored (not necessarily
\* those), and longestPrefixOf finds the longest stored prefix unless it throws.  For any set of strings
\* that are not empty and any values, where the empty string is not removed.
THEOREM TrieAlwaysFinds ==
    ASSUME CarefulTrie
    PROVE  NodesSpec => []TrieFinds
<1>1. NodesInit => TrieKept
    BY TrieStarts DEF NodesInit, TrieKept
<1>2. TrieKept /\ [NodesNext]_nodesVars => TrieKept'
    BY TrieStep
<1>3. TrieKept => TrieFinds
    BY KeysAre DEF TrieKept, TrieHolds, TrieFinds, Trie!TrieAgrees
<1>4. QED
    BY <1>1, <1>2, <1>3, PTL DEF NodesSpec

=============================================================================

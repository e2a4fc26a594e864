------------------------------ MODULE TSTTrie ------------------------------
(***************************************************************************)
(* The ternary search trie: strings to values.  A node is named by the way *)
(* to it from the root, a sequence of "left", "mid" and "right"; the trie  *)
(* maps each of its nodes to its character and its value (NoValue for a    *)
(* null pointer), and what it does not map is a null pointer.  A character *)
(* is a natural number and a string a sequence of them.  Nodes are never   *)
(* freed before the trie is.                                               *)
(***************************************************************************)
EXTENDS Integers, Sequences, SequencesExt, FiniteSets

CONSTANTS TrieStrings,  \* the strings that are put, and asked for
          TrieValues,   \* the values put
          TrieAvoids    \* calls the callers do not make, see TrieRemove

VARIABLES trie,         \* [c: the character, v: the value] of each node
          stored        \* the string's value, or NoValue, as the callers know it

trieVars == <<trie, stored>>

NoValue == 0
Root == <<>>
Nil == [node \in {} |-> NoValue]
IsNull(t, node) == node \notin DOMAIN t

CreateNode(t, node, char) ==
    [n \in DOMAIN t \cup {node} |-> IF n = node THEN [c |-> char, v |-> NoValue] ELSE t[n]]

\* The child that the character c leads to.
Side(t, node, c) == IF c = t[node].c THEN "mid" ELSE IF c < t[node].c THEN "left" ELSE "right"
Child(t, node, c) == Append(node, Side(t, node, c))

\* The position of the next character to be compared after the node.
NextPos(t, node, key, pos) == IF key[pos] = t[node].c THEN pos + 1 ELSE pos

\* Mutant of Found: where the character matches the search stops.
FoundEarly(t, node, key, pos) == key = <<>> \/ key[pos] = t[node].c

Found(t, node, key, pos) == key = <<>> \/ (key[pos] = t[node].c /\ pos = Len(key))

\* One call of get, and what it calls; at = <<node, pos>>.
GetTurn(t, key, at) ==
    IF IsNull(t, at[1]) \/ Found(t, at[1], key, at[2]) THEN at
    ELSE <<Child(t, at[1], key[at[2]]), NextPos(t, at[1], key, at[2])>>

\* Every call goes one node down.
GetNode(t, key) ==
    LET at[i \in 0 .. Cardinality(DOMAIN t)] ==
            IF i = 0 THEN <<Root, 1>> ELSE GetTurn(t, key, at[i - 1])
    IN at[Cardinality(DOMAIN t)][1]

\* One call of put, which creates the node where there is none;
\* p = <<trie, node, pos>>, and pos is past the key when put has returned.
PutTurn(key, val, p) ==
    LET node == p[2]
        pos == p[3]
        t == IF IsNull(p[1], node) THEN CreateNode(p[1], node, key[pos]) ELSE p[1]
    IN CASE pos > Len(key) -> p
         [] pos =< Len(key) /\ ~Found(t, node, key, pos) ->
                <<t, Child(t, node, key[pos]), NextPos(t, node, key, pos)>>
         [] OTHER -> <<[t EXCEPT ![node].v = val], node, pos + 1>>

PutNode(t, key, val) ==
    LET calls == Cardinality(DOMAIN t) + Len(key)
        put[i \in 0 .. calls] == IF i = 0 THEN <<t, Root, 1>> ELSE PutTurn(key, val, put[i - 1])
    IN put[calls][1]

\* Every node is copied, to where it was.
CopyNode(t) == [node \in DOMAIN t |-> [c |-> t[node].c, v |-> t[node].v]]

-----------------------------------------------------------------------------
(* The operations *)

Get(t, key) ==
    IF key = <<>> \/ IsNull(t, GetNode(t, key)) THEN NoValue ELSE t[GetNode(t, key)].v

Contained(t, key) == Get(t, key) # NoValue

\* The value goes, its nodes stay.
RemoveKey(t, key) ==
    IF IsNull(t, GetNode(t, key)) THEN t ELSE [t EXCEPT ![GetNode(t, key)].v = NoValue]

\* What a call of collect adds for the node: the strings below it, from its
\* character on; the calls for its children have found theirs.  Mutant: a node
\* with a value is taken for the last one below.
CollectShallow(t, node, found) ==
    LET below(side) == IF IsNull(t, Append(node, side)) THEN <<>> ELSE found[Append(node, side)]
        keys == IF t[node].v # NoValue THEN <<<<>>>>
                ELSE below("left") \o below("mid") \o below("right")
    IN [i \in DOMAIN keys |-> <<t[node].c>> \o keys[i]]

\* The subtries left and right get the character of the node they hang from
\* although it is not part of their keys.
CollectNode(t, node, found) ==
    LET below(side) == IF IsNull(t, Append(node, side)) THEN <<>> ELSE found[Append(node, side)]
        keys == (IF t[node].v # NoValue THEN <<<<>>>> ELSE <<>>)
                \o below("left") \o below("mid") \o below("right")
    IN [i \in DOMAIN keys |-> <<t[node].c>> \o keys[i]]

\* By the height of the calls.
Collected(t) ==
    LET found[h \in 0 .. Cardinality(DOMAIN t)] ==
            [node \in DOMAIN t |-> IF h = 0 THEN <<>> ELSE CollectNode(t, node, found[h - 1])]
    IN found[Cardinality(DOMAIN t)]

Collect(t, node, pre) ==
    IF IsNull(t, node) THEN <<>>
    ELSE [i \in DOMAIN Collected(t)[node] |-> pre \o Collected(t)[node][i]]

Keys(t) == Collect(t, Root, <<>>)

KeysWithPrefix(t, prefix) ==
    LET node == GetNode(t, prefix)
    IN IF IsNull(t, node) THEN <<>>
       ELSE (IF t[node].v # NoValue THEN <<prefix>> ELSE <<>>)
            \o Collect(t, Append(node, "mid"), prefix)

\* One call of search, p = <<node, pos, the longest prefix so far>>; the
\* characters matched are the start of the key.
SearchTurn(t, key, p) ==
    LET node == p[1]
        pos == p[2]
        longer == key[pos] = t[node].c /\ t[node].v # NoValue
    IN IF IsNull(t, node) \/ pos > Len(key) THEN p
       ELSE <<Child(t, node, key[pos]), NextPos(t, node, key, pos),
              IF longer THEN SubSeq(key, 1, pos) ELSE p[3]>>

SearchNode(t, key) ==
    LET at[i \in 0 .. Cardinality(DOMAIN t)] ==
            IF i = 0 THEN <<Root, 1, <<>>>> ELSE SearchTurn(t, key, at[i - 1])
    IN at[Cardinality(DOMAIN t)]

\* string::at throws for a position past the end.
Thrown == <<-1>>
LongestPrefixOf(t, key) ==
    LET p == SearchNode(t, key)
    IN IF ~IsNull(t, p[1]) /\ p[2] > Len(key) THEN Thrown ELSE p[3]

TrieInit ==
    /\ trie = Nil
    /\ stored = [s \in TrieStrings |-> NoValue]

TriePut(key, val) ==
    /\ trie' = PutNode(trie, key, val)
    /\ stored' = [stored EXCEPT ![key] = val]

\* The empty string finds the root.
TrieRemove(key) ==
    /\ "empty" \in TrieAvoids => key # <<>>
    /\ trie' = RemoveKey(trie, key)
    /\ stored' = [s \in TrieStrings |-> IF s = key THEN NoValue ELSE stored[s]]

\* Assigned a copy of itself, or an empty trie.
TrieAssignCopy ==
    /\ trie' = CopyNode(trie)
    /\ UNCHANGED stored
TrieAssignEmpty ==
    /\ trie' = CopyNode(Nil)
    /\ stored' = [s \in TrieStrings |-> NoValue]

TrieNext ==
    \/ \E s \in TrieStrings, val \in TrieValues : TriePut(s, val)
    \/ \E s \in TrieStrings \cup {<<>>} : TrieRemove(s)
    \/ TrieAssignCopy
    \/ TrieAssignEmpty

-----------------------------------------------------------------------------
(* Properties *)

\* Whatever was put, overwritten and removed, in whatever order, get answers
\* with the last value put.
TrieAgrees == \A s \in TrieStrings : Get(trie, s) = stored[s]

Live == {s \in TrieStrings : stored[s] # NoValue}
PrefixesOf(key) == {s \in Live : IsPrefix(s, key)}
Longest(strings) == IF strings = {} THEN <<>>
                    ELSE CHOOSE s \in strings : \A u \in strings : Len(u) =< Len(s)

\* keys() and keysWithPrefix give as many strings as there are keys, whatever
\* the strings are (KeysListed), and what longestPrefixOf returns is the
\* longest stored prefix; it throws where a string put at some time goes on
\* past the argument, although TSTTrie.h:166 knows no such case.
KeysAgree ==
    /\ Len(Keys(trie)) = Cardinality(Live)
    /\ \A s \in TrieStrings :
         /\ Len(KeysWithPrefix(trie, s)) = Cardinality({u \in Live : IsPrefix(s, u)})
         /\ LongestPrefixOf(trie, s) # Thrown => LongestPrefixOf(trie, s) = Longest(PrefixesOf(s))
         /\ LongestPrefixOf(trie, s) = Thrown =>
              \E u \in TrieStrings : IsStrictPrefix(s, u) /\ ~IsNull(trie, GetNode(trie, u))

\* TSTTrie.h:154 says that keys() returns the keys stored, and :179 the same of
\* keysWithPrefix.  It is false as soon as a node has a left or right subtrie
\* with keys: no run checks it.
KeysListed == ToSet(Keys(trie)) = Live

=============================================================================

-------------------------------- MODULE Nodes --------------------------------
(***************************************************************************)
(* The containers of src/lib/ds, with those made of nodes beside the       *)
(* arrays: the hash table, the trie and the linked list.  "which" names    *)
(* the one in use.                                                         *)
(***************************************************************************)
EXTENDS Arrays

CONSTANTS HashKeys, PrimesList, HashAvoids,
          TrieStrings, TrieValues, TrieAvoids,
          ListValues, MostNodes

VARIABLES table, hashed, trie, stored, lists, sequences

\* A key is its own hash; a table has at least one bucket.
ASSUME HashAssumption ==
    /\ HashKeys \subseteq Nat
    /\ PrimesList \in Seq(Nat \ {0}) /\ PrimesList # <<>>

\* Strings of characters; the empty one is not put, and no value is none.
ASSUME TrieAssumption ==
    /\ TrieStrings \subseteq Seq(Nat) \ {<<>>}
    /\ TrieValues \subseteq Nat \ {0}

\* Nodes of a list are named by their values, sentinels by small numbers.
ASSUME ListAssumption == ListValues \subseteq Nat \ {0} /\ MostNodes \in Nat

Hash == INSTANCE Hashtable
Trie == INSTANCE TSTTrie
List == INSTANCE Linkedlist

nodes == <<table, hashed, trie, stored, lists, sequences>>
nodesVars == <<which, nodes>>

NodesInit ==
    /\ IF which = "hash" THEN Hash!HashInit ELSE table = <<>> /\ hashed = <<>>
    /\ IF which = "trie" THEN Trie!TrieInit ELSE trie = <<>> /\ stored = <<>>
    /\ IF which = "list" THEN List!ListInit ELSE lists = <<>> /\ sequences = <<>>

NodesNext ==
    /\ UNCHANGED which
    /\ \/ which = "hash" /\ Hash!HashNext /\ UNCHANGED <<trie, stored, lists, sequences>>
       \/ which = "trie" /\ Trie!TrieNext /\ UNCHANGED <<table, hashed, lists, sequences>>
       \/ which = "list" /\ List!ListNext /\ UNCHANGED <<table, hashed, trie, stored>>

NodesSpec == NodesInit /\ [][NodesNext]_nodesVars

-----------------------------------------------------------------------------
(* Properties *)

\* The hash table finds exactly the keys put in and not removed, each in the
\* bucket of its hash, across rehashes and removals.
HashAgrees == which = "hash" => Hash!TableAgrees

\* get finds exactly the strings put in and not removed, with the value put
\* last, and keys() and keysWithPrefix give as many strings as were kept, across
\* the nodes that strings share and that removals leave; longestPrefixOf is
\* right where it returns.  That the strings given are the keys is not said: it
\* is what TSTTrie.h:154 and :179 promise and the code breaks (KeysListed).
TrieFinds == which = "trie" => Trie!TrieAgrees /\ Trie!KeysAgree

\* The linked list holds what was put in, in order, whatever was spliced,
\* merged and sorted in between.
ListHolds == which = "list" => List!ListsAgree

\* All three: lookups and order, and of what a trie lists only the number.
NodesAgree == HashAgrees /\ TrieFinds /\ ListHolds

=============================================================================

----------------------------- MODULE Containers -----------------------------
(***************************************************************************)
(* The containers of src/lib/ds and the tables of src/lib/net's Poller (a  *)
(* vector and a map held together by indices), which do not interact: one  *)
(* of them is chosen at the start and any sequence of its operations is    *)
(* performed.  Arrays has those that keep their elements in one array,     *)
(* Nodes those made of nodes but for the red-black tree, which is added    *)
(* here.                                                                   *)
(***************************************************************************)
EXTENDS Nodes, Poller

CONSTANTS LastKey, EqualKeys, Copies, TreeAvoids

VARIABLES tree, contents

Tree == INSTANCE RBTree

vars == <<which, arrays, nodes, tree, contents, pollerVars>>

Init ==
    /\ which \in {"tree", "hash", "trie", "heap", "list", "vector", "buffer", "poller"}
    /\ ArraysInit
    /\ NodesInit
    /\ PollerInit
    /\ IF which = "tree" THEN Tree!TreeInit ELSE tree = <<>> /\ contents = <<>>

Next ==
    \/ ArraysNext /\ UNCHANGED <<nodes, tree, contents, pollerVars>>
    \/ NodesNext /\ UNCHANGED <<arrays, tree, contents, pollerVars>>
    \/ which = "tree" /\ Tree!TreeNext /\ UNCHANGED <<which, arrays, nodes, pollerVars>>
    \/ which = "poller" /\ PollerNext /\ UNCHANGED <<which, arrays, nodes, tree, contents>>

Spec == Init /\ [][Next]_vars

-----------------------------------------------------------------------------
(* Properties; Arrays, Nodes and Poller state those of theirs *)

\* Every sequence of insertions, hinted and equal insertions, copies, moves,
\* clear and erasures of the first of several elements leaves a red-black tree
\* that holds, in order and in both directions, what was put in and not erased,
\* and answers find, and the bounds for keys below the last one.  Of erasures
\* elsewhere, which SwapNode, SwitchNode and the rebalancing of a right side
\* break, nothing is said (Erasable).
TreeSound == which = "tree" => Tree!TreeAgrees /\ Tree!TreeBalanced

=============================================================================

------------------------------- MODULE Arrays -------------------------------
(***************************************************************************)
(* The containers of src/lib/ds that keep their elements in one array: the *)
(* indexed heap, the vector and the buffer.  "which" names the one in use; *)
(* any sequence of its operations is performed.                            *)
(***************************************************************************)
EXTENDS Integers, Sequences

CONSTANTS HeapKeys, Scores, HeapLists, HeapAvoids,
          Elements, MostElements, MostReserved, VectorAvoids,
          PrependSize, InitialSize, Prependables, Chunks, ExtraSize, MostReadable, BufferAvoids

VARIABLES which,    \* the container in use
          heap, scores, vector, sequence, buffer, unread

\* Scores are compared as numbers; a list gives keys and scores.
ASSUME HeapAssumption ==
    /\ Scores \subseteq Int
    /\ HeapLists \subseteq Seq(HeapKeys \X Int)

ASSUME VectorAssumption == MostElements \in Nat /\ MostReserved \in Nat

\* Two buffers that are swapped keep their own room to prepend, for which
\* the other's size must do: the real sizes are 8 and 1024.
ASSUME BufferAssumption ==
    /\ {PrependSize, InitialSize, ExtraSize, MostReadable} \subseteq Nat
    /\ Prependables \subseteq Nat
    /\ \A p, q \in Prependables : p =< q + InitialSize
    /\ Chunks \subseteq Seq(0 .. 255)

Heap == INSTANCE MinHeap
Vec == INSTANCE Vector
Buf == INSTANCE Buffer

arrays == <<heap, scores, vector, sequence, buffer, unread>>
arraysVars == <<which, arrays>>

\* The variables of a container that is not in use have no value of interest.
ArraysInit ==
    /\ IF which = "heap" THEN Heap!HeapInit ELSE heap = <<>> /\ scores = <<>>
    /\ IF which = "vector" THEN Vec!VectorInit ELSE vector = <<>> /\ sequence = <<>>
    /\ IF which = "buffer" THEN Buf!BufferInit ELSE buffer = <<>> /\ unread = <<>>

ArraysNext ==
    /\ UNCHANGED which
    /\ \/ which = "heap" /\ Heap!HeapNext /\ UNCHANGED <<vector, sequence, buffer, unread>>
       \/ which = "vector" /\ Vec!VectorNext /\ UNCHANGED <<heap, scores, buffer, unread>>
       \/ which = "buffer" /\ Buf!BufferNext /\ UNCHANGED <<heap, scores, vector, sequence>>

ArraysSpec == ArraysInit /\ [][ArraysNext]_arraysVars

-----------------------------------------------------------------------------
(* Properties *)

\* The heap's vector and its index tell the same, in heap order, after every
\* insertion, erasure, change of score and pop.
HeapAgrees == which = "heap" => Heap!HeapAgrees

\* Vector and buffer hold what was put in, in order, whatever was grown,
\* shrunk, resized or moved down in between.
SequencesAgree == /\ which = "vector" => Vec!VectorAgrees
                  /\ which = "buffer" => Buf!BufferAgrees

=============================================================================

---------------------------- MODULE MCContainers ----------------------------
(* Containers for TLC.  Six tree keys and one that may be there twice give  *)
(* every case of rebalancing; hash keys collide in the small tables and no  *)
(* longer in the big one; the strings branch to each side and share         *)
(* prefixes; one heap starts with a key given twice, and six heap keys make  *)
(* three levels, so that what fills an erased place may have to go up.      *)
(* Four dispatchers have three descriptors, 0 included: d1, a Connector's,  *)
(* and the connection's d4 have the same one after the other.  Three live   *)
(* slots give a removal at the front, in the middle and at the end.         *)
EXTENDS Containers, TLC

CONSTANTS d1, d2, d3, d4

MCPrimes == <<2, 3, 5>>
MCStrings == {<<1>>, <<2>>, <<3>>, <<2, 1>>, <<2, 3>>, <<2, 1, 2>>}
MCHeapLists == {<<>>, <<<<1, 3>>, <<2, 1>>, <<3, 2>>>>,
                <<<<1, 1>>, <<2, 1>>, <<1, 1>>, <<3, 1>>>>}
MCDispatchers == {d1, d2, d3, d4}
MCFd == d1 :> 0 @@ d2 :> 1 @@ d3 :> 5 @@ d4 :> 0
MCChunks == {<<1>>, <<1, 2>>, <<2, 1, 1>>}
=============================================================================

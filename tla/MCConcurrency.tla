--------------------------- MODULE MCConcurrency ---------------------------
(* Concurrency for TLC: three consumers, so that one can take the value     *)
(* another was woken for while a third sleeps; two producers, so that two   *)
(* notifications can be on their way; two threads and three connections, so *)
(* that the round goes back to the first loop.                              *)
EXTENDS Concurrency

CONSTANTS c1, c2, c3

MCConsumers == {c1, c2, c3}
MCProducers == {1, 2}
MCConns == {1, 2, 3}
=============================================================================

--------------------------- MODULE MCTCPConnection ---------------------------
(* A TCPConnection for TLC: the long message does not fit the socket's buffer. *)
EXTENDS TCPConnection, FiniteSets

CONSTANTS Long

MCSize == [m \in Messages |-> IF m = Long THEN Cap + 1 ELSE 1]
==============================================================================

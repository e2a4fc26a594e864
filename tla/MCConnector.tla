----------------------------- MODULE MCConnector -----------------------------
(* Instance of Connector for TLC: a second descriptor so that a new attempt *)
(* can start while the last connection is open, two timers so that a second *)
(* one is a state the checks can see.                                       *)
EXTENDS Connector

CONSTANTS fd1, fd2, t1, t2, timer1, timer2

MCFds == {fd1, fd2}
MCThreads == {t1, t2}
MCTimerIds == {timer1, timer2}
==============================================================================

----------------------------- MODULE MCEventLoop -----------------------------
(* Instance of EventLoop for TLC: two threads are enough for one wake-up to *)
(* be in flight while another thread pushes or quits, and three functors    *)
(* for a batch in hand, one pending and one pushed from a functor.          *)
EXTENDS EventLoop

CONSTANTS f1, f2, f3, t1, t2

MCFunctors == {f1, f2, f3}
MCThreads == {t1, t2}
==============================================================================

------------------------------ MODULE Executor ------------------------------
(***************************************************************************)
(* What an EventLoop promises to those who give it functors, whatever the  *)
(* threads, the eventfd and the poll() underneath: functors run one at a   *)
(* time in the order they were enqueued, each once, and every functor      *)
(* eventually runs unless the loop is told to quit; the loop stops only    *)
(* after a quit, and then it does stop.  A lazy functor, one that wakes    *)
(* nobody, runs in its turn but is not worth running for.                  *)
(***************************************************************************)
EXTENDS Sequences

CONSTANT Functors

VARIABLES queue,    \* functors accepted and not started, oldest first
          history,  \* functors started, in the order they were started
          lazy,     \* functors submitted as lazy
          quitting, \* a quit was requested
          stopped   \* the loop returned: nothing runs any more

vars == <<queue, history, lazy, quitting, stopped>>

Elements(s) == {s[i] : i \in DOMAIN s}

Init == queue = <<>> /\ history = <<>> /\ lazy = {} /\ quitting = FALSE /\ stopped = FALSE

Submit(f) ==
    /\ f \notin Elements(queue) \cup Elements(history)
    /\ queue' = Append(queue, f)
    /\ lazy' = lazy \/ lazy' = lazy \cup {f}
    /\ UNCHANGED <<history, quitting, stopped>>

Run ==
    /\ ~stopped
    /\ queue # <<>>
    /\ history' = Append(history, Head(queue))
    /\ queue' = Tail(queue)
    /\ UNCHANGED <<lazy, quitting, stopped>>

Quit ==
    /\ quitting' = TRUE
    /\ UNCHANGED <<queue, history, lazy, stopped>>

Stop ==
    /\ quitting /\ ~stopped
    /\ stopped' = TRUE
    /\ UNCHANGED <<queue, history, lazy, quitting>>

Next == Run \/ Quit \/ Stop \/ \E f \in Functors : Submit(f)

RunForSomeone == Run /\ \E f \in Elements(queue) : f \notin lazy

Spec == Init /\ [][Next]_vars /\ WF_vars(RunForSomeone) /\ WF_vars(Stop)
=============================================================================

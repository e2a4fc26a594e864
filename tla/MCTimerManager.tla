--------------------------- MODULE MCTimerManager ---------------------------
(* Two repeating timers of different intervals and one that runs once: a   *)
(* batch can hold several timers, and each can cancel or follow another.   *)
EXTENDS TimerManager

CONSTANTS r1, r2, once

MCTimers == {r1, r2, once}
MCInterval == r1 :> 1 @@ r2 :> 2 @@ once :> 0
=============================================================================

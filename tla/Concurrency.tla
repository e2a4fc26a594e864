---------------------------- MODULE Concurrency ----------------------------
(***************************************************************************)
(* Two programs of threads, which do not interact: consumers and producers *)
(* over a channel and a latch, and a server with its pool of loops.  One   *)
(* is chosen at the start; the other stays in its initial state.           *)
(***************************************************************************)
EXTENDS Channel, TCPServer

VARIABLE which    \* the program that runs

vars == <<which, channelVars, serverVars>>

Init == which \in {"channel", "server"} /\ ChannelInit /\ ServerInit

RunsChannel(step) == which = "channel" /\ step /\ UNCHANGED <<which, serverVars>>
RunsServer(step) == which = "server" /\ step /\ UNCHANGED <<which, channelVars>>

Next == RunsChannel(ChannelNext) \/ RunsServer(ServerNext)

\* Every thread goes on while it can; peers, callers and spurious wake-ups
\* are under no obligation.
Fairness ==
    /\ \A c \in Consumers : WF_vars(RunsChannel(ConsumerStep(c)))
    /\ \A p \in Producers : WF_vars(RunsChannel(ProducerStep(p)))
    /\ WF_vars(RunsServer(BaseStep))
    /\ \A t \in Threads : WF_vars(RunsServer(ThreadStep(t)))

FairSpec == Init /\ [][Next]_vars /\ Fairness

-----------------------------------------------------------------------------
(* Liveness; Channel and TCPServer state what is always true *)

\* Every value is put and taken and every thread gets to its end: no
\* notification of the latch or the channel is missed.
EveryoneStops == which = "channel" ~> AllStopped

\* startLoop always gets its loop and the server gets to loop; destruction
\* joins every thread unless a wake-up comes too late; and while the server is
\* in use a connection handed to another loop is established, and a closed one
\* forgotten.
ServerLives ==
    /\ pc = "starting" ~> pc = "looping"
    /\ pc = "destroying" ~> pc \in {"gone", "late"}
    /\ \A c \in Conns :
         /\ conn[c] = "connecting" ~> (conn[c] = "connected" \/ ~InUse)
         /\ conn[c] = "closing" ~> (conn[c] = "closed" \/ ~InUse)

=============================================================================

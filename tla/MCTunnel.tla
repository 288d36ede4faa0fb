------------------------------ MODULE MCTunnel ------------------------------
(***************************************************************************)
(* The tunnel's components on small instances: the NAT-T socket shared by  *)
(* IKE and ESP, the packet pump, the liveness timers and the plain UDP     *)
(* transport.  The initial state picks the one that runs (focus); the      *)
(* others stay as they are.                                                *)
(***************************************************************************)
EXTENDS NattTransport, PacketPump, IkeLiveness

VARIABLES
  focus,     \* the component that runs
  mu, closed, udpConn, sockets, call, udpCancelled

Udp == INSTANCE UdpEsp WITH
  Senders <- {"send"}, Readers <- {"read"}, Closers <- {"close", "again"},
  conn <- udpConn, cancelled <- udpCancelled

udpVars == <<mu, closed, udpConn, sockets, call, udpCancelled>>
vars == <<focus, nattVars, pumpVars, timersVars, udpVars>>

Init ==
  /\ focus \in {"natt", "pump", "timers", "udp"}
  /\ NattInit /\ PumpInit /\ LiveInit /\ Udp!UdpInit

\* Only the component in focus steps.
NattOnly == focus = "natt" /\ UNCHANGED <<focus, pumpVars, timersVars, udpVars>>
PumpOnly == focus = "pump" /\ UNCHANGED <<focus, nattVars, timersVars, udpVars>>
TimersOnly == focus = "timers" /\ UNCHANGED <<focus, nattVars, pumpVars, udpVars>>
UdpOnly == focus = "udp" /\ UNCHANGED <<focus, nattVars, pumpVars, timersVars>>

Next ==
  \/ NattOnly /\ NattNext
  \/ PumpOnly /\ PumpNext
  \/ TimersOnly /\ LiveNext
  \/ UdpOnly /\ Udp!UdpNext

\* Fairness is that of the goroutines of the component that runs, which are
\* numbered here: Runs(g) is what goroutine g does once it can.  Only Close of the
\* UDP transport needs a mutex that is handed over in turn (sync.Mutex); the
\* others find theirs free in the end.
Calls == <<"close", "again", "send", "read">>
Runs(g) ==
  \/ /\ NattOnly
     /\ \/ g = 1 /\ LoopRuns
        \/ g = 2 /\ ReadRuns
        \/ g > 2 /\ ExchangeRuns(<<"pump", "other">>[g - 2])
  \/ /\ PumpOnly
     /\ \/ g <= 2 /\ WorkerRuns(<<"dev", "esp">>[g])
        \/ g = 3 /\ WatcherRuns
        \/ g = 4 /\ HostRuns
  \/ UdpOnly /\ Udp!Step(Calls[g])
CloseLocks == UdpOnly /\ \E g \in 1 .. 2 : Udp!Close(Calls[g])

Spec ==
  /\ Init /\ [][Next]_vars
  /\ \A g \in 1 .. 4 : WF_vars(Runs(g))
  /\ SF_vars(CloseLocks)

-----------------------------------------------------------------------------
\* No socket outlives Close (UdpEsp).
NoSocketAfterClose == Udp!NoSocketAfterClose

\* Closing ends whoever is blocked: exchanges and reads of the NAT-T socket, both
\* workers and the watcher of the pump, and calls of the UDP transport.
CloseUnblocks ==
  /\ ExchangesEnd /\ CloseEndsReaders /\ StopsTogether /\ CloseCompletes
  /\ Udp!CloseEndsCalls
=============================================================================

------------------------------- MODULE UdpEsp -------------------------------
(***************************************************************************)
(* UDPESPPacketTransport (engine/swu/udp_esp_transport.go): the UDP socket *)
(* of ESP packets, dialled by whichever call comes first with the mutex    *)
(* held, read by a loop that passes over keepalives, IKE messages and      *)
(* timeouts, and closed while calls are under way.  The network decides    *)
(* what a dial, a read or a write returns.                                 *)
(***************************************************************************)
EXTENDS Integers, FiniteSets

CONSTANTS Senders, Readers, Closers
          \* a sender sends packets and keepalives; a reader may have its
          \* context cancelled
Free == "free"
Calls == Senders \cup Readers \cup Closers

VARIABLES
  mu,         \* the mutex: Free, or the call that holds it
  closed,     \* t.closed
  conn,       \* t.conn is set
  sockets,    \* number of sockets open in the system
  call,       \* where every call is
  cancelled   \* readers whose context is done
udpVars == <<mu, closed, conn, sockets, call, cancelled>>

UdpInit ==
  /\ mu = Free /\ closed = FALSE /\ conn = FALSE /\ sockets = 0
  /\ call = [c \in Calls |-> "idle"] /\ cancelled = {}

Goto(c, pc) == call' = [call EXCEPT ![c] = pc]
Returns(c) == Goto(c, "idle") /\ cancelled' = cancelled \ {c}

\* SendESPPacket, SendNATTKeepalive, ReadESPPacket and Close up to the lock.
Begin(c) == call[c] = "idle" /\ Goto(c, "lock") /\ UNCHANGED <<mu, closed, conn, sockets, cancelled>>
cancel(c) ==
  /\ c \in Readers /\ call[c] # "idle" /\ cancelled' = cancelled \cup {c}
  /\ UNCHANGED <<mu, closed, conn, sockets, call>>

\* What a call does with the connection getConn gave it.
Use(c) == IF c \in Senders THEN "write" ELSE "read"

\* getConn: the mutex is kept while dialling.
getConn(c) ==
  /\ c \notin Closers /\ call[c] = "lock" /\ mu = Free
  /\ IF closed THEN Returns(c) /\ UNCHANGED <<mu, closed, conn, sockets>>
     ELSE IF conn THEN Goto(c, Use(c)) /\ UNCHANGED <<mu, closed, conn, sockets, cancelled>>
     ELSE mu' = c /\ Goto(c, "dial") /\ UNCHANGED <<closed, conn, sockets, cancelled>>
Dialled(c) ==
  /\ call[c] = "dial" /\ mu' = Free
  /\ \/ Goto(c, Use(c)) /\ conn' = TRUE /\ sockets' = sockets + 1 /\ UNCHANGED <<closed, cancelled>>
     \/ Returns(c) /\ UNCHANGED <<closed, conn, sockets>>

\* A call that kept the connection finds the socket closed, if it is.
Write(c) == call[c] = "write" /\ Returns(c) /\ UNCHANGED <<mu, closed, conn, sockets>>
\* ReadESPPacket: a packet, a short one or an error ends the loop.  A timeout, a
\* keepalive or a non-ESP message starts it again while the context is good.
ReadESPPacket(c) ==
  call[c] = "read" /\ sockets > 0 /\ Returns(c) /\ UNCHANGED <<mu, closed, conn, sockets>>
ReadEnds(c) ==
  call[c] = "read" /\ (sockets = 0 \/ c \in cancelled) /\ Returns(c) /\ UNCHANGED <<mu, closed, conn, sockets>>

\* Close takes the connection under the mutex and closes it after.
MutClose(c) ==
  /\ c \in Closers /\ call[c] = "lock"
  /\ closed' = TRUE /\ conn' = FALSE /\ UNCHANGED <<mu, sockets, cancelled>>
  /\ Goto(c, IF conn THEN "close" ELSE "idle")
Close(c) ==
  /\ c \in Closers /\ call[c] = "lock" /\ mu = Free
  /\ closed' = TRUE /\ conn' = FALSE /\ UNCHANGED <<mu, sockets, cancelled>>
  /\ Goto(c, IF conn THEN "close" ELSE "idle")
CloseSocket(c) == call[c] = "close" /\ sockets' = sockets - 1 /\ Returns(c) /\ UNCHANGED <<mu, closed, conn>>

Step(c) == getConn(c) \/ Dialled(c) \/ Write(c) \/ ReadEnds(c) \/ Close(c) \/ CloseSocket(c)
UdpNext == \E c \in Calls : Begin(c) \/ cancel(c) \/ ReadESPPacket(c) \/ Step(c)
\* The mutex is given in turn, a dial of UDP and a write return, and a read does
\* once its socket is closed, or at its deadline when the context is done.
UdpSpec == UdpInit /\ [][UdpNext]_udpVars

-----------------------------------------------------------------------------
\* Once a Close that had a connection to close is over, no socket stays open, also
\* when another call was dialling as it began (udp_esp_transport.go:124-190).
NoSocketAfterClose ==
  closed /\ (\A c \in Closers : call[c] # "close") => sockets = 0

\* A Close returns, whoever is dialling, and ends every other call, the one
\* blocked in a read included.
CloseEndsCalls ==
  \A c \in Calls : []<>(closed \/ c \in Closers => call[c] = "idle")
=============================================================================

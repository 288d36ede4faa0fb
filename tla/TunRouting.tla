----------------------------- MODULE TunRouting -----------------------------
(***************************************************************************)
(* TUNTunnelManager.EstablishTunnel, TUNPacketTunnelSession.Close          *)
(* (engine/swu/tun_tunnel_manager.go) and LinuxTUNRoutingManager           *)
(* (engine/swu/tun_routing.go): several tunnels of one host set up         *)
(* addresses, routes and rules through `ip` commands, undo them in reverse *)
(* order, and share the host routes to their ePDGs by reference count.     *)
(*                                                                         *)
(* An artefact is what one command installs.  What is bound to the TUN     *)
(* interface goes with the interface, the rules and the ePDG routes do not. *)
(***************************************************************************)
EXTENDS Integers, FiniteSets, SequencesExt

CONSTANTS Tunnels,
          Keys,           \* sharedKey of the ePDG host routes
          Exclusions,     \* Exclusions[t]: sequence of the keys tunnel t needs
          MaxStarts,      \* bound on establishments of a tunnel
          IpMayFail       \* whether `ip` may fail for reasons of its own

ExclusionsAssumption == Exclusions \in [Tunnels -> Seq(Keys)]
BoundsAssumption == MaxStarts \in Nat \ {0} /\ IpMayFail \in BOOLEAN

Own(kind, t) == [kind |-> kind, of |-> t]
Shared(k) == [kind |-> "epdg", of |-> k]
BoundToDevice(t) == {Own("addr", t), Own("route", t)}
Artefacts == [kind : {"addr", "route", "rule"}, of : Tunnels]
               \cup [kind : {"epdg"}, of : Keys]

\* buildTUNRoutingCommands, for the commands that have an undo.
Commands(t) ==
  <<Own("addr", t)>> \o [i \in 1 .. Len(Exclusions[t]) |-> Shared(Exclusions[t][i])]
    \o <<Own("route", t), Own("rule", t)>>

VARIABLES
  pc,         \* where each tunnel is
  undo,       \* TUNRoutingState.undo
  cancelled,  \* the context of EstablishTunnel has ended
  session,    \* the base session: "none", "open" or "closed"
  device,     \* the TUN device: "none", "open", "closed", or "unnamed" and left open
  refs,       \* sharedTUNRouteCommands.refs
  installed,  \* the artefacts the kernel has
  starts,     \* history: establishments of each tunnel
  orphans,    \* history: artefacts whose removal failed
  killed      \* history: artefacts whose command was killed after its effect

vars == <<pc, undo, cancelled, session, device, refs, installed, starts, orphans,
          killed>>

Places == {"idle", "device", "apply", "rollback", "up", "cleanup", "failed", "closed"}

TypeOK ==
  /\ pc \in [Tunnels -> Places]
  /\ undo \in [Tunnels -> Seq(Artefacts)] /\ cancelled \in [Tunnels -> BOOLEAN]
  /\ session \in [Tunnels -> {"none", "open", "closed"}]
  /\ device \in [Tunnels -> {"none", "open", "closed", "unnamed"}]
  /\ refs \in [Keys -> 0 .. Cardinality(Tunnels)]
  /\ installed \subseteq Artefacts
  /\ orphans \subseteq installed /\ killed \subseteq installed
  /\ starts \in [Tunnels -> 0 .. MaxStarts]

Init ==
  /\ pc = [t \in Tunnels |-> "idle"] /\ undo = [t \in Tunnels |-> <<>>]
  /\ cancelled = [t \in Tunnels |-> FALSE]
  /\ session = [t \in Tunnels |-> "none"] /\ device = [t \in Tunnels |-> "none"]
  /\ refs = [k \in Keys |-> 0]
  /\ installed = {} /\ orphans = {} /\ killed = {}
  /\ starts = [t \in Tunnels |-> 0]

Goto(t, place) == pc' = [pc EXCEPT ![t] = place]

\* base.EstablishTunnel returned a session; the host may try again after a
\* failure or a close.
Establish(t) ==
  /\ pc[t] \in {"idle", "failed", "closed"} /\ starts[t] < MaxStarts
  /\ starts' = [starts EXCEPT ![t] = @ + 1]
  /\ session' = [session EXCEPT ![t] = "open"]
  /\ device' = [device EXCEPT ![t] = "none"]
  /\ cancelled' = [cancelled EXCEPT ![t] = FALSE]
  /\ Goto(t, "device")
  /\ UNCHANGED <<undo, refs, installed, orphans, killed>>

\* The request that asked for the tunnel is given up.
Cancel(t) ==
  /\ pc[t] \in {"device", "apply", "rollback"} /\ ~cancelled[t]
  /\ cancelled' = [cancelled EXCEPT ![t] = TRUE]
  /\ UNCHANGED <<pc, undo, session, device, refs, installed, starts, orphans,
                 killed>>

OpenDevice(t) ==
  /\ pc[t] = "device"
  /\ device' = [device EXCEPT ![t] = "open"]
  /\ Goto(t, "apply")
  /\ UNCHANGED <<undo, cancelled, session, refs, installed, starts, orphans,
                 killed>>

\* openDevice fails, for lack of a name too: a device that a factory returned
\* without a name is not closed.
OpenDeviceFails(t) ==
  /\ pc[t] = "device"
  /\ session' = [session EXCEPT ![t] = "closed"]
  /\ \/ UNCHANGED device
     \/ device' = [device EXCEPT ![t] = "unnamed"]
  /\ Goto(t, "failed")
  /\ UNCHANGED <<undo, cancelled, refs, installed, starts, orphans,
                 killed>>

-----------------------------------------------------------------------------
(* Apply.                                                                  *)

NextCommand(t) == Commands(t)[Len(undo[t]) + 1]

\* acquireSharedIPCommand, under the lock of sharedTUNRouteCommands.
AcquireShared(k) ==
  refs' = [refs EXCEPT ![k] = IF @ > 0 THEN @ + 1 ELSE 1]

\* Whether the command of artefact a only counts a reference.
CountsOnly(a) == a.kind = "epdg" /\ refs[a.of] > 0

\* `ip addr/rule add` refuses what exists; the ePDG route is replaced.
ApplyCommand(t) ==
  LET a == NextCommand(t) IN
  /\ pc[t] = "apply" /\ device[t] = "open"
  /\ CountsOnly(a) \/ ~cancelled[t]
  /\ a.kind = "epdg" \/ a \notin installed
  /\ installed' = installed \cup {a}
  /\ orphans' = orphans \ {a} /\ killed' = killed \ {a}
  /\ IF a.kind = "epdg" THEN AcquireShared(a.of) ELSE UNCHANGED refs
  /\ undo' = [undo EXCEPT ![t] = Append(@, a)]
  /\ Goto(t, IF Len(undo'[t]) = Len(Commands(t)) THEN "up" ELSE "apply")
  /\ UNCHANGED <<cancelled, session, device, starts>>

\* The command is not run, is refused, or is killed after it took effect.
ApplyFails(t) ==
  LET a == NextCommand(t) IN
  /\ pc[t] = "apply" /\ ~CountsOnly(a)
  /\ \/ /\ cancelled[t] \/ IpMayFail \/ (a.kind # "epdg" /\ a \in installed)
        /\ UNCHANGED <<installed, killed, cancelled>>
     \/ /\ ~cancelled[t] /\ a \notin installed
        /\ cancelled' = [cancelled EXCEPT ![t] = TRUE]
        /\ installed' = installed \cup {a} /\ killed' = killed \cup {a}
  /\ Goto(t, "rollback")
  /\ UNCHANGED <<undo, session, device, refs, starts, orphans>>

-----------------------------------------------------------------------------
(* runIPUndo: the rollback of Apply in its own context, and the Cleanup of  *)
(* Close in a fresh one.                                                   *)

\* Mutant: the first tunnel to leave takes the shared route away.
ReleaseShared_Always(k) == refs' = [refs EXCEPT ![k] = 0]

\* releaseSharedIPCommand.
ReleaseShared(k) == refs' = [refs EXCEPT ![k] = @ - 1]

\* An undo command that fails leaves its artefact behind.
UndoCommand(t) ==
  LET a == Last(undo[t]) IN
  /\ pc[t] \in {"rollback", "cleanup"} /\ undo[t] # <<>>
  /\ undo' = [undo EXCEPT ![t] = Front(@)]
  /\ IF a.kind = "epdg" THEN ReleaseShared(a.of) ELSE UNCHANGED refs
  /\ IF a.kind = "epdg" /\ refs'[a.of] > 0
       THEN UNCHANGED <<installed, orphans, killed>>
       ELSE \/ /\ ~(pc[t] = "rollback" /\ cancelled[t])
               /\ installed' = installed \ {a}
               /\ orphans' = orphans \ {a} /\ killed' = killed \ {a}
            \/ /\ (pc[t] = "rollback" /\ cancelled[t]) \/ IpMayFail
               /\ orphans' = orphans \cup ({a} \cap installed)
               /\ UNCHANGED <<installed, killed>>
  /\ UNCHANGED <<pc, cancelled, session, device, starts>>

\* closeInnerPacketDevice and packetSession.Close, or pump.Close, which closes
\* both; the kernel drops what is bound to the interface.
UndoDone(t) ==
  /\ pc[t] \in {"rollback", "cleanup"} /\ undo[t] = <<>>
  /\ device' = [device EXCEPT ![t] = "closed"]
  /\ session' = [session EXCEPT ![t] = "closed"]
  /\ installed' = installed \ BoundToDevice(t)
  /\ orphans' = orphans \ BoundToDevice(t)
  /\ killed' = killed \ BoundToDevice(t)
  /\ Goto(t, IF pc[t] = "rollback" THEN "failed" ELSE "closed")
  /\ UNCHANGED <<undo, cancelled, refs, starts>>

\* The packet pump ends by itself, and closes device and session; routes and
\* rules stay until Close.
PumpStops(t) ==
  /\ pc[t] = "up" /\ device[t] = "open"
  /\ device' = [device EXCEPT ![t] = "closed"]
  /\ session' = [session EXCEPT ![t] = "closed"]
  /\ installed' = installed \ BoundToDevice(t)
  /\ orphans' = orphans \ BoundToDevice(t)
  /\ killed' = killed \ BoundToDevice(t)
  /\ UNCHANGED <<pc, undo, cancelled, refs, starts>>

\* TUNPacketTunnelSession.Close; a second call does nothing.
Close(t) ==
  /\ pc[t] = "up"
  /\ Goto(t, "cleanup")
  /\ UNCHANGED <<undo, cancelled, session, device, refs, installed, starts, orphans,
                 killed>>

-----------------------------------------------------------------------------
Step(t) ==
  \/ Establish(t) \/ Cancel(t) \/ OpenDevice(t) \/ OpenDeviceFails(t)
  \/ ApplyCommand(t) \/ ApplyFails(t) \/ UndoCommand(t) \/ UndoDone(t)
  \/ PumpStops(t) \/ Close(t)

Next == \E t \in Tunnels : Step(t)

Spec == Init /\ [][Next]_vars

-----------------------------------------------------------------------------
(* Properties.                                                             *)

Holds(t, a) == \E i \in 1 .. Len(undo[t]) : undo[t][i] = a

\* The host route to an ePDG stays as long as one tunnel to it is up or being
\* set up, whatever the other tunnels do: the count of sharedTUNRouteCommands
\* is right across failed setups, cancelled ones and closes.
SharedRouteStays ==
  \A t \in Tunnels, k \in Keys : Holds(t, Shared(k)) => Shared(k) \in installed

\* Whatever the kernel has belongs to the undo list of some tunnel, unless its
\* removal was tried and failed or its command was killed: neither a rollback
\* nor a close forgets a command.
NothingForgotten ==
  \A a \in installed \ (orphans \cup killed) : \E t \in Tunnels : Holds(t, a)

Stopped(t) == pc[t] \in {"idle", "failed", "closed"}


=============================================================================

------------------------------- MODULE Mobike -------------------------------
(***************************************************************************)
(* MOBIKE of an established tunnel: what the session knows of its outer    *)
(* endpoint (engine/swu/mobike_state.go), the update it asks for when an   *)
(* observation differs (PacketSession.ObserveMOBIKENAT and MOBIKE), and    *)
(* the UPDATE_SA_ADDRESSES exchange of the control plane                   *)
(* (ike_tunnel_manager.go, ike_control.go).  The remote address and port   *)
(* are handled like the local ones and left out.  The ePDG is external.    *)
(***************************************************************************)
EXTENDS Integers, TLAPS

CONSTANTS Hosts,           \* goroutines of the host
          Addresses, Ports,
          FirstAddress,    \* endpoint the tunnel was established with
          FirstPort
None == 0                  \* a nil address, a zero port, an empty string
defaultMOBIKEPort == 4500

VARIABLES
  supported,   \* MOBIKE_SUPPORTED came in IKE_SA_INIT
  current,     \* MOBIKENATState.current
  caller,      \* the calls of the host
  told,        \* the endpoint the ePDG was told last
  behind       \* history: an update failed, or was not ordered with another
               \* one, and none on its own has succeeded since
mobikeVars == <<supported, current, caller, told, behind>>

Idle == [pc |-> "idle", ip |-> None]
firstMOBIKEIP(a, b) == IF a # None THEN a ELSE b
firstMOBIKEPort(a, b) == IF a # None THEN a ELSE IF b # None THEN b ELSE defaultMOBIKEPort
normalizedMOBIKENATEndpoint(e) == [e EXCEPT !.port = firstMOBIKEPort(@, None)]

\* NewMOBIKENATState, from the endpoint of the IKE transport.
MobikeInit ==
  /\ supported \in BOOLEAN
  /\ \E nat \in BOOLEAN :
       current = normalizedMOBIKENATEndpoint([ip |-> FirstAddress, port |-> FirstPort, nat |-> nat])
  /\ caller = [h \in Hosts |-> Idle]
  /\ told = [ip |-> FirstAddress, port |-> current.port]
  /\ behind = FALSE

Observations == [ip : Addresses \cup {None}, port : Ports \cup {None}, natKnown : BOOLEAN, nat : BOOLEAN]

\* The endpoint after an observation, which need not name every part of it.
Observed(obs) ==
  normalizedMOBIKENATEndpoint(
    [ip |-> firstMOBIKEIP(obs.ip, current.ip), port |-> firstMOBIKEPort(obs.port, current.port),
     nat |-> IF obs.natKnown THEN obs.nat ELSE current.nat])
MutRequires(next) == supported /\ next.nat # current.nat
RequiresMOBIKEUpdate(next) == supported /\ next # current

Updating == {h \in Hosts : caller[h].pc # "idle"}

\* ObserveMOBIKENAT, up to the unlock: the new endpoint is kept, then the update
\* is asked for.
ObserveMOBIKENAT(h, obs) ==
  LET next == Observed(obs) IN
  /\ caller[h].pc = "idle"
  /\ current' = next
  /\ behind' = (behind \/ (RequiresMOBIKEUpdate(next) /\ Updating # {}))
  /\ caller' = [caller EXCEPT ![h] = IF RequiresMOBIKEUpdate(next)
                                     THEN [pc |-> "update", ip |-> next.ip] ELSE Idle]
  /\ UNCHANGED <<supported, told>>

\* MOBIKE called by the host itself: the endpoint kept is not told of it.
MOBIKE(h, ip) ==
  /\ caller[h].pc = "idle" /\ supported
  /\ caller' = [caller EXCEPT ![h] = [pc |-> "update", ip |-> ip]]
  /\ behind' = (behind \/ Updating # {} \/ ip # current.ip)
  /\ UNCHANGED <<supported, current, told>>

\* mobikeUpdatePayloads: the address of the request, and the port the control
\* plane was made with.
mobikeUpdatePayloads(h) == [ip |-> caller[h].ip, port |-> firstMOBIKEPort(FirstPort, None)]

\* The exchange of ikePacketTunnelControl.mobike succeeds.
mobike(h) ==
  /\ caller[h].pc = "update"
  /\ told' = mobikeUpdatePayloads(h)
  /\ caller' = [caller EXCEPT ![h] = Idle]
  /\ behind' = (behind /\ ~(Updating = {h} /\ told'.ip = current.ip))
  /\ UNCHANGED <<supported, current>>

\* The request is lost, refused (rejectMOBIKEResponse), or its answer is lost.
rejectMOBIKEResponse(h) ==
  /\ caller[h].pc = "update"
  /\ told' \in {told, mobikeUpdatePayloads(h)}
  /\ caller' = [caller EXCEPT ![h] = Idle]
  /\ behind' = TRUE
  /\ UNCHANGED <<supported, current>>

MobikeNext ==
  \E h \in Hosts :
    \/ \E obs \in Observations : ObserveMOBIKENAT(h, obs)
    \/ \E ip \in Addresses : MOBIKE(h, ip)
    \/ mobike(h) \/ rejectMOBIKEResponse(h)
MobikeSpec == MobikeInit /\ [][MobikeNext]_mobikeVars

-----------------------------------------------------------------------------
\* When no update is under way the ePDG has the address the session believes it
\* has, unless an update failed, overlapped another one or came from the host
\* with an address nobody observed; one update that succeeds on its own, for the
\* address now held, mends all of these (packet_session.go:593-620).
AddressTold ==
  supported /\ Updating = {} /\ ~behind => told.ip = current.ip

-----------------------------------------------------------------------------
(* Proof that the ePDG knows the address the session believes it has.      *)

Outer == Addresses \cup {None, FirstAddress}

\* As long as no update failed or overlapped another one, at most one update is
\* under way, for the address now held; when there is none, the ePDG has it.
ToldInv ==
  /\ supported \in BOOLEAN /\ behind \in BOOLEAN /\ current.ip \in Outer
  /\ caller \in [Hosts -> [pc : {"idle", "update"}, ip : Outer]]
  /\ supported /\ ~behind =>
       /\ \A h \in Updating : caller[h].ip = current.ip
       /\ \A g, h \in Updating : g = h
       /\ Updating = {} => told.ip = current.ip

\* The address that is kept after an observation.
LEMMA ObservedAddress ==
  ASSUME ToldInv, NEW obs \in Observations
  PROVE  Observed(obs).ip \in Outer
BY DEF ToldInv, Observations, Observed, normalizedMOBIKENATEndpoint, firstMOBIKEIP, Outer

\* NewMOBIKENATState and the tunnel agree on the first endpoint.
LEMMA InitTold == MobikeInit => ToldInv
<1> SUFFICES ASSUME MobikeInit
             PROVE  ToldInv
  OBVIOUS
<1>1. current.ip = FirstAddress /\ told.ip = FirstAddress
  BY DEF MobikeInit, normalizedMOBIKENATEndpoint
<1>2. Updating = {} /\ caller \in [Hosts -> [pc : {"idle", "update"}, ip : Outer]]
  BY DEF MobikeInit, Updating, Idle, Outer
<1> QED BY <1>1, <1>2 DEF MobikeInit, ToldInv, Outer

\* Observations, updates of the host and their outcomes keep the invariant.
LEMMA NextTold == ToldInv /\ [MobikeNext]_mobikeVars => ToldInv'
<1> SUFFICES ASSUME ToldInv, [MobikeNext]_mobikeVars
             PROVE  ToldInv'
  OBVIOUS
<1>1. ASSUME NEW h \in Hosts, NEW obs \in Observations, ObserveMOBIKENAT(h, obs)
      PROVE  ToldInv'
  <2>1. current'.ip \in Outer
    BY <1>1, ObservedAddress DEF ObserveMOBIKENAT
  <2>2. CASE RequiresMOBIKEUpdate(Observed(obs))
    <3>1. caller' = [caller EXCEPT ![h] = [pc |-> "update", ip |-> current'.ip]]
      BY <1>1, <2>2 DEF ObserveMOBIKENAT
    <3>2. caller' \in [Hosts -> [pc : {"idle", "update"}, ip : Outer]]
      BY <2>1, <3>1 DEF ToldInv
    <3>3. ~behind' => Updating = {}
      BY <1>1, <2>2 DEF ObserveMOBIKENAT
    <3>4. ~behind' => Updating' = {h}
      BY <3>1, <3>3 DEF Updating, ToldInv
    <3>5. supported' \in BOOLEAN /\ behind' \in BOOLEAN
      BY <1>1 DEF ObserveMOBIKENAT, ToldInv
    <3>6. caller'[h].ip = current'.ip
      BY <3>1 DEF ToldInv
    <3> QED BY <2>1, <3>2, <3>4, <3>5, <3>6 DEF ToldInv
  <2>3. CASE ~RequiresMOBIKEUpdate(Observed(obs))
    <3>1. /\ caller' = [caller EXCEPT ![h] = Idle]
          /\ behind' = behind /\ told' = told /\ supported' = supported
          /\ supported => current' = current
      BY <1>1, <2>3 DEF ObserveMOBIKENAT, RequiresMOBIKEUpdate, ToldInv
    <3>2. caller' \in [Hosts -> [pc : {"idle", "update"}, ip : Outer]] /\ Updating' = Updating
      BY <1>1, <3>1 DEF ObserveMOBIKENAT, ToldInv, Idle, Updating, Outer
    <3>3. \A g \in Updating : caller'[g] = caller[g]
      BY <1>1, <3>1 DEF ObserveMOBIKENAT, ToldInv, Updating
    <3> QED BY <2>1, <3>1, <3>2, <3>3 DEF ToldInv
  <2> QED BY <2>2, <2>3
<1>2. ASSUME NEW h \in Hosts, NEW ip \in Addresses, MOBIKE(h, ip)
      PROVE  ToldInv'
  <2>1. /\ caller' = [caller EXCEPT ![h] = [pc |-> "update", ip |-> ip]]
        /\ caller' \in [Hosts -> [pc : {"idle", "update"}, ip : Outer]]
    BY <1>2 DEF MOBIKE, ToldInv, Outer
  <2>2. ~behind' => Updating = {} /\ ip = current.ip
    BY <1>2 DEF MOBIKE
  <2>3. ~behind' => Updating' = {h}
    BY <2>1, <2>2 DEF Updating, ToldInv
  <2>4. caller'[h].ip = ip /\ supported' \in BOOLEAN /\ behind' \in BOOLEAN /\ current' = current
    BY <1>2, <2>1 DEF MOBIKE, ToldInv
  <2> QED BY <2>1, <2>2, <2>3, <2>4 DEF ToldInv
<1>3. ASSUME NEW h \in Hosts, mobike(h)
      PROVE  ToldInv'
  <2>1. /\ caller' = [caller EXCEPT ![h] = Idle]
        /\ caller' \in [Hosts -> [pc : {"idle", "update"}, ip : Outer]]
        /\ h \in Updating /\ Updating' = Updating \ {h}
    BY <1>3 DEF mobike, ToldInv, Outer, Idle, Updating
  <2>2. ~behind' /\ supported' => Updating' = {} /\ told'.ip = current'.ip
    <3> SUFFICES ASSUME ~behind', supported'
                 PROVE  Updating' = {} /\ told'.ip = current'.ip
      OBVIOUS
    <3>1. CASE behind
      BY <1>3, <2>1, <3>1 DEF mobike
    <3>2. CASE ~behind
      BY <1>3, <2>1, <3>2 DEF mobike, mobikeUpdatePayloads, ToldInv
    <3> QED BY <3>1, <3>2
  <2> QED BY <1>3, <2>1, <2>2 DEF mobike, ToldInv
<1>4. ASSUME NEW h \in Hosts, rejectMOBIKEResponse(h)
      PROVE  ToldInv'
  BY <1>4 DEF rejectMOBIKEResponse, ToldInv, Outer, Idle
<1>5. CASE UNCHANGED mobikeVars
  BY <1>5 DEF mobikeVars, ToldInv, Updating
<1> QED BY <1>1, <1>2, <1>3, <1>4, <1>5 DEF MobikeNext

\* AddressTold, for any hosts, addresses and ports: however observations and
\* updates of the host interleave, the ePDG has the session's address when no
\* update is under way and none failed or overlapped.
THEOREM AddressKnown == MobikeSpec => []AddressTold
<1>1. ToldInv => AddressTold
  BY DEF ToldInv, AddressTold
<1> QED BY <1>1, InitTold, NextTold, PTL DEF MobikeSpec
=============================================================================

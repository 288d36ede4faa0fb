--------------------------- MODULE PacketSession ----------------------------
(***************************************************************************)
(* An established SWu tunnel: PacketSession (engine/swu/packet_session.go) *)
(* over the IKE control plane ikePacketTunnelControl                       *)
(* (engine/swu/ike_tunnel_manager.go).                                     *)
(*                                                                         *)
(* Any thread may rekey the CHILD_SA, run a MOBIKE update, drive the       *)
(* liveness check, send a packet or close the session.  The session lock   *)
(* is held for one step at a time; every call to the control plane is made *)
(* outside it.  The lock of the control plane is held for a whole rekey    *)
(* exchange, but only to allocate a message ID by the other operations.    *)
(*                                                                         *)
(* A CHILD_SA is a number, in the order in which the ePDG created them;    *)
(* the clock is abstracted: an action whose timer is running may happen.   *)
(***************************************************************************)
EXTENDS Integers, FiniteSets

CONSTANTS Threads,
          NoThread,
          Inner,         \* inner addresses a configuration payload may carry
          NoInner,       \* the empty address
          InitInner,     \* LocalInnerIP when the tunnel was established
          MaxMissed,     \* MaxMissedDPDProbes
          MaxSeq,        \* largest ESP sequence number (2^32 - 1 in the code)
          MaxId,         \* bound on IKE message IDs
          MaxChild       \* bound on CHILD_SAs

ASSUME ThreadsAssumption == NoThread \notin Threads
ASSUME InnerAssumption == NoInner \notin Inner /\ InitInner \in Inner \cup {NoInner}
ASSUME BoundsAssumption ==
  MaxMissed \in Nat \ {0} /\ MaxSeq \in Nat /\ MaxId \in Nat /\ MaxChild \in Nat

VARIABLES
  closed,      \* PacketSession.closed
  child,       \* the CHILD_SA that PacketSession.outbound and .inbound are made from
  sequence,    \* outbound.Sequence
  result,      \* PacketSession.result
  live,        \* PacketSession.liveness
  ctlChild,    \* ikePacketTunnelControl.child
  nextId,      \* ikePacketTunnelControl.nextMessageID
  ctlLock,     \* holder of ikePacketTunnelControl.mu
  ikeClosed,   \* the IKE transport is closed
  espClosed,   \* the ESP transport is closed
  created,     \* the ePDG has created the CHILD_SAs 0 .. created
  peerGone,    \* the ePDG has deleted the IKE SA
  pc,          \* what each thread does next
  loc,         \* local variables of each thread
  requests,    \* history: number of operations given each message ID
  sealed       \* history: <<CHILD_SA, sequence number>> of sealed packets

sessionVars == <<closed, child, sequence, result, live>>
controlVars == <<ctlChild, nextId, ctlLock, ikeClosed, espClosed>>
peerVars == <<created, peerGone>>
historyVars == <<requests, sealed>>
vars == <<sessionVars, controlVars, peerVars, pc, loc, historyVars>>

Children == 0 .. MaxChild
Ids == 1 .. MaxId
Addresses == Inner \cup {NoInner}

Idle == "idle"
Steps == {Idle, "rekeyLock", "rekeyWait", "rekeyInstall",
          "mobikeId", "mobikeWait", "mobikeApply",
          "dpdId", "dpdWait", "dpdAnswered", "dpdFailed", "dpdSnapshot", "markDead",
          "closeId", "closeWait", "closeEsp"}

\* id: message ID of the thread's request; child, inner: what the control
\* plane returned to it.
NoLocals == [id |-> 0, child |-> 0, inner |-> NoInner]

SessionType ==
  /\ closed \in BOOLEAN
  /\ child \in Children
  /\ sequence \in 0 .. MaxSeq
  /\ result \in [ike : BOOLEAN, ipsec : BOOLEAN, ready : BOOLEAN,
                 child : Children, inner : Addresses]

LiveType ==
  live \in [outstanding : BOOLEAN, missed : 0 .. MaxMissed, dead : BOOLEAN]

ControlType ==
  /\ ctlChild \in Children
  /\ nextId \in 1 .. MaxId + 1
  /\ ctlLock \in Threads \cup {NoThread}
  /\ ikeClosed \in BOOLEAN /\ espClosed \in BOOLEAN
  /\ created \in Children /\ peerGone \in BOOLEAN

ThreadType ==
  /\ pc \in [Threads -> Steps]
  /\ loc \in [Threads -> [id : 0 .. MaxId, child : Children, inner : Addresses]]

HistoryType ==
  /\ requests \in [Ids -> Nat]
  /\ sealed \subseteq (Children \X (1 .. MaxSeq))

\* Every variable has its type; in particular no counter of the session leaves
\* its range, the missed probes included.
TypeOK == SessionType /\ LiveType /\ ControlType /\ ThreadType /\ HistoryType

\* NewPacketSession over the CHILD_SA of IKE_AUTH, numbered 0.
Init ==
  /\ closed = FALSE /\ child = 0 /\ sequence = 0
  /\ result = [ike |-> TRUE, ipsec |-> TRUE, ready |-> TRUE,
               child |-> 0, inner |-> InitInner]
  /\ live = [outstanding |-> FALSE, missed |-> 0, dead |-> FALSE]
  /\ ctlChild = 0 /\ nextId = 1 /\ ctlLock = NoThread
  /\ ikeClosed = FALSE /\ espClosed = FALSE
  /\ created = 0 /\ peerGone = FALSE
  /\ pc = [t \in Threads |-> Idle]
  /\ loc = [t \in Threads |-> NoLocals]
  /\ requests = [i \in Ids |-> 0]
  /\ sealed = {}

-----------------------------------------------------------------------------
(* Threads and exchanges.                                                  *)

Goto(t, step) == pc' = [pc EXCEPT ![t] = step]

Return(t) == Goto(t, Idle) /\ loc' = [loc EXCEPT ![t] = NoLocals]

\* c.mu.Lock(); messageID := c.nextMessageID; c.nextMessageID++
AllocateId(t) ==
  /\ ctlLock = NoThread
  /\ nextId <= MaxId
  /\ nextId' = nextId + 1
  /\ loc' = [loc EXCEPT ![t].id = nextId]
  /\ requests' = [requests EXCEPT ![nextId] = @ + 1]

\* Bound: an operation begins only while message IDs are left for it, for those
\* that have not taken theirs yet and for Close.
IdsLeft ==
  nextId + Cardinality({t \in Threads :
             pc[t] \in {"rekeyLock", "mobikeId", "dpdId"}}) < MaxId

\* The ePDG answers only over an open transport and for an IKE SA it holds.
PeerAnswers == ~ ikeClosed /\ ~ peerGone

-----------------------------------------------------------------------------
(* CHILD_SA rekey.                                                         *)

RekeyStart(t) ==
  /\ pc[t] = Idle /\ ~ closed /\ IdsLeft
  /\ Goto(t, "rekeyLock")
  /\ UNCHANGED <<sessionVars, controlVars, peerVars, loc, historyVars>>

\* Mutant: the control lock is not held across the exchange.
RekeyAllocate_Unlocked(t) ==
  /\ pc[t] = "rekeyLock"
  /\ AllocateId(t)
  /\ Goto(t, "rekeyWait")
  /\ UNCHANGED <<sessionVars, ctlChild, ctlLock, ikeClosed, espClosed,
                 peerVars, sealed>>

RekeyAllocate(t) ==
  /\ pc[t] = "rekeyLock"
  /\ AllocateId(t)
  /\ ctlLock' = t
  /\ Goto(t, "rekeyWait")
  /\ UNCHANGED <<sessionVars, ctlChild, ikeClosed, espClosed, peerVars, sealed>>

CanCreateChild == PeerAnswers /\ created < MaxChild

RekeySucceeds(t) ==
  /\ pc[t] = "rekeyWait" /\ CanCreateChild
  /\ created' = created + 1
  /\ ctlChild' = created + 1
  /\ nextId' = loc[t].id + 1
  /\ ctlLock' = NoThread
  /\ \E a \in Addresses :
       loc' = [loc EXCEPT ![t].child = created + 1, ![t].inner = a]
  /\ Goto(t, "rekeyInstall")
  /\ UNCHANGED <<sessionVars, ikeClosed, espClosed, peerGone, historyVars>>

\* Mutant: the error path forgets to unlock.
RekeyFails_KeepsLock(t) ==
  /\ pc[t] = "rekeyWait"
  /\ \/ CanCreateChild /\ created' = created + 1
     \/ UNCHANGED created
  /\ Return(t)
  /\ UNCHANGED <<sessionVars, controlVars, peerGone, historyVars>>

\* Mutant: after a failure the session's SAs are rebuilt from the CHILD_SA the
\* control plane still has.
RekeyFails_Rebuilds(t) ==
  /\ pc[t] = "rekeyWait"
  /\ ctlLock' = NoThread
  /\ loc' = [loc EXCEPT ![t].child = ctlChild]
  /\ Goto(t, "rekeyInstall")
  /\ UNCHANGED <<sessionVars, ctlChild, nextId, ikeClosed, espClosed,
                 peerVars, historyVars>>

\* The request or the answer is lost, the ePDG refuses, or the transport was
\* closed.  When only the answer is lost the ePDG has created the CHILD_SA.
RekeyFails(t) ==
  /\ pc[t] = "rekeyWait"
  /\ ctlLock' = NoThread
  /\ \/ CanCreateChild /\ created' = created + 1
     \/ UNCHANGED created
  /\ Return(t)
  /\ UNCHANGED <<sessionVars, ctlChild, nextId, ikeClosed, espClosed,
                 peerGone, historyVars>>

\* Mutant: the session is not looked at again after the exchange.
RekeyInstall_Unchecked(t) ==
  /\ pc[t] = "rekeyInstall"
  /\ child' = loc[t].child
  /\ sequence' = 0
  /\ result' = [result EXCEPT !.ike = TRUE, !.ipsec = TRUE, !.ready = TRUE,
                              !.child = loc[t].child]
  /\ Return(t)
  /\ UNCHANGED <<closed, live, controlVars, peerVars, historyVars>>

\* Both SAs are replaced at once, with new counters.
RekeyInstall(t) ==
  /\ pc[t] = "rekeyInstall"
  /\ ~ closed
  /\ child' = loc[t].child
  /\ sequence' = 0
  /\ result' = [result EXCEPT !.ike = TRUE, !.ipsec = TRUE, !.ready = TRUE,
                              !.child = loc[t].child,
                              !.inner = IF loc[t].inner # NoInner
                                        THEN loc[t].inner ELSE @]
  /\ Return(t)
  /\ UNCHANGED <<closed, live, controlVars, peerVars, historyVars>>

\* The session was closed meanwhile, or packetSAs rejects the new CHILD_SA.
RekeyDiscard(t) ==
  /\ pc[t] = "rekeyInstall"
  /\ Return(t)
  /\ UNCHANGED <<sessionVars, controlVars, peerVars, historyVars>>

Rekey(t) ==
  \/ RekeyStart(t) \/ RekeyAllocate(t)
  \/ RekeySucceeds(t) \/ RekeyFails(t)
  \/ RekeyInstall(t) \/ RekeyDiscard(t)

-----------------------------------------------------------------------------
(* MOBIKE.  loc.inner holds the inner address of the snapshot of the result *)
(* taken before the exchange.                                               *)

MobikeStart(t) ==
  /\ pc[t] = Idle /\ ~ closed /\ IdsLeft
  /\ loc' = [loc EXCEPT ![t].inner = result.inner]
  /\ Goto(t, "mobikeId")
  /\ UNCHANGED <<sessionVars, controlVars, peerVars, historyVars>>

MobikeSend(t) ==
  /\ pc[t] = "mobikeId"
  /\ AllocateId(t)
  /\ Goto(t, "mobikeWait")
  /\ UNCHANGED <<sessionVars, ctlChild, ctlLock, ikeClosed, espClosed,
                 peerVars, sealed>>

\* The handler answers with the address the control plane was created with;
\* completeMOBIKEResult fills an empty one in from the snapshot.
MobikeSucceeds(t) ==
  /\ pc[t] = "mobikeWait" /\ PeerAnswers
  /\ loc' = [loc EXCEPT ![t].inner = IF InitInner # NoInner THEN InitInner ELSE @]
  /\ Goto(t, "mobikeApply")
  /\ UNCHANGED <<sessionVars, controlVars, peerVars, historyVars>>

MobikeFails(t) ==
  /\ pc[t] = "mobikeWait"
  /\ Return(t)
  /\ UNCHANGED <<sessionVars, controlVars, peerVars, historyVars>>

\* applyMOBIKEResult; does nothing when the session was closed meanwhile.
MobikeApply(t) ==
  /\ pc[t] = "mobikeApply"
  /\ result' = IF closed THEN result
               ELSE [result EXCEPT !.ike = TRUE, !.ipsec = TRUE, !.ready = TRUE,
                                   !.inner = loc[t].inner]
  /\ Return(t)
  /\ UNCHANGED <<closed, child, sequence, live, controlVars, peerVars,
                 historyVars>>

Mobike(t) ==
  \/ MobikeStart(t) \/ MobikeSend(t) \/ MobikeSucceeds(t) \/ MobikeFails(t)
  \/ MobikeApply(t)

-----------------------------------------------------------------------------
(* Liveness.  The timers of IkeLiveness are abstracted.                    *)

LivenessProbe(t) ==
  /\ pc[t] = Idle /\ ~ closed /\ ~ live.dead /\ IdsLeft
  /\ \/ ~ live.outstanding /\ live' = [live EXCEPT !.outstanding = TRUE]
     \/ /\ live.outstanding /\ live.missed + 1 < MaxMissed
        /\ live' = [live EXCEPT !.missed = @ + 1]
  /\ Goto(t, "dpdId")
  /\ UNCHANGED <<closed, child, sequence, result, controlVars, peerVars, loc,
                 historyVars>>

LivenessDeclareDead(t) ==
  /\ pc[t] = Idle /\ ~ closed /\ ~ live.dead
  /\ live.outstanding /\ live.missed + 1 >= MaxMissed
  /\ live' = [live EXCEPT !.missed = @ + 1, !.dead = TRUE]
  /\ Goto(t, "markDead")
  /\ UNCHANGED <<closed, child, sequence, result, controlVars, peerVars, loc,
                 historyVars>>

DpdSend(t) ==
  /\ pc[t] = "dpdId"
  /\ AllocateId(t)
  /\ Goto(t, "dpdWait")
  /\ UNCHANGED <<sessionVars, ctlChild, ctlLock, ikeClosed, espClosed,
                 peerVars, sealed>>

Heard == [outstanding |-> FALSE, missed |-> 0, dead |-> FALSE]

DpdReturns(t) ==
  /\ pc[t] = "dpdWait"
  /\ \/ PeerAnswers /\ Goto(t, "dpdAnswered")
     \/ Goto(t, "dpdFailed")
  /\ UNCHANGED <<sessionVars, controlVars, peerVars, loc, historyVars>>

\* RecordIKELivenessResult(now, true)
DpdRecordAnswer(t) ==
  /\ pc[t] = "dpdAnswered"
  /\ live' = Heard
  /\ Return(t)
  /\ UNCHANGED <<closed, child, sequence, result, controlVars, peerVars,
                 historyVars>>

\* RecordIKELivenessResult(now, false)
DpdRecordFailure(t) ==
  /\ pc[t] = "dpdFailed"
  /\ live' = IF ~ live.outstanding \/ live.dead THEN live
             ELSE [live EXCEPT !.missed = @ + 1,
                               !.dead = (live.missed + 1 >= MaxMissed)]
  /\ Goto(t, "dpdSnapshot")
  /\ UNCHANGED <<closed, child, sequence, result, controlVars, peerVars, loc,
                 historyVars>>

DpdSnapshot(t) ==
  /\ pc[t] = "dpdSnapshot"
  /\ \/ live.dead /\ Goto(t, "markDead") /\ UNCHANGED loc
     \/ ~ live.dead /\ Return(t)
  /\ UNCHANGED <<sessionVars, controlVars, peerVars, historyVars>>

MarkTunnelNotReady(t) ==
  /\ pc[t] = "markDead"
  /\ result' = IF closed THEN result
               ELSE [result EXCEPT !.ike = FALSE, !.ipsec = FALSE, !.ready = FALSE]
  /\ Return(t)
  /\ UNCHANGED <<closed, child, sequence, live, controlVars, peerVars,
                 historyVars>>

Liveness(t) ==
  \/ LivenessProbe(t) \/ LivenessDeclareDead(t) \/ DpdSend(t)
  \/ DpdReturns(t) \/ DpdRecordAnswer(t) \/ DpdRecordFailure(t) \/ DpdSnapshot(t)
  \/ MarkTunnelNotReady(t)

-----------------------------------------------------------------------------
(* Traffic: each is one critical section of the session lock.              *)

SendInnerPacket(t) ==
  /\ pc[t] = Idle /\ ~ closed
  /\ sequence # MaxSeq
  /\ sequence' = sequence + 1
  /\ sealed' = sealed \cup {<<child, sequence + 1>>}
  /\ UNCHANGED <<closed, child, result, live, controlVars, peerVars, pc, loc,
                 requests>>

\* A packet of the peer on the CHILD_SA in use; one on another CHILD_SA has
\* another SPI and is dropped without a trace.
ReceiveESPPacket(t) ==
  /\ pc[t] = Idle /\ ~ closed
  /\ ~ peerGone
  /\ live' = Heard
  /\ UNCHANGED <<closed, child, sequence, result, controlVars, peerVars, pc,
                 loc, historyVars>>

-----------------------------------------------------------------------------
(* Closing.                                                                *)

CloseStart(t) ==
  /\ pc[t] = Idle /\ ~ closed
  /\ closed' = TRUE
  /\ Goto(t, "closeId")
  /\ UNCHANGED <<child, sequence, result, live, controlVars, peerVars, loc,
                 historyVars>>

CloseSend(t) ==
  /\ pc[t] = "closeId"
  /\ AllocateId(t)
  /\ Goto(t, "closeWait")
  /\ UNCHANGED <<sessionVars, ctlChild, ctlLock, ikeClosed, espClosed,
                 peerVars, sealed>>

\* The DELETE, which always names the IKE SA itself and so ends every CHILD_SA
\* whichever one it also names, is processed by the ePDG or not; the IKE
\* transport is closed whatever the outcome.
CloseReturns(t) ==
  /\ pc[t] = "closeWait"
  /\ \/ PeerAnswers /\ peerGone' = TRUE
     \/ UNCHANGED peerGone
  /\ ikeClosed' = TRUE
  /\ Goto(t, "closeEsp")
  /\ UNCHANGED <<sessionVars, ctlChild, nextId, ctlLock, espClosed,
                 created, loc, historyVars>>

CloseEsp(t) ==
  /\ pc[t] = "closeEsp"
  /\ espClosed' = TRUE
  /\ Return(t)
  /\ UNCHANGED <<sessionVars, ctlChild, nextId, ctlLock, ikeClosed, peerVars,
                 historyVars>>

Close(t) ==
  CloseStart(t) \/ CloseSend(t) \/ CloseReturns(t) \/ CloseEsp(t)

-----------------------------------------------------------------------------
Step(t) ==
  Rekey(t) \/ Mobike(t) \/ Liveness(t) \/ SendInnerPacket(t)
    \/ ReceiveESPPacket(t) \/ Close(t)

Next == \E t \in Threads : Step(t)

Spec == Init /\ [][Next]_vars

\* A thread that entered an operation runs it to its end: every exchange ends,
\* with an answer or by the timeout of the transport, and a mutex that is free
\* again and again is eventually granted (sync.Mutex does not starve).
Progress(t) ==
  \/ RekeySucceeds(t) \/ RekeyFails(t) \/ RekeyInstall(t) \/ RekeyDiscard(t)
  \/ MobikeSucceeds(t) \/ MobikeFails(t) \/ MobikeApply(t)
  \/ DpdReturns(t) \/ DpdRecordAnswer(t) \/ DpdRecordFailure(t)
  \/ DpdSnapshot(t) \/ MarkTunnelNotReady(t)
  \/ CloseReturns(t) \/ CloseEsp(t)

TakesLock(t) == RekeyAllocate(t) \/ MobikeSend(t) \/ DpdSend(t) \/ CloseSend(t)

Fairness == \A t \in Threads : WF_vars(Progress(t)) /\ SF_vars(TakesLock(t))

FairSpec == Spec /\ Fairness

-----------------------------------------------------------------------------
(* Properties.                                                             *)

\* No two operations ever use the same IKE message ID, although every one of
\* them releases the control lock at another point and a rekey assigns the
\* counter again when its exchange is over (nextMessageID = NextMessageID).
MessageIdsUnique == \A i \in Ids : requests[i] <= 1

\* The CHILD_SA that traffic is sealed for is one the ePDG created: a rekey
\* that fails, at whatever point, leaves the session on a CHILD_SA that works.
InstalledChildExists == child <= created

\* What the exchanges of the control plane leave behind is sound: their message
\* IDs, and the CHILD_SA they put in place.
ExchangesSound == MessageIdsUnique /\ InstalledChildExists

\* A sequence number, hence a nonce, is used at most once under the keys of a
\* CHILD_SA: no interleaving of rekeys installs a CHILD_SA twice.
NoncesFresh ==
  [][sequence' = sequence + 1 /\ child' = child
       => <<child, sequence'>> \notin sealed]_vars

\* Once Close has begun, an operation that was waiting for the ePDG changes
\* neither the SAs nor the reported result.
FrozenAfterClose == [][closed => UNCHANGED <<closed, child, sequence, result>>]_vars

\* Every operation returns to its caller.
OperationsReturn == \A t \in Threads : pc[t] # Idle ~> pc[t] = Idle

=============================================================================

------------------------ MODULE PacketSessionProofs -------------------------
(***************************************************************************)
(* Proofs about PacketSession for any set of threads and any bounds: no    *)
(* message ID and no nonce is used twice, the CHILD_SA in use exists, and  *)
(* a closed session does not change.  One lemma per part of the inductive  *)
(* invariant, with a step for each action that can disturb the part and    *)
(* one for the remaining actions of each operation.                        *)
(***************************************************************************)
EXTENDS PacketSession, TLAPS

\* A thread waiting for the answer to a rekey holds the control lock, and
\* nobody has allocated a message ID since it did.
LockInv ==
  \A t \in Threads : pc[t] = "rekeyWait" =>
    ctlLock = t /\ nextId = loc[t].id + 1

\* The message IDs below the counter were given out once, the others never.
IdInv == \A i \in Ids : requests[i] = IF i < nextId THEN 1 ELSE 0

\* The CHILD_SAs in use, or about to be, were created by the ePDG, and those
\* about to be installed have not been used and are all different.
ChildInv ==
  /\ child <= created
  /\ \A t \in Threads : pc[t] = "rekeyInstall" =>
       loc[t].child <= created /\ loc[t].child # child
  /\ \A t, u \in Threads :
       pc[t] = "rekeyInstall" /\ pc[u] = "rekeyInstall" /\ t # u
         => loc[t].child # loc[u].child

\* A sealed packet belongs to an existing CHILD_SA that no thread is about to
\* install, and is counted by the sequence counter if the CHILD_SA is in use.
SealInv ==
  \A c \in Children, s \in 1 .. MaxSeq : <<c, s>> \in sealed =>
    /\ c <= created
    /\ c = child => s <= sequence
    /\ \A t \in Threads : pc[t] = "rekeyInstall" => loc[t].child # c

\* The probe budget is exhausted only when the peer has been declared dead.
LiveInv == ~ live.dead => live.missed < MaxMissed

\* The inductive invariant.
IInv == TypeOK /\ LockInv /\ IdInv /\ ChildInv /\ SealInv /\ LiveInv

-----------------------------------------------------------------------------
(* Types.                                                                  *)

Results == [ike : BOOLEAN, ipsec : BOOLEAN, ready : BOOLEAN,
            child : Children, inner : Addresses]

LiveStates == [outstanding : BOOLEAN, missed : 0 .. MaxMissed, dead : BOOLEAN]

\* The state of the liveness check after a packet of the peer.
LEMMA HeardType == Heard \in LiveStates
<1>1. 0 \in 0 .. MaxMissed
  BY BoundsAssumption
<1> QED BY <1>1, Zenon DEF Heard, LiveStates

\* Installing a CHILD_SA keeps the type of the session.
LEMMA RekeyInstallType ==
  ASSUME IInv, NEW t \in Threads, RekeyInstall(t)
  PROVE  SessionType'
<1>1. loc[t].child \in Children /\ loc[t].inner \in Addresses
  BY DEF IInv, TypeOK, ThreadType
<1>2. result \in Results
  BY DEF IInv, TypeOK, SessionType, Results
<1> DEFINE addr == IF loc[t].inner # NoInner THEN loc[t].inner ELSE result.inner
<1>3. addr \in Addresses
  BY <1>1, <1>2 DEF Results
<1>4. result' = [result EXCEPT !.ike = TRUE, !.ipsec = TRUE, !.ready = TRUE,
                              !.child = loc[t].child, !.inner = addr]
  BY DEF RekeyInstall
<1> HIDE DEF addr
<1>5. result' \in Results
  BY <1>1, <1>2, <1>3, <1>4 DEF Results
<1>6. closed' \in BOOLEAN /\ child' \in Children /\ sequence' \in 0 .. MaxSeq
  BY <1>1, BoundsAssumption DEF RekeyInstall, IInv, TypeOK, SessionType
<1> QED BY <1>5, <1>6 DEF SessionType, Results

\* A probe keeps the missed probes within the budget.
LEMMA ProbeType ==
  ASSUME IInv, NEW t \in Threads, LivenessProbe(t)
  PROVE  LiveType'
<1>1. live \in LiveStates
  BY DEF IInv, TypeOK, LiveType, LiveStates
<1>2. CASE live' = [live EXCEPT !.outstanding = TRUE]
  BY <1>1, <1>2 DEF LiveType, LiveStates
<1>3. CASE /\ live.missed + 1 < MaxMissed
           /\ live' = [live EXCEPT !.missed = live.missed + 1]
  BY <1>1, <1>3, BoundsAssumption DEF LiveType, LiveStates
<1> QED BY <1>2, <1>3 DEF LivenessProbe

\* So does the deadline of the last one.
LEMMA DeclareDeadType ==
  ASSUME IInv, NEW t \in Threads, LivenessDeclareDead(t)
  PROVE  LiveType'
<1>1. live \in LiveStates /\ live.missed < MaxMissed
  BY DEF IInv, TypeOK, LiveType, LiveStates, LiveInv, LivenessDeclareDead
<1>2. live.missed + 1 \in 0 .. MaxMissed
  BY <1>1, BoundsAssumption DEF LiveStates
<1>3. live' = [live EXCEPT !.missed = live.missed + 1, !.dead = TRUE]
  BY DEF LivenessDeclareDead
<1> QED BY <1>1, <1>2, <1>3 DEF LiveType, LiveStates

\* So does the failure of an exchange.
LEMMA RecordFailureType ==
  ASSUME IInv, NEW t \in Threads, DpdRecordFailure(t)
  PROVE  LiveType'
<1>1. live \in LiveStates
  BY DEF IInv, TypeOK, LiveType, LiveStates
<1>2. CASE live' = live
  BY <1>1, <1>2 DEF LiveType, LiveStates
<1>3. CASE ~ (~ live.outstanding \/ live.dead)
  <2>1. live.missed < MaxMissed
    BY <1>3 DEF IInv, LiveInv
  <2>2. live.missed + 1 \in 0 .. MaxMissed
    BY <1>1, <2>1, BoundsAssumption DEF LiveStates
  <2>3. live' = [live EXCEPT !.missed = live.missed + 1,
                             !.dead = (live.missed + 1 >= MaxMissed)]
    BY <1>3 DEF DpdRecordFailure
  <2>4. (live.missed + 1 >= MaxMissed) \in BOOLEAN
    OBVIOUS
  <2> QED BY <1>1, <2>2, <2>3, <2>4, Zenon DEF LiveType, LiveStates
<1> QED BY <1>2, <1>3 DEF DpdRecordFailure

\* The answer to a rekey names a CHILD_SA.
LEMMA RekeySucceedsType ==
  ASSUME IInv, NEW t \in Threads, RekeySucceeds(t)
  PROVE  ThreadType'
<1>1. PICK a \in Addresses :
        loc' = [loc EXCEPT ![t] = [loc[t] EXCEPT !.child = created + 1, !.inner = a]]
  BY DEF RekeySucceeds, IInv, TypeOK, ThreadType
<1>2. created + 1 \in Children
  BY BoundsAssumption
     DEF RekeySucceeds, CanCreateChild, IInv, TypeOK, ControlType, Children
<1>3. loc' \in [Threads -> [id : 0 .. MaxId, child : Children, inner : Addresses]]
  BY <1>1, <1>2 DEF IInv, TypeOK, ThreadType
<1>4. pc' \in [Threads -> Steps]
  BY DEF RekeySucceeds, Goto, IInv, TypeOK, ThreadType, Steps
<1> QED BY <1>3, <1>4 DEF ThreadType

\* Both outcomes of the snapshot are steps of a thread.
LEMMA SnapshotType ==
  ASSUME IInv, NEW t \in Threads, DpdSnapshot(t)
  PROVE  ThreadType'
<1>1. CASE Goto(t, "markDead") /\ UNCHANGED loc
  BY <1>1 DEF Goto, IInv, TypeOK, ThreadType, Steps
<1>2. CASE Return(t)
  BY <1>2, InnerAssumption, BoundsAssumption
     DEF Return, Goto, NoLocals, IInv, TypeOK, ThreadType, Steps, Idle,
         Children, Addresses
<1> QED BY <1>1, <1>2 DEF DpdSnapshot

\* Every step keeps the type of the session.
LEMMA SessionTypeStep ==
  ASSUME IInv, NEW t \in Threads, Step(t)
  PROVE  SessionType'
<1>1. CASE RekeyInstall(t)
  BY <1>1, RekeyInstallType
<1>2. CASE RekeyStart(t) \/ RekeyAllocate(t) \/ RekeySucceeds(t) \/ RekeyFails(t) \/
           RekeyDiscard(t)
  BY <1>2, BoundsAssumption, InnerAssumption
     DEF RekeyStart, RekeyAllocate, RekeySucceeds, RekeyFails, RekeyDiscard,
         Goto, Return, AllocateId, CanCreateChild, sessionVars, controlVars,
         peerVars, historyVars, PeerAnswers, NoLocals, IInv, TypeOK,
         SessionType, ThreadType, Children, Addresses
<1>3. CASE MobikeApply(t)
  BY <1>3, BoundsAssumption, InnerAssumption
     DEF MobikeApply, Return, controlVars, peerVars, historyVars, Goto,
         NoLocals, IInv, TypeOK, SessionType, ThreadType, Children, Addresses
<1>4. CASE MobikeStart(t) \/ MobikeSend(t) \/ MobikeSucceeds(t) \/ MobikeFails(t)
  BY <1>4, BoundsAssumption, InnerAssumption
     DEF MobikeStart, MobikeSend, MobikeSucceeds, MobikeFails, Goto, Return,
         AllocateId, PeerAnswers, sessionVars, controlVars, peerVars,
         historyVars, NoLocals, IInv, TypeOK, SessionType, ThreadType,
         Children, Addresses
<1>5. CASE MarkTunnelNotReady(t)
  BY <1>5, BoundsAssumption, InnerAssumption
     DEF MarkTunnelNotReady, Return, controlVars, peerVars, historyVars,
         Goto, NoLocals, IInv, TypeOK, SessionType, ThreadType, Children,
         Addresses
<1>6. CASE LivenessProbe(t) \/ LivenessDeclareDead(t) \/ DpdSend(t) \/
           DpdReturns(t) \/ DpdRecordAnswer(t) \/ DpdRecordFailure(t) \/
           DpdSnapshot(t)
  BY <1>6, BoundsAssumption, InnerAssumption
     DEF LivenessProbe, LivenessDeclareDead, DpdSend, DpdReturns,
         DpdRecordAnswer, DpdRecordFailure, DpdSnapshot, Goto, Return,
         AllocateId, Heard, PeerAnswers, sessionVars, controlVars, peerVars,
         historyVars, NoLocals, IInv, TypeOK, SessionType, ThreadType,
         Children, Addresses
<1>7. CASE CloseStart(t) \/ CloseSend(t) \/ CloseReturns(t) \/ CloseEsp(t)
  BY <1>7, BoundsAssumption, InnerAssumption
     DEF CloseStart, CloseSend, CloseReturns, CloseEsp, Goto, Return,
         AllocateId, PeerAnswers, sessionVars, controlVars, peerVars,
         historyVars, NoLocals, IInv, TypeOK, SessionType, ThreadType,
         Children, Addresses
<1>8. CASE SendInnerPacket(t)
  BY <1>8, BoundsAssumption, InnerAssumption
     DEF SendInnerPacket, controlVars, peerVars, IInv, TypeOK, SessionType,
         ThreadType, Children, Addresses
<1>9. CASE ReceiveESPPacket(t)
  BY <1>9, BoundsAssumption, InnerAssumption
     DEF ReceiveESPPacket, Heard, controlVars, peerVars, historyVars, IInv,
         TypeOK, SessionType, ThreadType, Children, Addresses
<1> QED BY <1>1, <1>2, <1>3, <1>4, <1>5, <1>6, <1>7, <1>8, <1>9
     DEF Step, Rekey, Mobike, Liveness, Close

\* Every step keeps the type of the liveness state.
LEMMA LiveTypeStep ==
  ASSUME IInv, NEW t \in Threads, Step(t)
  PROVE  LiveType'
<1>1. CASE RekeyStart(t) \/ RekeyAllocate(t) \/ RekeySucceeds(t) \/ RekeyFails(t) \/
           RekeyInstall(t) \/ RekeyDiscard(t)
  BY <1>1
     DEF RekeyStart, RekeyAllocate, RekeySucceeds, RekeyFails, RekeyInstall,
         RekeyDiscard, Goto, Return, AllocateId, CanCreateChild, sessionVars,
         controlVars, peerVars, historyVars, PeerAnswers, NoLocals, IInv,
         TypeOK, LiveType
<1>2. CASE MobikeStart(t) \/ MobikeSend(t) \/ MobikeSucceeds(t) \/ MobikeFails(t) \/
           MobikeApply(t)
  BY <1>2
     DEF MobikeStart, MobikeSend, MobikeSucceeds, MobikeFails, MobikeApply,
         Goto, Return, AllocateId, PeerAnswers, sessionVars, controlVars,
         peerVars, historyVars, NoLocals, IInv, TypeOK, LiveType
<1>3. CASE LivenessProbe(t)
  BY <1>3, ProbeType
<1>4. CASE LivenessDeclareDead(t)
  BY <1>4, DeclareDeadType
<1>5. CASE DpdRecordAnswer(t)
  BY <1>5, HeardType DEF DpdRecordAnswer, LiveType, LiveStates
<1>6. CASE DpdRecordFailure(t)
  BY <1>6, RecordFailureType
<1>7. CASE DpdSend(t) \/ DpdReturns(t) \/ DpdSnapshot(t) \/ MarkTunnelNotReady(t)
  BY <1>7
     DEF DpdSend, DpdReturns, DpdSnapshot, MarkTunnelNotReady, Goto, Return,
         AllocateId, PeerAnswers, sessionVars, controlVars, peerVars,
         historyVars, NoLocals, IInv, TypeOK, LiveType
<1>8. CASE CloseStart(t) \/ CloseSend(t) \/ CloseReturns(t) \/ CloseEsp(t)
  BY <1>8
     DEF CloseStart, CloseSend, CloseReturns, CloseEsp, Goto, Return,
         AllocateId, PeerAnswers, sessionVars, controlVars, peerVars,
         historyVars, NoLocals, IInv, TypeOK, LiveType
<1>9. CASE ReceiveESPPacket(t)
  BY <1>9, HeardType DEF ReceiveESPPacket, LiveType, LiveStates
<1>10. CASE SendInnerPacket(t)
  BY <1>10
     DEF SendInnerPacket, controlVars, peerVars, IInv, TypeOK, LiveType
<1> QED BY <1>1, <1>2, <1>3, <1>4, <1>5, <1>6, <1>7, <1>8, <1>9, <1>10
     DEF Step, Rekey, Mobike, Liveness, Close

\* Every step keeps the types of the control plane and of the ePDG.
LEMMA ControlTypeStep ==
  ASSUME IInv, NEW t \in Threads, Step(t)
  PROVE  ControlType'
<1>1. CASE RekeyAllocate(t)
  BY <1>1, BoundsAssumption
     DEF RekeyAllocate, Goto, AllocateId, sessionVars, peerVars, IInv,
         TypeOK, ControlType, ThreadType, Children, Ids
<1>2. CASE RekeySucceeds(t)
  BY <1>2, BoundsAssumption
     DEF RekeySucceeds, Goto, CanCreateChild, sessionVars, historyVars,
         PeerAnswers, IInv, TypeOK, ControlType, ThreadType, Children, Ids
<1>3. CASE RekeyFails(t)
  BY <1>3, BoundsAssumption
     DEF RekeyFails, Return, CanCreateChild, sessionVars, historyVars,
         PeerAnswers, Goto, NoLocals, IInv, TypeOK, ControlType, ThreadType,
         Children, Ids
<1>4. CASE RekeyStart(t) \/ RekeyInstall(t) \/ RekeyDiscard(t)
  BY <1>4, BoundsAssumption
     DEF RekeyStart, RekeyInstall, RekeyDiscard, Goto, Return, sessionVars,
         controlVars, peerVars, historyVars, NoLocals, IInv, TypeOK,
         ControlType, ThreadType, Children, Ids
<1>5. CASE MobikeStart(t) \/ MobikeSend(t) \/ MobikeSucceeds(t) \/ MobikeFails(t) \/
           MobikeApply(t)
  BY <1>5, BoundsAssumption
     DEF MobikeStart, MobikeSend, MobikeSucceeds, MobikeFails, MobikeApply,
         Goto, Return, AllocateId, PeerAnswers, sessionVars, controlVars,
         peerVars, historyVars, NoLocals, IInv, TypeOK, ControlType,
         ThreadType, Children, Ids
<1>6. CASE LivenessProbe(t) \/ LivenessDeclareDead(t) \/ DpdSend(t) \/
           DpdReturns(t) \/ DpdRecordAnswer(t) \/ DpdRecordFailure(t) \/
           DpdSnapshot(t) \/ MarkTunnelNotReady(t)
  BY <1>6, BoundsAssumption
     DEF LivenessProbe, LivenessDeclareDead, DpdSend, DpdReturns,
         DpdRecordAnswer, DpdRecordFailure, DpdSnapshot, MarkTunnelNotReady,
         Goto, Return, AllocateId, Heard, PeerAnswers, sessionVars,
         controlVars, peerVars, historyVars, NoLocals, IInv, TypeOK,
         ControlType, ThreadType, Children, Ids
<1>7. CASE CloseSend(t)
  BY <1>7, BoundsAssumption
     DEF CloseSend, Goto, AllocateId, sessionVars, peerVars, IInv, TypeOK,
         ControlType, ThreadType, Children, Ids
<1>8. CASE CloseReturns(t)
  BY <1>8, BoundsAssumption
     DEF CloseReturns, Goto, PeerAnswers, sessionVars, historyVars, IInv,
         TypeOK, ControlType, ThreadType, Children, Ids
<1>9. CASE CloseEsp(t)
  BY <1>9, BoundsAssumption
     DEF CloseEsp, Return, sessionVars, peerVars, historyVars, Goto,
         NoLocals, IInv, TypeOK, ControlType, ThreadType, Children, Ids
<1>10. CASE CloseStart(t)
  BY <1>10, BoundsAssumption
     DEF CloseStart, Goto, controlVars, peerVars, historyVars, IInv, TypeOK,
         ControlType, ThreadType, Children, Ids
<1>11. CASE SendInnerPacket(t) \/ ReceiveESPPacket(t)
  BY <1>11, BoundsAssumption
     DEF SendInnerPacket, ReceiveESPPacket, Heard, controlVars, peerVars,
         historyVars, IInv, TypeOK, ControlType, ThreadType, Children, Ids
<1> QED BY <1>1, <1>2, <1>3, <1>4, <1>5, <1>6, <1>7, <1>8, <1>9, <1>10, <1>11
     DEF Step, Rekey, Mobike, Liveness, Close

\* Every step keeps the types of the threads.
LEMMA ThreadTypeStep ==
  ASSUME IInv, NEW t \in Threads, Step(t)
  PROVE  ThreadType'
<1>1. CASE RekeyAllocate(t)
  BY <1>1, BoundsAssumption, InnerAssumption
     DEF RekeyAllocate, Goto, AllocateId, sessionVars, peerVars, IInv,
         TypeOK, ThreadType, SessionType, ControlType, Steps, Idle, Children,
         Ids, Addresses
<1>2. CASE RekeySucceeds(t)
  BY <1>2, RekeySucceedsType
<1>3. CASE RekeyStart(t) \/ RekeyFails(t) \/ RekeyInstall(t) \/ RekeyDiscard(t)
  BY <1>3, BoundsAssumption, InnerAssumption
     DEF RekeyStart, RekeyFails, RekeyInstall, RekeyDiscard, Goto, Return,
         CanCreateChild, sessionVars, controlVars, peerVars, historyVars,
         PeerAnswers, NoLocals, IInv, TypeOK, ThreadType, SessionType,
         ControlType, Steps, Idle, Children, Ids, Addresses
<1>4. CASE MobikeStart(t)
  BY <1>4, BoundsAssumption, InnerAssumption
     DEF MobikeStart, Goto, sessionVars, controlVars, peerVars, historyVars,
         IInv, TypeOK, ThreadType, SessionType, ControlType, Steps, Idle,
         Children, Ids, Addresses
<1>5. CASE MobikeSend(t)
  BY <1>5, BoundsAssumption, InnerAssumption
     DEF MobikeSend, Goto, AllocateId, sessionVars, peerVars, IInv, TypeOK,
         ThreadType, SessionType, ControlType, Steps, Idle, Children, Ids,
         Addresses
<1>6. CASE MobikeSucceeds(t)
  BY <1>6, BoundsAssumption, InnerAssumption
     DEF MobikeSucceeds, Goto, PeerAnswers, sessionVars, controlVars,
         peerVars, historyVars, IInv, TypeOK, ThreadType, SessionType,
         ControlType, Steps, Idle, Children, Ids, Addresses
<1>7. CASE MobikeFails(t) \/ MobikeApply(t)
  BY <1>7, BoundsAssumption, InnerAssumption
     DEF MobikeFails, MobikeApply, Return, sessionVars, controlVars,
         peerVars, historyVars, Goto, NoLocals, IInv, TypeOK, ThreadType,
         SessionType, ControlType, Steps, Idle, Children, Ids, Addresses
<1>8. CASE DpdSend(t)
  BY <1>8, BoundsAssumption, InnerAssumption
     DEF DpdSend, Goto, AllocateId, sessionVars, peerVars, IInv, TypeOK,
         ThreadType, SessionType, ControlType, Steps, Idle, Children, Ids,
         Addresses
<1>9. CASE DpdSnapshot(t)
  BY <1>9, SnapshotType
<1>10. CASE LivenessProbe(t) \/ LivenessDeclareDead(t) \/ DpdReturns(t) \/
            DpdRecordAnswer(t) \/ DpdRecordFailure(t) \/ MarkTunnelNotReady(t)
  BY <1>10, BoundsAssumption, InnerAssumption
     DEF LivenessProbe, LivenessDeclareDead, DpdReturns, DpdRecordAnswer,
         DpdRecordFailure, MarkTunnelNotReady, Goto, Return, Heard,
         PeerAnswers, sessionVars, controlVars, peerVars, historyVars,
         NoLocals, IInv, TypeOK, ThreadType, SessionType, ControlType, Steps,
         Idle, Children, Ids, Addresses
<1>11. CASE CloseSend(t)
  BY <1>11, BoundsAssumption, InnerAssumption
     DEF CloseSend, Goto, AllocateId, sessionVars, peerVars, IInv, TypeOK,
         ThreadType, SessionType, ControlType, Steps, Idle, Children, Ids,
         Addresses
<1>12. CASE CloseReturns(t)
  BY <1>12, BoundsAssumption, InnerAssumption
     DEF CloseReturns, Goto, PeerAnswers, sessionVars, historyVars, IInv,
         TypeOK, ThreadType, SessionType, ControlType, Steps, Idle, Children,
         Ids, Addresses
<1>13. CASE CloseEsp(t)
  BY <1>13, BoundsAssumption, InnerAssumption
     DEF CloseEsp, Return, sessionVars, peerVars, historyVars, Goto,
         NoLocals, IInv, TypeOK, ThreadType, SessionType, ControlType, Steps,
         Idle, Children, Ids, Addresses
<1>14. CASE CloseStart(t)
  BY <1>14, BoundsAssumption, InnerAssumption
     DEF CloseStart, Goto, controlVars, peerVars, historyVars, IInv, TypeOK,
         ThreadType, SessionType, ControlType, Steps, Idle, Children, Ids,
         Addresses
<1>15. CASE SendInnerPacket(t) \/ ReceiveESPPacket(t)
  BY <1>15, BoundsAssumption, InnerAssumption
     DEF SendInnerPacket, ReceiveESPPacket, Heard, controlVars, peerVars,
         historyVars, IInv, TypeOK, ThreadType, SessionType, ControlType,
         Steps, Idle, Children, Ids, Addresses
<1> QED BY <1>1, <1>2, <1>3, <1>4, <1>5, <1>6, <1>7, <1>8, <1>9, <1>10,
           <1>11, <1>12, <1>13, <1>14, <1>15
     DEF Step, Rekey, Mobike, Liveness, Close

\* A message ID that is handed out is counted.
LEMMA AllocateHistory ==
  ASSUME IInv, NEW t \in Threads, AllocateId(t), UNCHANGED sealed
  PROVE  HistoryType'
<1>1. nextId \in Ids /\ requests \in [Ids -> Nat]
  BY BoundsAssumption DEF IInv, TypeOK, ControlType, HistoryType, AllocateId, Ids
<1>2. requests' \in [Ids -> Nat]
  BY <1>1 DEF AllocateId
<1> QED BY <1>2 DEF IInv, TypeOK, HistoryType

\* Every step keeps the types of the histories.
LEMMA HistoryTypeStep ==
  ASSUME IInv, NEW t \in Threads, Step(t)
  PROVE  HistoryType'
<1>1. CASE RekeyAllocate(t)
  BY <1>1, AllocateHistory DEF RekeyAllocate
<1>2. CASE RekeyStart(t) \/ RekeySucceeds(t) \/ RekeyFails(t) \/ RekeyInstall(t) \/
           RekeyDiscard(t)
  BY <1>2, BoundsAssumption
     DEF RekeyStart, RekeySucceeds, RekeyFails, RekeyInstall, RekeyDiscard,
         Goto, Return, CanCreateChild, sessionVars, controlVars, peerVars,
         historyVars, PeerAnswers, NoLocals, IInv, TypeOK, HistoryType,
         SessionType, ControlType, Children, Ids
<1>3. CASE MobikeSend(t)
  BY <1>3, AllocateHistory DEF MobikeSend
<1>4. CASE MobikeStart(t) \/ MobikeSucceeds(t) \/ MobikeFails(t) \/ MobikeApply(t)
  BY <1>4, BoundsAssumption
     DEF MobikeStart, MobikeSucceeds, MobikeFails, MobikeApply, Goto, Return,
         PeerAnswers, sessionVars, controlVars, peerVars, historyVars,
         NoLocals, IInv, TypeOK, HistoryType, SessionType, ControlType,
         Children, Ids
<1>5. CASE DpdSend(t)
  BY <1>5, AllocateHistory DEF DpdSend
<1>6. CASE LivenessProbe(t) \/ LivenessDeclareDead(t) \/ DpdReturns(t) \/
           DpdRecordAnswer(t) \/ DpdRecordFailure(t) \/ DpdSnapshot(t) \/
           MarkTunnelNotReady(t)
  BY <1>6, BoundsAssumption
     DEF LivenessProbe, LivenessDeclareDead, DpdReturns, DpdRecordAnswer,
         DpdRecordFailure, DpdSnapshot, MarkTunnelNotReady, Goto, Return,
         Heard, PeerAnswers, sessionVars, controlVars, peerVars, historyVars,
         NoLocals, IInv, TypeOK, HistoryType, SessionType, ControlType,
         Children, Ids
<1>7. CASE CloseSend(t)
  BY <1>7, AllocateHistory DEF CloseSend
<1>8. CASE CloseStart(t) \/ CloseReturns(t) \/ CloseEsp(t)
  BY <1>8, BoundsAssumption
     DEF CloseStart, CloseReturns, CloseEsp, Goto, Return, PeerAnswers,
         sessionVars, controlVars, peerVars, historyVars, NoLocals, IInv,
         TypeOK, HistoryType, SessionType, ControlType, Children, Ids
<1>9. CASE SendInnerPacket(t)
  BY <1>9, BoundsAssumption
     DEF SendInnerPacket, controlVars, peerVars, IInv, TypeOK, HistoryType,
         SessionType, ControlType, Children, Ids
<1>10. CASE ReceiveESPPacket(t)
  BY <1>10, BoundsAssumption
     DEF ReceiveESPPacket, Heard, controlVars, peerVars, historyVars, IInv,
         TypeOK, HistoryType, SessionType, ControlType, Children, Ids
<1> QED BY <1>1, <1>2, <1>3, <1>4, <1>5, <1>6, <1>7, <1>8, <1>9, <1>10
     DEF Step, Rekey, Mobike, Liveness, Close

-----------------------------------------------------------------------------
(* The other parts of the invariant.                                       *)

\* The budget is exhausted only by a step that declares the peer dead.
LEMMA LiveStep ==
  ASSUME IInv, NEW t \in Threads, Step(t)
  PROVE  LiveInv'
<1>1. CASE RekeyStart(t) \/ RekeyAllocate(t) \/ RekeySucceeds(t) \/ RekeyFails(t) \/
           RekeyInstall(t) \/ RekeyDiscard(t)
  BY <1>1, BoundsAssumption
     DEF RekeyStart, RekeyAllocate, RekeySucceeds, RekeyFails, RekeyInstall,
         RekeyDiscard, Goto, Return, AllocateId, CanCreateChild, sessionVars,
         controlVars, peerVars, historyVars, PeerAnswers, NoLocals, IInv,
         TypeOK, LiveType, LiveInv
<1>2. CASE MobikeStart(t) \/ MobikeSend(t) \/ MobikeSucceeds(t) \/ MobikeFails(t) \/
           MobikeApply(t)
  BY <1>2, BoundsAssumption
     DEF MobikeStart, MobikeSend, MobikeSucceeds, MobikeFails, MobikeApply,
         Goto, Return, AllocateId, PeerAnswers, sessionVars, controlVars,
         peerVars, historyVars, NoLocals, IInv, TypeOK, LiveType, LiveInv
<1>3. CASE LivenessProbe(t)
  BY <1>3, BoundsAssumption
     DEF LivenessProbe, Goto, controlVars, peerVars, historyVars, IInv,
         TypeOK, LiveType, LiveInv
<1>4. CASE LivenessDeclareDead(t)
  BY <1>4, BoundsAssumption
     DEF LivenessDeclareDead, Goto, controlVars, peerVars, historyVars, IInv,
         TypeOK, LiveType, LiveInv
<1>5. CASE DpdRecordAnswer(t)
  BY <1>5, BoundsAssumption
     DEF DpdRecordAnswer, Return, Heard, controlVars, peerVars, historyVars,
         Goto, NoLocals, IInv, TypeOK, LiveType, LiveInv
<1>6. CASE DpdRecordFailure(t)
  BY <1>6, BoundsAssumption
     DEF DpdRecordFailure, Goto, controlVars, peerVars, historyVars, IInv,
         TypeOK, LiveType, LiveInv
<1>7. CASE DpdSend(t) \/ DpdReturns(t) \/ DpdSnapshot(t) \/ MarkTunnelNotReady(t)
  BY <1>7, BoundsAssumption
     DEF DpdSend, DpdReturns, DpdSnapshot, MarkTunnelNotReady, Goto, Return,
         AllocateId, PeerAnswers, sessionVars, controlVars, peerVars,
         historyVars, NoLocals, IInv, TypeOK, LiveType, LiveInv
<1>8. CASE CloseStart(t) \/ CloseSend(t) \/ CloseReturns(t) \/ CloseEsp(t)
  BY <1>8, BoundsAssumption
     DEF CloseStart, CloseSend, CloseReturns, CloseEsp, Goto, Return,
         AllocateId, PeerAnswers, sessionVars, controlVars, peerVars,
         historyVars, NoLocals, IInv, TypeOK, LiveType, LiveInv
<1>9. CASE ReceiveESPPacket(t)
  BY <1>9, BoundsAssumption
     DEF ReceiveESPPacket, Heard, controlVars, peerVars, historyVars, IInv,
         TypeOK, LiveType, LiveInv
<1>10. CASE SendInnerPacket(t)
  BY <1>10, BoundsAssumption
     DEF SendInnerPacket, controlVars, peerVars, IInv, TypeOK, LiveType,
         LiveInv
<1> QED BY <1>1, <1>2, <1>3, <1>4, <1>5, <1>6, <1>7, <1>8, <1>9, <1>10
     DEF Step, Rekey, Mobike, Liveness, Close

\* The control lock protects the message ID of a rekey.
LEMMA LockStep ==
  ASSUME IInv, NEW t \in Threads, Step(t)
  PROVE  LockInv'
<1>1. CASE RekeyAllocate(t)
  BY <1>1, ThreadsAssumption
     DEF RekeyAllocate, Goto, AllocateId, sessionVars, peerVars, IInv,
         TypeOK, ControlType, ThreadType, LockInv, Idle, Ids
<1>2. CASE RekeySucceeds(t)
  BY <1>2, ThreadsAssumption
     DEF RekeySucceeds, Goto, CanCreateChild, sessionVars, historyVars,
         PeerAnswers, IInv, TypeOK, ControlType, ThreadType, LockInv, Idle,
         Ids
<1>3. CASE RekeyFails(t)
  BY <1>3, ThreadsAssumption
     DEF RekeyFails, Return, CanCreateChild, sessionVars, historyVars,
         PeerAnswers, Goto, NoLocals, IInv, TypeOK, ControlType, ThreadType,
         LockInv, Idle, Ids
<1>4. CASE RekeyStart(t) \/ RekeyInstall(t) \/ RekeyDiscard(t)
  BY <1>4, ThreadsAssumption
     DEF RekeyStart, RekeyInstall, RekeyDiscard, Goto, Return, sessionVars,
         controlVars, peerVars, historyVars, NoLocals, IInv, TypeOK,
         ControlType, ThreadType, LockInv, Idle, Ids
<1>5. CASE MobikeSend(t)
  BY <1>5, ThreadsAssumption
     DEF MobikeSend, Goto, AllocateId, sessionVars, peerVars, IInv, TypeOK,
         ControlType, ThreadType, LockInv, Idle, Ids
<1>6. CASE MobikeStart(t) \/ MobikeSucceeds(t) \/ MobikeFails(t) \/ MobikeApply(t)
  BY <1>6, ThreadsAssumption
     DEF MobikeStart, MobikeSucceeds, MobikeFails, MobikeApply, Goto, Return,
         PeerAnswers, sessionVars, controlVars, peerVars, historyVars,
         NoLocals, IInv, TypeOK, ControlType, ThreadType, LockInv, Idle, Ids
<1>7. CASE DpdSend(t)
  BY <1>7, ThreadsAssumption
     DEF DpdSend, Goto, AllocateId, sessionVars, peerVars, IInv, TypeOK,
         ControlType, ThreadType, LockInv, Idle, Ids
<1>8. CASE LivenessProbe(t) \/ LivenessDeclareDead(t) \/ DpdReturns(t) \/
           DpdRecordAnswer(t) \/ DpdRecordFailure(t) \/ DpdSnapshot(t) \/
           MarkTunnelNotReady(t)
  BY <1>8, ThreadsAssumption
     DEF LivenessProbe, LivenessDeclareDead, DpdReturns, DpdRecordAnswer,
         DpdRecordFailure, DpdSnapshot, MarkTunnelNotReady, Goto, Return,
         Heard, PeerAnswers, sessionVars, controlVars, peerVars, historyVars,
         NoLocals, IInv, TypeOK, ControlType, ThreadType, LockInv, Idle, Ids
<1>9. CASE CloseSend(t)
  BY <1>9, ThreadsAssumption
     DEF CloseSend, Goto, AllocateId, sessionVars, peerVars, IInv, TypeOK,
         ControlType, ThreadType, LockInv, Idle, Ids
<1>10. CASE CloseStart(t) \/ CloseReturns(t) \/ CloseEsp(t)
  BY <1>10, ThreadsAssumption
     DEF CloseStart, CloseReturns, CloseEsp, Goto, Return, PeerAnswers,
         sessionVars, controlVars, peerVars, historyVars, NoLocals, IInv,
         TypeOK, ControlType, ThreadType, LockInv, Idle, Ids
<1>11. CASE SendInnerPacket(t) \/ ReceiveESPPacket(t)
  BY <1>11, ThreadsAssumption
     DEF SendInnerPacket, ReceiveESPPacket, Heard, controlVars, peerVars,
         historyVars, IInv, TypeOK, ControlType, ThreadType, LockInv, Idle,
         Ids
<1> QED BY <1>1, <1>2, <1>3, <1>4, <1>5, <1>6, <1>7, <1>8, <1>9, <1>10, <1>11
     DEF Step, Rekey, Mobike, Liveness, Close

\* The counter separates the message IDs used from the others; the rekey
\* that assigns it again assigns the value it has.
LEMMA IdStep ==
  ASSUME IInv, NEW t \in Threads, Step(t)
  PROVE  IdInv'
<1>1. CASE RekeyAllocate(t)
  BY <1>1, BoundsAssumption
     DEF RekeyAllocate, Goto, AllocateId, sessionVars, peerVars, IInv,
         TypeOK, ControlType, ThreadType, HistoryType, LockInv, IdInv, Ids
<1>2. CASE RekeySucceeds(t)
  BY <1>2, BoundsAssumption
     DEF RekeySucceeds, Goto, CanCreateChild, sessionVars, historyVars,
         PeerAnswers, IInv, TypeOK, ControlType, ThreadType, HistoryType,
         LockInv, IdInv, Ids
<1>3. CASE RekeyStart(t) \/ RekeyFails(t) \/ RekeyInstall(t) \/ RekeyDiscard(t)
  BY <1>3, BoundsAssumption
     DEF RekeyStart, RekeyFails, RekeyInstall, RekeyDiscard, Goto, Return,
         CanCreateChild, sessionVars, controlVars, peerVars, historyVars,
         PeerAnswers, NoLocals, IInv, TypeOK, ControlType, ThreadType,
         HistoryType, LockInv, IdInv, Ids
<1>4. CASE MobikeSend(t)
  BY <1>4, BoundsAssumption
     DEF MobikeSend, Goto, AllocateId, sessionVars, peerVars, IInv, TypeOK,
         ControlType, ThreadType, HistoryType, LockInv, IdInv, Ids
<1>5. CASE MobikeStart(t) \/ MobikeSucceeds(t) \/ MobikeFails(t) \/ MobikeApply(t)
  BY <1>5, BoundsAssumption
     DEF MobikeStart, MobikeSucceeds, MobikeFails, MobikeApply, Goto, Return,
         PeerAnswers, sessionVars, controlVars, peerVars, historyVars,
         NoLocals, IInv, TypeOK, ControlType, ThreadType, HistoryType,
         LockInv, IdInv, Ids
<1>6. CASE DpdSend(t)
  BY <1>6, BoundsAssumption
     DEF DpdSend, Goto, AllocateId, sessionVars, peerVars, IInv, TypeOK,
         ControlType, ThreadType, HistoryType, LockInv, IdInv, Ids
<1>7. CASE LivenessProbe(t) \/ LivenessDeclareDead(t) \/ DpdReturns(t) \/
           DpdRecordAnswer(t) \/ DpdRecordFailure(t) \/ DpdSnapshot(t) \/
           MarkTunnelNotReady(t)
  BY <1>7, BoundsAssumption
     DEF LivenessProbe, LivenessDeclareDead, DpdReturns, DpdRecordAnswer,
         DpdRecordFailure, DpdSnapshot, MarkTunnelNotReady, Goto, Return,
         Heard, PeerAnswers, sessionVars, controlVars, peerVars, historyVars,
         NoLocals, IInv, TypeOK, ControlType, ThreadType, HistoryType,
         LockInv, IdInv, Ids
<1>8. CASE CloseSend(t)
  BY <1>8, BoundsAssumption
     DEF CloseSend, Goto, AllocateId, sessionVars, peerVars, IInv, TypeOK,
         ControlType, ThreadType, HistoryType, LockInv, IdInv, Ids
<1>9. CASE CloseStart(t) \/ CloseReturns(t) \/ CloseEsp(t)
  BY <1>9, BoundsAssumption
     DEF CloseStart, CloseReturns, CloseEsp, Goto, Return, PeerAnswers,
         sessionVars, controlVars, peerVars, historyVars, NoLocals, IInv,
         TypeOK, ControlType, ThreadType, HistoryType, LockInv, IdInv, Ids
<1>10. CASE SendInnerPacket(t) \/ ReceiveESPPacket(t)
  BY <1>10, BoundsAssumption
     DEF SendInnerPacket, ReceiveESPPacket, Heard, controlVars, peerVars,
         historyVars, IInv, TypeOK, ControlType, ThreadType, HistoryType,
         LockInv, IdInv, Ids
<1> QED BY <1>1, <1>2, <1>3, <1>4, <1>5, <1>6, <1>7, <1>8, <1>9, <1>10
     DEF Step, Rekey, Mobike, Liveness, Close

\* A CHILD_SA to be installed is new.
LEMMA ChildStep ==
  ASSUME IInv, NEW t \in Threads, Step(t)
  PROVE  ChildInv'
<1>1. CASE RekeyAllocate(t)
  BY <1>1, BoundsAssumption
     DEF RekeyAllocate, Goto, AllocateId, sessionVars, peerVars, IInv,
         TypeOK, SessionType, ControlType, ThreadType, ChildInv, Idle,
         Children
<1>2. CASE RekeySucceeds(t)
  BY <1>2, BoundsAssumption
     DEF RekeySucceeds, Goto, CanCreateChild, sessionVars, historyVars,
         PeerAnswers, IInv, TypeOK, SessionType, ControlType, ThreadType,
         ChildInv, Idle, Children
<1>3. CASE RekeyFails(t)
  BY <1>3, BoundsAssumption
     DEF RekeyFails, Return, CanCreateChild, sessionVars, historyVars,
         PeerAnswers, Goto, NoLocals, IInv, TypeOK, SessionType, ControlType,
         ThreadType, ChildInv, Idle, Children
<1>4. CASE RekeyInstall(t)
  BY <1>4, BoundsAssumption
     DEF RekeyInstall, Return, controlVars, peerVars, historyVars, Goto,
         NoLocals, IInv, TypeOK, SessionType, ControlType, ThreadType,
         ChildInv, Idle, Children
<1>5. CASE RekeyStart(t) \/ RekeyDiscard(t)
  BY <1>5, BoundsAssumption
     DEF RekeyStart, RekeyDiscard, Goto, Return, sessionVars, controlVars,
         peerVars, historyVars, NoLocals, IInv, TypeOK, SessionType,
         ControlType, ThreadType, ChildInv, Idle, Children
<1>6. CASE MobikeStart(t) \/ MobikeSend(t) \/ MobikeSucceeds(t) \/ MobikeFails(t) \/
           MobikeApply(t)
  BY <1>6, BoundsAssumption
     DEF MobikeStart, MobikeSend, MobikeSucceeds, MobikeFails, MobikeApply,
         Goto, Return, AllocateId, PeerAnswers, sessionVars, controlVars,
         peerVars, historyVars, NoLocals, IInv, TypeOK, SessionType,
         ControlType, ThreadType, ChildInv, Idle, Children
<1>7. CASE LivenessProbe(t) \/ LivenessDeclareDead(t) \/ DpdSend(t) \/
           DpdReturns(t) \/ DpdRecordAnswer(t) \/ DpdRecordFailure(t) \/
           DpdSnapshot(t) \/ MarkTunnelNotReady(t)
  BY <1>7, BoundsAssumption
     DEF LivenessProbe, LivenessDeclareDead, DpdSend, DpdReturns,
         DpdRecordAnswer, DpdRecordFailure, DpdSnapshot, MarkTunnelNotReady,
         Goto, Return, AllocateId, Heard, PeerAnswers, sessionVars,
         controlVars, peerVars, historyVars, NoLocals, IInv, TypeOK,
         SessionType, ControlType, ThreadType, ChildInv, Idle, Children
<1>8. CASE CloseStart(t) \/ CloseSend(t) \/ CloseReturns(t) \/ CloseEsp(t)
  BY <1>8, BoundsAssumption
     DEF CloseStart, CloseSend, CloseReturns, CloseEsp, Goto, Return,
         AllocateId, PeerAnswers, sessionVars, controlVars, peerVars,
         historyVars, NoLocals, IInv, TypeOK, SessionType, ControlType,
         ThreadType, ChildInv, Idle, Children
<1>9. CASE SendInnerPacket(t) \/ ReceiveESPPacket(t)
  BY <1>9, BoundsAssumption
     DEF SendInnerPacket, ReceiveESPPacket, Heard, controlVars, peerVars,
         historyVars, IInv, TypeOK, SessionType, ControlType, ThreadType,
         ChildInv, Idle, Children
<1> QED BY <1>1, <1>2, <1>3, <1>4, <1>5, <1>6, <1>7, <1>8, <1>9
     DEF Step, Rekey, Mobike, Liveness, Close

\* Packets are sealed only for the CHILD_SA in use, which is never left for
\* one that was in use before.
LEMMA SealStep ==
  ASSUME IInv, NEW t \in Threads, Step(t)
  PROVE  SealInv'
<1>1. CASE RekeySucceeds(t)
  BY <1>1, BoundsAssumption
     DEF RekeySucceeds, Goto, CanCreateChild, sessionVars, historyVars,
         PeerAnswers, IInv, TypeOK, SessionType, ControlType, ThreadType,
         HistoryType, ChildInv, SealInv, Idle, Children
<1>2. CASE RekeyFails(t)
  BY <1>2, BoundsAssumption
     DEF RekeyFails, Return, CanCreateChild, sessionVars, historyVars,
         PeerAnswers, Goto, NoLocals, IInv, TypeOK, SessionType, ControlType,
         ThreadType, HistoryType, ChildInv, SealInv, Idle, Children
<1>3. CASE RekeyInstall(t)
  BY <1>3, BoundsAssumption
     DEF RekeyInstall, Return, controlVars, peerVars, historyVars, Goto,
         NoLocals, IInv, TypeOK, SessionType, ControlType, ThreadType,
         HistoryType, ChildInv, SealInv, Idle, Children
<1>4. CASE RekeyStart(t) \/ RekeyAllocate(t) \/ RekeyDiscard(t)
  BY <1>4, BoundsAssumption
     DEF RekeyStart, RekeyAllocate, RekeyDiscard, Goto, Return, AllocateId,
         sessionVars, controlVars, peerVars, historyVars, NoLocals, IInv,
         TypeOK, SessionType, ControlType, ThreadType, HistoryType, ChildInv,
         SealInv, Idle, Children
<1>5. CASE MobikeStart(t) \/ MobikeSend(t) \/ MobikeSucceeds(t) \/ MobikeFails(t) \/
           MobikeApply(t)
  BY <1>5, BoundsAssumption
     DEF MobikeStart, MobikeSend, MobikeSucceeds, MobikeFails, MobikeApply,
         Goto, Return, AllocateId, PeerAnswers, sessionVars, controlVars,
         peerVars, historyVars, NoLocals, IInv, TypeOK, SessionType,
         ControlType, ThreadType, HistoryType, ChildInv, SealInv, Idle,
         Children
<1>6. CASE LivenessProbe(t) \/ LivenessDeclareDead(t) \/ DpdSend(t) \/
           DpdReturns(t) \/ DpdRecordAnswer(t) \/ DpdRecordFailure(t) \/
           DpdSnapshot(t) \/ MarkTunnelNotReady(t)
  BY <1>6, BoundsAssumption
     DEF LivenessProbe, LivenessDeclareDead, DpdSend, DpdReturns,
         DpdRecordAnswer, DpdRecordFailure, DpdSnapshot, MarkTunnelNotReady,
         Goto, Return, AllocateId, Heard, PeerAnswers, sessionVars,
         controlVars, peerVars, historyVars, NoLocals, IInv, TypeOK,
         SessionType, ControlType, ThreadType, HistoryType, ChildInv,
         SealInv, Idle, Children
<1>7. CASE CloseStart(t) \/ CloseSend(t) \/ CloseReturns(t) \/ CloseEsp(t)
  BY <1>7, BoundsAssumption
     DEF CloseStart, CloseSend, CloseReturns, CloseEsp, Goto, Return,
         AllocateId, PeerAnswers, sessionVars, controlVars, peerVars,
         historyVars, NoLocals, IInv, TypeOK, SessionType, ControlType,
         ThreadType, HistoryType, ChildInv, SealInv, Idle, Children
<1>8. CASE SendInnerPacket(t)
  BY <1>8, BoundsAssumption
     DEF SendInnerPacket, controlVars, peerVars, IInv, TypeOK, SessionType,
         ControlType, ThreadType, HistoryType, ChildInv, SealInv, Idle,
         Children
<1>9. CASE ReceiveESPPacket(t)
  BY <1>9, BoundsAssumption
     DEF ReceiveESPPacket, Heard, controlVars, peerVars, historyVars, IInv,
         TypeOK, SessionType, ControlType, ThreadType, HistoryType, ChildInv,
         SealInv, Idle, Children
<1> QED BY <1>1, <1>2, <1>3, <1>4, <1>5, <1>6, <1>7, <1>8, <1>9
     DEF Step, Rekey, Mobike, Liveness, Close

-----------------------------------------------------------------------------
\* A tunnel that was just established satisfies the invariant.
LEMMA InitIInv == Init => IInv
<1> SUFFICES ASSUME Init PROVE IInv
  OBVIOUS
<1> USE BoundsAssumption, InnerAssumption, ThreadsAssumption DEF Init
<1>1. SessionType
  <2>1. 0 \in Children /\ 0 \in 0 .. MaxSeq /\ InitInner \in Addresses
    BY DEF Children, Addresses
  <2>2. result \in Results
    BY <2>1, Zenon DEF Results
  <2> QED BY <2>1, <2>2 DEF SessionType, Results
<1>2. LiveType /\ LiveInv
  <2>1. live \in LiveStates
    BY HeardType DEF Heard
  <2> QED BY <2>1 DEF LiveType, LiveStates, LiveInv
<1>3. ControlType
  <2>1. 0 \in Children /\ 1 \in 1 .. MaxId + 1
    BY DEF Children
  <2> QED BY <2>1, Zenon DEF ControlType
<1>4. ThreadType
  BY DEF ThreadType, Steps, Idle, NoLocals, Children, Addresses
<1>5. HistoryType
  BY DEF HistoryType
<1>6. LockInv /\ IdInv /\ ChildInv /\ SealInv
  BY DEF LockInv, IdInv, ChildInv, SealInv, Idle, Ids
<1> QED BY <1>1, <1>2, <1>3, <1>4, <1>5, <1>6 DEF IInv, TypeOK

\* Every step of a thread preserves the invariant.
LEMMA NextIInv == IInv /\ [Next]_vars => IInv'
<1> SUFFICES ASSUME IInv, [Next]_vars PROVE IInv'
  OBVIOUS
<1>1. CASE UNCHANGED vars
  <2>1. TypeOK'
    BY <1>1 DEF IInv, TypeOK, SessionType, LiveType, ControlType, ThreadType,
                HistoryType, vars, sessionVars, controlVars, peerVars, historyVars
  <2>2. LockInv' /\ IdInv' /\ ChildInv' /\ SealInv' /\ LiveInv'
    BY <1>1 DEF IInv, LockInv, IdInv, ChildInv, SealInv, LiveInv,
                vars, sessionVars, controlVars, peerVars, historyVars
  <2> QED BY <2>1, <2>2 DEF IInv
<1>2. ASSUME NEW t \in Threads, Step(t)
      PROVE  IInv'
  <2>1. TypeOK'
    BY <1>2, SessionTypeStep, LiveTypeStep, ControlTypeStep, ThreadTypeStep,
       HistoryTypeStep DEF TypeOK
  <2> QED BY <1>2, <2>1, LiveStep, LockStep, IdStep, ChildStep, SealStep DEF IInv
<1> QED BY <1>1, <1>2 DEF Next

\* The invariant holds as long as the tunnel exists.
LEMMA Invariance == Spec => []IInv
BY InitIInv, NextIInv, PTL DEF Spec

-----------------------------------------------------------------------------
\* Every variable of the session keeps its type, whatever the threads do.
THEOREM TypeCorrect == Spec => []TypeOK
BY Invariance, PTL DEF IInv

\* No IKE message ID is given to two operations of ikePacketTunnelControl, and
\* the CHILD_SA whose keys the session uses was created by the ePDG, however
\* rekeys fail.
THEOREM Exchanges == Spec => []ExchangesSound
<1>1. IInv => ExchangesSound
  BY DEF IInv, IdInv, ChildInv, MessageIdsUnique, InstalledChildExists, ExchangesSound
<1> QED BY <1>1, Invariance, PTL

\* Seal never uses a sequence number twice under the keys of one CHILD_SA.
THEOREM Nonces == Spec => NoncesFresh
<1>1. IInv /\ [Next]_vars
        => [sequence' = sequence + 1 /\ child' = child
              => <<child, sequence'>> \notin sealed]_vars
  <2> SUFFICES ASSUME IInv, sequence' = sequence + 1, <<child, sequence'>> \in sealed
               PROVE  FALSE
    OBVIOUS
  <2>1. child \in Children /\ sequence \in Nat /\ sequence' \in 1 .. MaxSeq
    BY DEF IInv, TypeOK, SessionType, HistoryType
  <2>2. sequence' <= sequence
    BY <2>1 DEF IInv, SealInv
  <2> QED BY <2>1, <2>2
<1> QED BY <1>1, Invariance, PTL DEF Spec, NoncesFresh

\* A session that is closed never changes again what it seals with or reports.
THEOREM Frozen == Spec => FrozenAfterClose
<1>1. [Next]_vars => [closed => UNCHANGED <<closed, child, sequence, result>>]_vars
  <2> SUFFICES ASSUME closed, NEW t \in Threads, Step(t)
               PROVE  UNCHANGED <<closed, child, sequence, result>>
    BY DEF Next, vars, sessionVars
  <2>1. CASE Rekey(t)
    BY <2>1 DEF Rekey, RekeyStart, RekeyAllocate, RekeySucceeds, RekeyFails,
                RekeyInstall, RekeyDiscard, sessionVars
  <2>2. CASE Mobike(t)
    BY <2>2 DEF Mobike, MobikeStart, MobikeSend, MobikeSucceeds, MobikeFails,
                MobikeApply, sessionVars
  <2>3. CASE Liveness(t)
    BY <2>3 DEF Liveness, LivenessProbe, LivenessDeclareDead, DpdSend,
                DpdReturns, DpdRecordAnswer, DpdRecordFailure, DpdSnapshot,
                MarkTunnelNotReady, sessionVars
  <2>4. CASE SendInnerPacket(t) \/ ReceiveESPPacket(t) \/ Close(t)
    BY <2>4 DEF SendInnerPacket, ReceiveESPPacket, Close, CloseStart, CloseSend,
                CloseReturns, CloseEsp, sessionVars
  <2> QED BY <2>1, <2>2, <2>3, <2>4 DEF Step
<1> QED BY <1>1, PTL DEF Spec, FrozenAfterClose

=============================================================================

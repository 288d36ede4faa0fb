----------------------- MODULE RuntimeInstanceProofs ------------------------
(***************************************************************************)
(* Proofs about the life of a runtime instance: what a failed Start and a  *)
(* finished Stop leave behind, that nothing changes after Stop, and that an *)
(* operation tried again finds the transports of its recovery.             *)
(***************************************************************************)
EXTENDS RuntimeInstance, TLAPS

Places == {"idle", "lock", "mark", "wait", "recover", "apply", "swap", "failed", "retry", "exited"}

\* The steps of recoverIMSRegistration that hold imsRecoverMu.
Critical == {"mark", "wait", "recover", "apply", "swap", "failed"}

\* The types the proofs need; registrations are numbered without bound.
FlagType ==
  /\ stage \in {"tunnel", "ims", "inbound", "run", "failed"}
  /\ stopped \in BOOLEAN /\ smsReady \in BOOLEAN /\ pending \in BOOLEAN
  /\ workerEnded \in BOOLEAN /\ late \in BOOLEAN
CountType ==
  /\ voice \in Nat /\ sms \in Nat /\ gen \in Nat /\ got \in [Ops -> Nat]
  /\ pc \in [Ops -> Places]

\* Until Start is through nothing else runs, and what it has opened follows its
\* stage.
StartInv ==
  /\ stage # "run" =>
       /\ stop = "idle" /\ ~ workerEnded /\ inbound = "none"
       /\ \A o \in Ops : pc[o] = "idle"
  /\ stopped => stop # "idle"
  /\ stage \in {"tunnel", "ims"} => reg = "none" /\ gen = 0
  /\ stage = "failed" => tunnel # "open" /\ reg # "active"

\* What each step of Stop has released stays released.
StopInv ==
  /\ stop \in {"worker", "join", "tunnel", "ims", "done"} => inbound \in {"none", "closed"}
  /\ stop \in {"tunnel", "ims", "done"} => late \/ pc["worker"] = "exited"
  /\ stop \in {"ims", "done"} => tunnel # "open"
  /\ stop = "done" => reg = "closed"

\* Recoveries exclude each other, so the one that is about to be applied is the
\* newest, and the one whose transports are exchanged is the one voice uses.
LockInv == \A o \in Ops : pc[o] \in Critical => recoverMu = o
FreshInv ==
  /\ voice <= gen /\ sms <= gen /\ \A o \in Ops : got[o] <= gen
  /\ \A o \in Ops : pc[o] \in {"apply", "swap"} =>
       voice <= got[o] /\ sms <= got[o] /\ \A p \in Ops : got[p] <= got[o]
  /\ \A o \in Ops : pc[o] = "swap" => voice = got[o]
  /\ RetryIsFresh

IInv == FlagType /\ CountType /\ StartInv /\ StopInv /\ LockInv /\ FreshInv
-----------------------------------------------------------------------------
(* Every step keeps the invariant, conjunct by conjunct.                   *)

\* Nothing runs before Start.
LEMMA InitIInv == Init => IInv
<1> SUFFICES ASSUME Init  PROVE IInv
  OBVIOUS
<1> USE DEF Init
<1>1. FlagType /\ CountType
  BY DEF FlagType, CountType, Places
<1>2. StartInv /\ StopInv
  BY DEF StartInv, StopInv
<1>3. LockInv
  BY DEF LockInv, Critical
<1>4. FreshInv
  BY DEF FreshInv, RetryIsFresh
<1> QED BY <1>1, <1>2, <1>3, <1>4 DEF IInv

\* The retry worker that has ended does not come back.
LEMMA WorkerStays ==
  ASSUME pc \in [Ops -> Places], NEW o \in Ops, pc[o] # "exited", NEW place, Goto(o, place)
  PROVE  pc["worker"] = "exited" => pc'["worker"] = "exited"
BY DEF Goto, Ops

\* Flags stay flags.
LEMMA FlagStep == IInv /\ [Next]_vars => FlagType'
<1> SUFFICES ASSUME IInv, [Next]_vars
             PROVE  FlagType'
  OBVIOUS
<1> USE DEF IInv, FlagType
<1>1. CASE StartTunnel
  BY <1>1 DEF StartTunnel, opVars, stopVars
<1>2. CASE StartWithoutTunnel
  BY <1>2 DEF StartWithoutTunnel, instVars, readyVars, opVars, stopVars, worldVars
<1>3. CASE StartIMS
  BY <1>3 DEF StartIMS, opVars, stopVars
<1>4. CASE StartIMSFails
  BY <1>4 DEF StartIMSFails, CloseTunnel, instVars, readyVars, opVars, stopVars
<1>5. CASE StartInbound
  BY <1>5 DEF StartInbound, opVars, stopVars
<1>6. CASE StartInboundFails
  BY <1>6 DEF StartInboundFails, CloseTunnel, instVars, readyVars, opVars, stopVars
<1>7. CASE WorkerExits
  BY <1>7 DEF WorkerExits, Goto, instVars, readyVars, stopVars, worldVars
<1>8. CASE MaintenanceRecovers
  BY <1>8 DEF MaintenanceRecovers, instVars, readyVars, opVars, stopVars
<1>9. CASE InboundBreaks
  BY <1>9 DEF InboundBreaks, instVars, readyVars, opVars, stopVars
<1>10. CASE MarkInboundFailed
  BY <1>10 DEF MarkInboundFailed, opVars, stopVars
<1>11. CASE StopBegins
  BY <1>11 DEF StopBegins, opVars, worldVars
<1>12. CASE StopInbound
  BY <1>12 DEF StopInbound, instVars, readyVars, opVars
<1>13. CASE StopWorker
  BY <1>13 DEF StopWorker, instVars, readyVars, opVars, worldVars
<1>14. CASE WorkerJoined
  BY <1>14 DEF WorkerJoined, instVars, readyVars, opVars, worldVars
<1>15. CASE WorkerLeft
  BY <1>15 DEF WorkerLeft, instVars, readyVars, opVars, worldVars
<1>16. CASE StopTunnel
  BY <1>16 DEF StopTunnel, CloseTunnel, instVars, readyVars, opVars
<1>17. CASE StopIMS
  BY <1>17 DEF StopIMS, instVars, readyVars, opVars
<1>18. ASSUME NEW o \in Ops, OperationFails(o)  PROVE FlagType'
  BY <1>18 DEF OperationFails, Goto, instVars, readyVars, stopVars, worldVars
<1>19. ASSUME NEW o \in Ops, LockRecover(o)  PROVE FlagType'
  BY <1>19 DEF LockRecover, Goto, instVars, readyVars, stopVars, worldVars
<1>20. ASSUME NEW o \in Ops, MarkPending(o)  PROVE FlagType'
  BY <1>20 DEF MarkPending, Goto, instVars, readyVars, stopVars, worldVars
<1>21. ASSUME NEW o \in Ops, RetryAfterEnds(o)  PROVE FlagType'
  BY <1>21 DEF RetryAfterEnds, Goto, instVars, readyVars, stopVars, worldVars
<1>22. ASSUME NEW o \in Ops, RetryAfterCancelled(o)  PROVE FlagType'
  BY <1>22 DEF RetryAfterCancelled, Leave, Goto, instVars, readyVars, stopVars, worldVars
<1>23. ASSUME NEW o \in Ops, RecoverSucceeds(o)  PROVE FlagType'
  BY <1>23 DEF RecoverSucceeds, Goto, instVars, readyVars, stopVars, worldVars
<1>24. ASSUME NEW o \in Ops, RecoverFails(o)  PROVE FlagType'
  BY <1>24 DEF RecoverFails, Goto, instVars, readyVars, stopVars, worldVars
<1>25. ASSUME NEW o \in Ops, RecordFailure(o)  PROVE FlagType'
  BY <1>25 DEF RecordFailure, Leave, Goto, instVars, readyVars, stopVars, worldVars
<1>26. ASSUME NEW o \in Ops, ApplyResult(o)  PROVE FlagType'
  BY <1>26 DEF ApplyResult, Leave, Goto, instVars, readyVars, stopVars, worldVars
<1>27. ASSUME NEW o \in Ops, SwapTransports(o)  PROVE FlagType'
  BY <1>27 DEF SwapTransports, Leave, Goto, instVars, readyVars, stopVars, worldVars
<1>28. ASSUME NEW o \in Ops, RetryOperation(o)  PROVE FlagType'
  BY <1>28 DEF RetryOperation, Goto, instVars, readyVars, stopVars, worldVars
<1>29. CASE UNCHANGED vars
  BY <1>29 DEF vars, instVars, readyVars, opVars, stopVars, worldVars
<1> QED BY <1>1, <1>2, <1>3, <1>4, <1>5, <1>6, <1>7, <1>8, <1>9, <1>10, <1>11, <1>12, <1>13, <1>14, <1>15, <1>16, <1>17, <1>18, <1>19, <1>20, <1>21, <1>22, <1>23, <1>24, <1>25, <1>26, <1>27, <1>28, <1>29
  DEF Next, Start, Recovery, Stop

\* Registrations stay numbers, and operations at their places.
LEMMA CountStep == IInv /\ [Next]_vars => CountType'
<1> SUFFICES ASSUME IInv, [Next]_vars
             PROVE  CountType'
  OBVIOUS
<1> USE DEF IInv, CountType, Places
<1>1. CASE StartTunnel
  BY <1>1 DEF StartTunnel, opVars, stopVars
<1>2. CASE StartWithoutTunnel
  BY <1>2 DEF StartWithoutTunnel, instVars, readyVars, opVars, stopVars, worldVars
<1>3. CASE StartIMS
  BY <1>3 DEF StartIMS, opVars, stopVars
<1>4. CASE StartIMSFails
  BY <1>4 DEF StartIMSFails, CloseTunnel, instVars, readyVars, opVars, stopVars
<1>5. CASE StartInbound
  BY <1>5 DEF StartInbound, opVars, stopVars
<1>6. CASE StartInboundFails
  BY <1>6 DEF StartInboundFails, CloseTunnel, instVars, readyVars, opVars, stopVars
<1>7. CASE WorkerExits
  BY <1>7 DEF WorkerExits, Goto, instVars, readyVars, stopVars, worldVars
<1>8. CASE MaintenanceRecovers
  BY <1>8 DEF MaintenanceRecovers, instVars, readyVars, opVars, stopVars
<1>9. CASE InboundBreaks
  BY <1>9 DEF InboundBreaks, instVars, readyVars, opVars, stopVars
<1>10. CASE MarkInboundFailed
  BY <1>10 DEF MarkInboundFailed, opVars, stopVars
<1>11. CASE StopBegins
  BY <1>11 DEF StopBegins, opVars, worldVars
<1>12. CASE StopInbound
  BY <1>12 DEF StopInbound, instVars, readyVars, opVars
<1>13. CASE StopWorker
  BY <1>13 DEF StopWorker, instVars, readyVars, opVars, worldVars
<1>14. CASE WorkerJoined
  BY <1>14 DEF WorkerJoined, instVars, readyVars, opVars, worldVars
<1>15. CASE WorkerLeft
  BY <1>15 DEF WorkerLeft, instVars, readyVars, opVars, worldVars
<1>16. CASE StopTunnel
  BY <1>16 DEF StopTunnel, CloseTunnel, instVars, readyVars, opVars
<1>17. CASE StopIMS
  BY <1>17 DEF StopIMS, instVars, readyVars, opVars
<1>18. ASSUME NEW o \in Ops, OperationFails(o)  PROVE CountType'
  BY <1>18 DEF OperationFails, Goto, instVars, readyVars, stopVars, worldVars
<1>19. ASSUME NEW o \in Ops, LockRecover(o)  PROVE CountType'
  BY <1>19 DEF LockRecover, Goto, instVars, readyVars, stopVars, worldVars
<1>20. ASSUME NEW o \in Ops, MarkPending(o)  PROVE CountType'
  BY <1>20 DEF MarkPending, Goto, instVars, readyVars, stopVars, worldVars
<1>21. ASSUME NEW o \in Ops, RetryAfterEnds(o)  PROVE CountType'
  BY <1>21 DEF RetryAfterEnds, Goto, instVars, readyVars, stopVars, worldVars
<1>22. ASSUME NEW o \in Ops, RetryAfterCancelled(o)  PROVE CountType'
  BY <1>22 DEF RetryAfterCancelled, Leave, Goto, instVars, readyVars, stopVars, worldVars
<1>23. ASSUME NEW o \in Ops, RecoverSucceeds(o)  PROVE CountType'
  BY <1>23 DEF RecoverSucceeds, Goto, instVars, readyVars, stopVars, worldVars
<1>24. ASSUME NEW o \in Ops, RecoverFails(o)  PROVE CountType'
  BY <1>24 DEF RecoverFails, Goto, instVars, readyVars, stopVars, worldVars
<1>25. ASSUME NEW o \in Ops, RecordFailure(o)  PROVE CountType'
  BY <1>25 DEF RecordFailure, Leave, Goto, instVars, readyVars, stopVars, worldVars
<1>26. ASSUME NEW o \in Ops, ApplyResult(o)  PROVE CountType'
  BY <1>26 DEF ApplyResult, Leave, Goto, instVars, readyVars, stopVars, worldVars
<1>27. ASSUME NEW o \in Ops, SwapTransports(o)  PROVE CountType'
  BY <1>27 DEF SwapTransports, Leave, Goto, instVars, readyVars, stopVars, worldVars
<1>28. ASSUME NEW o \in Ops, RetryOperation(o)  PROVE CountType'
  BY <1>28 DEF RetryOperation, Goto, instVars, readyVars, stopVars, worldVars
<1>29. CASE UNCHANGED vars
  BY <1>29 DEF vars, instVars, readyVars, opVars, stopVars, worldVars
<1> QED BY <1>1, <1>2, <1>3, <1>4, <1>5, <1>6, <1>7, <1>8, <1>9, <1>10, <1>11, <1>12, <1>13, <1>14, <1>15, <1>16, <1>17, <1>18, <1>19, <1>20, <1>21, <1>22, <1>23, <1>24, <1>25, <1>26, <1>27, <1>28, <1>29
  DEF Next, Start, Recovery, Stop

\* Nothing runs beside Start, and it cleans up after itself.
LEMMA StartStep == IInv /\ [Next]_vars => StartInv'
<1> SUFFICES ASSUME IInv, [Next]_vars
             PROVE  StartInv'
  OBVIOUS
<1> USE DEF IInv, StartInv, FlagType, CountType
<1>1. CASE StartTunnel
  BY <1>1 DEF StartTunnel, opVars, stopVars
<1>2. CASE StartWithoutTunnel
  BY <1>2 DEF StartWithoutTunnel, instVars, readyVars, opVars, stopVars, worldVars
<1>3. CASE StartIMS
  BY <1>3 DEF StartIMS, opVars, stopVars
<1>4. CASE StartIMSFails
  BY <1>4 DEF StartIMSFails, CloseTunnel, instVars, readyVars, opVars, stopVars
<1>5. CASE StartInbound
  BY <1>5 DEF StartInbound, opVars, stopVars
<1>6. CASE StartInboundFails
  BY <1>6 DEF StartInboundFails, CloseTunnel, instVars, readyVars, opVars, stopVars
<1>7. CASE WorkerExits
  BY <1>7 DEF WorkerExits, Goto, instVars, readyVars, stopVars, worldVars
<1>8. CASE MaintenanceRecovers
  BY <1>8 DEF MaintenanceRecovers, instVars, readyVars, opVars, stopVars
<1>9. CASE InboundBreaks
  BY <1>9 DEF InboundBreaks, instVars, readyVars, opVars, stopVars
<1>10. CASE MarkInboundFailed
  BY <1>10 DEF MarkInboundFailed, opVars, stopVars
<1>11. CASE StopBegins
  BY <1>11 DEF StopBegins, opVars, worldVars
<1>12. CASE StopInbound
  BY <1>12 DEF StopInbound, instVars, readyVars, opVars
<1>13. CASE StopWorker
  BY <1>13 DEF StopWorker, instVars, readyVars, opVars, worldVars
<1>14. CASE WorkerJoined
  BY <1>14 DEF WorkerJoined, instVars, readyVars, opVars, worldVars
<1>15. CASE WorkerLeft
  BY <1>15 DEF WorkerLeft, instVars, readyVars, opVars, worldVars
<1>16. CASE StopTunnel
  BY <1>16 DEF StopTunnel, CloseTunnel, instVars, readyVars, opVars
<1>17. CASE StopIMS
  BY <1>17 DEF StopIMS, instVars, readyVars, opVars
<1>18. ASSUME NEW o \in Ops, OperationFails(o)  PROVE StartInv'
  BY <1>18 DEF OperationFails, Goto, instVars, readyVars, stopVars, worldVars
<1>19. ASSUME NEW o \in Ops, LockRecover(o)  PROVE StartInv'
  BY <1>19 DEF LockRecover, Goto, instVars, readyVars, stopVars, worldVars
<1>20. ASSUME NEW o \in Ops, MarkPending(o)  PROVE StartInv'
  BY <1>20 DEF MarkPending, Goto, instVars, readyVars, stopVars, worldVars
<1>21. ASSUME NEW o \in Ops, RetryAfterEnds(o)  PROVE StartInv'
  BY <1>21 DEF RetryAfterEnds, Goto, instVars, readyVars, stopVars, worldVars
<1>22. ASSUME NEW o \in Ops, RetryAfterCancelled(o)  PROVE StartInv'
  BY <1>22 DEF RetryAfterCancelled, Leave, Goto, instVars, readyVars, stopVars, worldVars
<1>23. ASSUME NEW o \in Ops, RecoverSucceeds(o)  PROVE StartInv'
  BY <1>23 DEF RecoverSucceeds, Goto, instVars, readyVars, stopVars, worldVars
<1>24. ASSUME NEW o \in Ops, RecoverFails(o)  PROVE StartInv'
  BY <1>24 DEF RecoverFails, Goto, instVars, readyVars, stopVars, worldVars
<1>25. ASSUME NEW o \in Ops, RecordFailure(o)  PROVE StartInv'
  BY <1>25 DEF RecordFailure, Leave, Goto, instVars, readyVars, stopVars, worldVars
<1>26. ASSUME NEW o \in Ops, ApplyResult(o)  PROVE StartInv'
  BY <1>26 DEF ApplyResult, Leave, Goto, instVars, readyVars, stopVars, worldVars
<1>27. ASSUME NEW o \in Ops, SwapTransports(o)  PROVE StartInv'
  BY <1>27 DEF SwapTransports, Leave, Goto, instVars, readyVars, stopVars, worldVars
<1>28. ASSUME NEW o \in Ops, RetryOperation(o)  PROVE StartInv'
  BY <1>28 DEF RetryOperation, Goto, instVars, readyVars, stopVars, worldVars
<1>29. CASE UNCHANGED vars
  BY <1>29 DEF vars, instVars, readyVars, opVars, stopVars, worldVars
<1> QED BY <1>1, <1>2, <1>3, <1>4, <1>5, <1>6, <1>7, <1>8, <1>9, <1>10, <1>11, <1>12, <1>13, <1>14, <1>15, <1>16, <1>17, <1>18, <1>19, <1>20, <1>21, <1>22, <1>23, <1>24, <1>25, <1>26, <1>27, <1>28, <1>29
  DEF Next, Start, Recovery, Stop

\* Nothing that Stop has closed comes back.
LEMMA StopStep == IInv /\ [Next]_vars => StopInv'
<1> SUFFICES ASSUME IInv, [Next]_vars
             PROVE  StopInv'
  OBVIOUS
<1> USE DEF IInv, StopInv, StartInv, FlagType, CountType
<1>1. CASE StartTunnel
  BY <1>1, ActorsAssumption DEF StartTunnel, opVars, stopVars
<1>2. CASE StartWithoutTunnel
  BY <1>2, ActorsAssumption DEF StartWithoutTunnel, instVars, readyVars, opVars, stopVars, worldVars
<1>3. CASE StartIMS
  BY <1>3, ActorsAssumption DEF StartIMS, opVars, stopVars
<1>4. CASE StartIMSFails
  BY <1>4, ActorsAssumption DEF StartIMSFails, CloseTunnel, instVars, readyVars, opVars, stopVars
<1>5. CASE StartInbound
  BY <1>5, ActorsAssumption DEF StartInbound, opVars, stopVars
<1>6. CASE StartInboundFails
  BY <1>6, ActorsAssumption DEF StartInboundFails, CloseTunnel, instVars, readyVars, opVars, stopVars
<1>7. CASE WorkerExits
  BY <1>7, ActorsAssumption DEF WorkerExits, Goto, instVars, readyVars, stopVars, worldVars
<1>8. CASE MaintenanceRecovers
  BY <1>8, ActorsAssumption DEF MaintenanceRecovers, instVars, readyVars, opVars, stopVars
<1>9. CASE InboundBreaks
  BY <1>9, ActorsAssumption DEF InboundBreaks, instVars, readyVars, opVars, stopVars
<1>10. CASE MarkInboundFailed
  BY <1>10, ActorsAssumption DEF MarkInboundFailed, opVars, stopVars
<1>11. CASE StopBegins
  BY <1>11, ActorsAssumption DEF StopBegins, opVars, worldVars
<1>12. CASE StopInbound
  BY <1>12, ActorsAssumption DEF StopInbound, instVars, readyVars, opVars
<1>13. CASE StopWorker
  BY <1>13, ActorsAssumption DEF StopWorker, instVars, readyVars, opVars, worldVars
<1>14. CASE WorkerJoined
  BY <1>14, ActorsAssumption DEF WorkerJoined, instVars, readyVars, opVars, worldVars
<1>15. CASE WorkerLeft
  BY <1>15, ActorsAssumption DEF WorkerLeft, instVars, readyVars, opVars, worldVars
<1>16. CASE StopTunnel
  BY <1>16, ActorsAssumption DEF StopTunnel, CloseTunnel, instVars, readyVars, opVars
<1>17. CASE StopIMS
  BY <1>17, ActorsAssumption DEF StopIMS, instVars, readyVars, opVars
<1>18. ASSUME NEW o \in Ops, OperationFails(o)  PROVE StopInv'
  BY <1>18, ActorsAssumption DEF OperationFails, Goto, instVars, readyVars, stopVars, worldVars
<1>19. ASSUME NEW o \in Ops, LockRecover(o)  PROVE StopInv'
  <2>1. pc["worker"] = "exited" => pc'["worker"] = "exited"
    BY <1>19, WorkerStays DEF LockRecover, Places
  <2> QED BY <1>19, <2>1 DEF LockRecover, instVars, readyVars, stopVars, worldVars
<1>20. ASSUME NEW o \in Ops, MarkPending(o)  PROVE StopInv'
  BY <1>20, ActorsAssumption DEF MarkPending, Goto, instVars, readyVars, stopVars, worldVars
<1>21. ASSUME NEW o \in Ops, RetryAfterEnds(o)  PROVE StopInv'
  BY <1>21, ActorsAssumption DEF RetryAfterEnds, Goto, instVars, readyVars, stopVars, worldVars
<1>22. ASSUME NEW o \in Ops, RetryAfterCancelled(o)  PROVE StopInv'
  BY <1>22, ActorsAssumption DEF RetryAfterCancelled, Leave, Goto, instVars, readyVars, stopVars, worldVars
<1>23. ASSUME NEW o \in Ops, RecoverSucceeds(o)  PROVE StopInv'
  BY <1>23, ActorsAssumption DEF RecoverSucceeds, Goto, instVars, readyVars, stopVars, worldVars
<1>24. ASSUME NEW o \in Ops, RecoverFails(o)  PROVE StopInv'
  BY <1>24, ActorsAssumption DEF RecoverFails, Goto, instVars, readyVars, stopVars, worldVars
<1>25. ASSUME NEW o \in Ops, RecordFailure(o)  PROVE StopInv'
  BY <1>25, ActorsAssumption DEF RecordFailure, Leave, Goto, instVars, readyVars, stopVars, worldVars
<1>26. ASSUME NEW o \in Ops, ApplyResult(o)  PROVE StopInv'
  <2>1. pc["worker"] = "exited" => pc'["worker"] = "exited"
    BY <1>26, WorkerStays DEF ApplyResult, Leave, Places
  <2> QED BY <1>26, <2>1 DEF ApplyResult, instVars, readyVars, stopVars, worldVars
<1>27. ASSUME NEW o \in Ops, SwapTransports(o)  PROVE StopInv'
  BY <1>27, ActorsAssumption DEF SwapTransports, Leave, Goto, instVars, readyVars, stopVars, worldVars
<1>28. ASSUME NEW o \in Ops, RetryOperation(o)  PROVE StopInv'
  BY <1>28, ActorsAssumption DEF RetryOperation, Goto, instVars, readyVars, stopVars, worldVars
<1>29. CASE UNCHANGED vars
  BY <1>29 DEF vars, instVars, readyVars, opVars, stopVars, worldVars
<1> QED BY <1>1, <1>2, <1>3, <1>4, <1>5, <1>6, <1>7, <1>8, <1>9, <1>10, <1>11, <1>12, <1>13, <1>14, <1>15, <1>16, <1>17, <1>18, <1>19, <1>20, <1>21, <1>22, <1>23, <1>24, <1>25, <1>26, <1>27, <1>28, <1>29
  DEF Next, Start, Recovery, Stop

\* Recoveries exclude each other.
LEMMA LockStep == IInv /\ [Next]_vars => LockInv'
<1> SUFFICES ASSUME IInv, [Next]_vars
             PROVE  LockInv'
  OBVIOUS
<1> USE DEF IInv, LockInv, CountType, Critical, Places
<1>1. CASE StartTunnel
  BY <1>1, ActorsAssumption DEF StartTunnel, opVars, stopVars
<1>2. CASE StartWithoutTunnel
  BY <1>2, ActorsAssumption DEF StartWithoutTunnel, instVars, readyVars, opVars, stopVars, worldVars
<1>3. CASE StartIMS
  BY <1>3, ActorsAssumption DEF StartIMS, opVars, stopVars
<1>4. CASE StartIMSFails
  BY <1>4, ActorsAssumption DEF StartIMSFails, CloseTunnel, instVars, readyVars, opVars, stopVars
<1>5. CASE StartInbound
  BY <1>5, ActorsAssumption DEF StartInbound, opVars, stopVars
<1>6. CASE StartInboundFails
  BY <1>6, ActorsAssumption DEF StartInboundFails, CloseTunnel, instVars, readyVars, opVars, stopVars
<1>7. CASE WorkerExits
  BY <1>7, ActorsAssumption DEF WorkerExits, Goto, instVars, readyVars, stopVars, worldVars
<1>8. CASE MaintenanceRecovers
  BY <1>8, ActorsAssumption DEF MaintenanceRecovers, instVars, readyVars, opVars, stopVars
<1>9. CASE InboundBreaks
  BY <1>9, ActorsAssumption DEF InboundBreaks, instVars, readyVars, opVars, stopVars
<1>10. CASE MarkInboundFailed
  BY <1>10, ActorsAssumption DEF MarkInboundFailed, opVars, stopVars
<1>11. CASE StopBegins
  BY <1>11, ActorsAssumption DEF StopBegins, opVars, worldVars
<1>12. CASE StopInbound
  BY <1>12, ActorsAssumption DEF StopInbound, instVars, readyVars, opVars
<1>13. CASE StopWorker
  BY <1>13, ActorsAssumption DEF StopWorker, instVars, readyVars, opVars, worldVars
<1>14. CASE WorkerJoined
  BY <1>14, ActorsAssumption DEF WorkerJoined, instVars, readyVars, opVars, worldVars
<1>15. CASE WorkerLeft
  BY <1>15, ActorsAssumption DEF WorkerLeft, instVars, readyVars, opVars, worldVars
<1>16. CASE StopTunnel
  BY <1>16, ActorsAssumption DEF StopTunnel, CloseTunnel, instVars, readyVars, opVars
<1>17. CASE StopIMS
  BY <1>17, ActorsAssumption DEF StopIMS, instVars, readyVars, opVars
<1>18. ASSUME NEW o \in Ops, OperationFails(o)  PROVE LockInv'
  BY <1>18, ActorsAssumption DEF OperationFails, Goto, instVars, readyVars, stopVars, worldVars
<1>19. ASSUME NEW o \in Ops, LockRecover(o)  PROVE LockInv'
  BY <1>19, ActorsAssumption DEF LockRecover, Goto, instVars, readyVars, stopVars, worldVars
<1>20. ASSUME NEW o \in Ops, MarkPending(o)  PROVE LockInv'
  BY <1>20, ActorsAssumption DEF MarkPending, Goto, instVars, readyVars, stopVars, worldVars
<1>21. ASSUME NEW o \in Ops, RetryAfterEnds(o)  PROVE LockInv'
  BY <1>21, ActorsAssumption DEF RetryAfterEnds, Goto, instVars, readyVars, stopVars, worldVars
<1>22. ASSUME NEW o \in Ops, RetryAfterCancelled(o)  PROVE LockInv'
  BY <1>22, ActorsAssumption DEF RetryAfterCancelled, Leave, Goto, instVars, readyVars, stopVars, worldVars
<1>23. ASSUME NEW o \in Ops, RecoverSucceeds(o)  PROVE LockInv'
  BY <1>23, ActorsAssumption DEF RecoverSucceeds, Goto, instVars, readyVars, stopVars, worldVars
<1>24. ASSUME NEW o \in Ops, RecoverFails(o)  PROVE LockInv'
  BY <1>24, ActorsAssumption DEF RecoverFails, Goto, instVars, readyVars, stopVars, worldVars
<1>25. ASSUME NEW o \in Ops, RecordFailure(o)  PROVE LockInv'
  BY <1>25, ActorsAssumption DEF RecordFailure, Leave, Goto, instVars, readyVars, stopVars, worldVars
<1>26. ASSUME NEW o \in Ops, ApplyResult(o)  PROVE LockInv'
  BY <1>26, ActorsAssumption DEF ApplyResult, Leave, Goto, instVars, readyVars, stopVars, worldVars
<1>27. ASSUME NEW o \in Ops, SwapTransports(o)  PROVE LockInv'
  BY <1>27, ActorsAssumption DEF SwapTransports, Leave, Goto, instVars, readyVars, stopVars, worldVars
<1>28. ASSUME NEW o \in Ops, RetryOperation(o)  PROVE LockInv'
  BY <1>28, ActorsAssumption DEF RetryOperation, Goto, instVars, readyVars, stopVars, worldVars
<1>29. CASE UNCHANGED vars
  BY <1>29 DEF vars, instVars, readyVars, opVars, stopVars, worldVars
<1> QED BY <1>1, <1>2, <1>3, <1>4, <1>5, <1>6, <1>7, <1>8, <1>9, <1>10, <1>11, <1>12, <1>13, <1>14, <1>15, <1>16, <1>17, <1>18, <1>19, <1>20, <1>21, <1>22, <1>23, <1>24, <1>25, <1>26, <1>27, <1>28, <1>29
  DEF Next, Start, Recovery, Stop

\* The newest recovery is the one that is applied.
LEMMA FreshStep == IInv /\ [Next]_vars => FreshInv'
<1> SUFFICES ASSUME IInv, [Next]_vars
             PROVE  FreshInv'
  OBVIOUS
<1> USE DEF IInv, FreshInv, RetryIsFresh, LockInv, StartInv, CountType, FlagType, Critical
<1>1. CASE StartTunnel
  BY <1>1, ActorsAssumption DEF StartTunnel, opVars, stopVars
<1>2. CASE StartWithoutTunnel
  BY <1>2, ActorsAssumption DEF StartWithoutTunnel, instVars, readyVars, opVars, stopVars, worldVars
<1>3. CASE StartIMS
  BY <1>3, ActorsAssumption DEF StartIMS, opVars, stopVars
<1>4. CASE StartIMSFails
  BY <1>4, ActorsAssumption DEF StartIMSFails, CloseTunnel, instVars, readyVars, opVars, stopVars
<1>5. CASE StartInbound
  BY <1>5, ActorsAssumption DEF StartInbound, opVars, stopVars
<1>6. CASE StartInboundFails
  BY <1>6, ActorsAssumption DEF StartInboundFails, CloseTunnel, instVars, readyVars, opVars, stopVars
<1>7. CASE WorkerExits
  BY <1>7, ActorsAssumption DEF WorkerExits, Goto, instVars, readyVars, stopVars, worldVars
<1>8. CASE MaintenanceRecovers
  BY <1>8, ActorsAssumption DEF MaintenanceRecovers, instVars, readyVars, opVars, stopVars
<1>9. CASE InboundBreaks
  BY <1>9, ActorsAssumption DEF InboundBreaks, instVars, readyVars, opVars, stopVars
<1>10. CASE MarkInboundFailed
  BY <1>10, ActorsAssumption DEF MarkInboundFailed, opVars, stopVars
<1>11. CASE StopBegins
  BY <1>11, ActorsAssumption DEF StopBegins, opVars, worldVars
<1>12. CASE StopInbound
  BY <1>12, ActorsAssumption DEF StopInbound, instVars, readyVars, opVars
<1>13. CASE StopWorker
  BY <1>13, ActorsAssumption DEF StopWorker, instVars, readyVars, opVars, worldVars
<1>14. CASE WorkerJoined
  BY <1>14, ActorsAssumption DEF WorkerJoined, instVars, readyVars, opVars, worldVars
<1>15. CASE WorkerLeft
  BY <1>15, ActorsAssumption DEF WorkerLeft, instVars, readyVars, opVars, worldVars
<1>16. CASE StopTunnel
  BY <1>16, ActorsAssumption DEF StopTunnel, CloseTunnel, instVars, readyVars, opVars
<1>17. CASE StopIMS
  BY <1>17, ActorsAssumption DEF StopIMS, instVars, readyVars, opVars
<1>18. ASSUME NEW o \in Ops, OperationFails(o)  PROVE FreshInv'
  BY <1>18, ActorsAssumption DEF OperationFails, Goto, instVars, readyVars, stopVars, worldVars
<1>19. ASSUME NEW o \in Ops, LockRecover(o)  PROVE FreshInv'
  BY <1>19, ActorsAssumption DEF LockRecover, Goto, instVars, readyVars, stopVars, worldVars
<1>20. ASSUME NEW o \in Ops, MarkPending(o)  PROVE FreshInv'
  BY <1>20, ActorsAssumption DEF MarkPending, Goto, instVars, readyVars, stopVars, worldVars
<1>21. ASSUME NEW o \in Ops, RetryAfterEnds(o)  PROVE FreshInv'
  BY <1>21, ActorsAssumption DEF RetryAfterEnds, Goto, instVars, readyVars, stopVars, worldVars
<1>22. ASSUME NEW o \in Ops, RetryAfterCancelled(o)  PROVE FreshInv'
  BY <1>22, ActorsAssumption DEF RetryAfterCancelled, Leave, Goto, instVars, readyVars, stopVars, worldVars
<1>23. ASSUME NEW o \in Ops, RecoverSucceeds(o)  PROVE FreshInv'
  BY <1>23, ActorsAssumption DEF RecoverSucceeds, Goto, instVars, readyVars, stopVars, worldVars
<1>24. ASSUME NEW o \in Ops, RecoverFails(o)  PROVE FreshInv'
  BY <1>24, ActorsAssumption DEF RecoverFails, Goto, instVars, readyVars, stopVars, worldVars
<1>25. ASSUME NEW o \in Ops, RecordFailure(o)  PROVE FreshInv'
  BY <1>25, ActorsAssumption DEF RecordFailure, Leave, Goto, instVars, readyVars, stopVars, worldVars
<1>26. ASSUME NEW o \in Ops, ApplyResult(o)  PROVE FreshInv'
  BY <1>26, ActorsAssumption DEF ApplyResult, Leave, Goto, instVars, readyVars, stopVars, worldVars
<1>27. ASSUME NEW o \in Ops, SwapTransports(o)  PROVE FreshInv'
  BY <1>27, ActorsAssumption DEF SwapTransports, Leave, Goto, instVars, readyVars, stopVars, worldVars
<1>28. ASSUME NEW o \in Ops, RetryOperation(o)  PROVE FreshInv'
  BY <1>28, ActorsAssumption DEF RetryOperation, Goto, instVars, readyVars, stopVars, worldVars
<1>29. CASE UNCHANGED vars
  BY <1>29 DEF vars, instVars, readyVars, opVars, stopVars, worldVars
<1> QED BY <1>1, <1>2, <1>3, <1>4, <1>5, <1>6, <1>7, <1>8, <1>9, <1>10, <1>11, <1>12, <1>13, <1>14, <1>15, <1>16, <1>17, <1>18, <1>19, <1>20, <1>21, <1>22, <1>23, <1>24, <1>25, <1>26, <1>27, <1>28, <1>29
  DEF Next, Start, Recovery, Stop

\* The invariant holds for the life of the instance.
LEMMA Invariance == Spec => []IInv
<1>1. IInv /\ [Next]_vars => IInv'
  BY FlagStep, CountStep, StartStep, StopStep, LockStep, FreshStep DEF IInv
<1> QED BY <1>1, InitIInv, PTL DEF Spec

-----------------------------------------------------------------------------
\* A Start that fails and a Stop that returns leave nothing running, and an
\* operation that is tried again finds every transport on the registration its
\* recovery made or on a newer one, however many operations fail at once.
THEOREM CleansUp == Spec => []NothingLeftBehind
<1>1. IInv => NothingLeftBehind
  BY DEF IInv, StartInv, StopInv, FreshInv, NothingLeftBehind, FailedStartLeavesNothing,
         StoppedReleasesAll
<1> QED BY <1>1, Invariance, PTL

\* After Stop has marked the instance no recovery, no failure of the listener and
\* no late result of Start changes its state or its voice agent.
THEOREM Freezes == Spec => StopFreezes
<1>1. IInv /\ [Next]_vars => [stopped => UNCHANGED <<readyVars, voice>>]_vars
  <2> SUFFICES ASSUME IInv, Next, stopped
               PROVE  UNCHANGED <<readyVars, voice>>
    BY DEF vars
  <2> USE DEF IInv, StartInv, FlagType, readyVars, instVars
  <2>1. CASE Start
    BY <2>1 DEF Start, StartTunnel, StartWithoutTunnel, StartIMS, StartIMSFails, StartInbound,
                StartInboundFails
  <2>2. ASSUME NEW o \in Ops, OperationFails(o) \/ LockRecover(o)
        PROVE  UNCHANGED <<readyVars, voice>>
    BY <2>2 DEF OperationFails, LockRecover
  <2>3. ASSUME NEW o \in Ops, Recovery(o)
        PROVE  UNCHANGED <<readyVars, voice>>
    BY <2>3 DEF Recovery, MarkPending, RetryAfterEnds, RetryAfterCancelled, RecoverSucceeds,
                RecoverFails, RecordFailure, ApplyResult, SwapTransports, RetryOperation
  <2>4. CASE WorkerExits \/ MaintenanceRecovers \/ InboundBreaks \/ MarkInboundFailed
    BY <2>4 DEF WorkerExits, MaintenanceRecovers, InboundBreaks, MarkInboundFailed
  <2>5. CASE StopBegins \/ Stop \/ WorkerLeft
    BY <2>5 DEF StopBegins, Stop, StopInbound, StopWorker, WorkerJoined, WorkerLeft, StopTunnel,
                StopIMS
  <2> QED BY <2>1, <2>2, <2>3, <2>4, <2>5 DEF Next
<1> QED BY <1>1, Invariance, PTL DEF Spec, StopFreezes
=============================================================================

-------------------------- MODULE RuntimeInstance ---------------------------
(***************************************************************************)
(* Instance of runtimehost/types.go: Start brings up the tunnel, the IMS   *)
(* registration and the inbound listener; operations that fail because the *)
(* registration is gone recover it, one at a time, and are retried; Stop   *)
(* takes everything down.                                                  *)
(*                                                                         *)
(* Operations are run by the callers of the host, by the messaging retry   *)
(* worker and by a handler of the inbound server (delivery reports); the   *)
(* server runs each handler in a goroutine of its own.  The registration   *)
(* maintenance behind imsRecover and imsClose (module ImsRegistration) is  *)
(* seen here through what it returns: registrations are numbered.  The     *)
(* host gave an IMSRegistrar: without one there is nothing to recover and  *)
(* SMSReady is set for compatibility.                                      *)
(***************************************************************************)
EXTENDS Integers, FiniteSets

CONSTANTS Callers,       \* goroutines of the host that run operations
          NoOne,
          MaxOps,        \* bound on failing operations
          MaxBackground  \* bound on recoveries the maintenance makes by itself

Ops == Callers \cup {"worker", "inbound"}

ASSUME ActorsAssumption ==
  /\ IsFiniteSet(Callers) /\ Callers \cap {"worker", "inbound"} = {} /\ NoOne \notin Ops
ASSUME BoundsAssumption == MaxOps \in Nat /\ MaxBackground \in Nat

VARIABLES
  stage,       \* how far Start is
  stopped,     \* i.stopped
  tunnelReady, imsReady, smsReady, pending,   \* of i.state
  voice,       \* the registration i.voice uses
  sms,         \* the registration the SMS and USSD transports use
  recoverMu,   \* holder of i.imsRecoverMu
  pc,          \* what each goroutine of Ops does
  got,         \* the registration its recovery returned
  ops,         \* history: failing operations
  stop,        \* how far Stop is
  workerEnded, \* retryCancel was called
  tunnel,      \* the tunnel session: "none", "open" or "closed"
  reg,         \* the registration maintenance: "none", "active" or "closed"
  gen,         \* number of the newest registration
  background,  \* history: recoveries the maintenance made by itself
  inbound,     \* the listener: "none", "open", "broken", "failed" or "closed"
  bound,       \* the registrar has a binding of the device
  late         \* history: a Stop gave up waiting for the retry worker

readyVars == <<tunnelReady, imsReady, smsReady, pending>>
instVars == <<stopped, readyVars, voice>>
opVars == <<recoverMu, pc, got, ops>>
worldVars == <<tunnel, reg, gen, background, inbound, bound>>
stopVars == <<stop, workerEnded, late>>
vars == <<stage, instVars, sms, opVars, stopVars, worldVars>>

MaxGen == 1 + MaxBackground + MaxOps

TypeOK ==
  /\ stage \in {"tunnel", "ims", "inbound", "run", "failed"}
  /\ stopped \in BOOLEAN /\ tunnelReady \in BOOLEAN /\ imsReady \in BOOLEAN
  /\ smsReady \in BOOLEAN /\ pending \in BOOLEAN
  /\ voice \in 0 .. MaxGen /\ sms \in 0 .. MaxGen /\ gen \in 0 .. MaxGen
  /\ recoverMu \in Ops \cup {NoOne}
  /\ pc \in [Ops -> {"idle", "lock", "mark", "wait", "recover", "apply", "swap", "failed", "retry", "exited"}]
  /\ got \in [Ops -> 0 .. MaxGen] /\ ops \in 0 .. MaxOps
  /\ stop \in {"idle", "inbound", "worker", "join", "tunnel", "ims", "done"}
  /\ workerEnded \in BOOLEAN /\ late \in BOOLEAN /\ bound \in BOOLEAN
  /\ tunnel \in {"none", "open", "closed"} /\ reg \in {"none", "active", "closed"}
  /\ background \in 0 .. MaxBackground
  /\ inbound \in {"none", "open", "broken", "failed", "closed"}

Init ==
  /\ stage = "tunnel" /\ stopped = FALSE
  /\ tunnelReady = FALSE /\ imsReady = FALSE /\ smsReady = FALSE /\ pending = FALSE
  /\ voice = 0 /\ sms = 0 /\ gen = 0 /\ background = 0
  /\ recoverMu = NoOne /\ pc = [o \in Ops |-> "idle"] /\ got = [o \in Ops |-> 0]
  /\ ops = 0
  /\ stop = "idle" /\ workerEnded = FALSE /\ late = FALSE
  /\ tunnel = "none" /\ reg = "none" /\ inbound = "none" /\ bound = FALSE

-----------------------------------------------------------------------------
(* Start.                                                                  *)

\* The session is closed again when its result is not ready.
StartTunnel ==
  /\ stage = "tunnel"
  /\ \/ tunnel' = "open" /\ tunnelReady' = TRUE /\ stage' = "ims"
     \/ tunnel' \in {"none", "closed"} /\ stage' = "failed" /\ UNCHANGED tunnelReady
  /\ UNCHANGED <<stopped, imsReady, smsReady, pending, voice, sms, opVars, stopVars,
                 reg, gen, background, inbound, bound>>

\* No tunnel manager, or the dataplane is disabled.
StartWithoutTunnel ==
  /\ stage = "tunnel" /\ stage' = "ims"
  /\ UNCHANGED <<instVars, sms, opVars, stopVars, worldVars>>

StartIMS ==
  /\ stage = "ims" /\ stage' = "inbound"
  /\ reg' = "active" /\ gen' = 1 /\ bound' = TRUE
  /\ imsReady' = TRUE /\ voice' = 1
  /\ UNCHANGED <<stopped, tunnelReady, smsReady, pending, sms, opVars, stopVars,
                 tunnel, background, inbound>>

CloseTunnel == tunnel' = IF tunnel = "open" THEN "closed" ELSE tunnel

\* closeTunnelAfterIMSStartFailure
StartIMSFails ==
  /\ stage = "ims" /\ stage' = "failed"
  /\ CloseTunnel
  /\ UNCHANGED <<instVars, sms, opVars, stopVars, reg, gen, background, inbound, bound>>

\* The listener is bound, or the registration has none; then the transports are
\* set and the retry worker starts.
StartInbound ==
  /\ stage = "inbound" /\ stage' = "run"
  /\ \/ inbound' = "open" /\ smsReady' = TRUE
     \/ UNCHANGED <<inbound, smsReady>>
  /\ sms' = gen
  /\ UNCHANGED <<stopped, tunnelReady, imsReady, pending, voice, opVars, stopVars,
                 tunnel, reg, gen, background, bound>>

\* The registration is closed first; whether the registrar heard of it is ignored.
StartInboundFails ==
  /\ stage = "inbound" /\ stage' = "failed"
  /\ reg' = "closed" /\ bound' \in BOOLEAN
  /\ CloseTunnel
  /\ UNCHANGED <<instVars, sms, opVars, stopVars, gen, background, inbound>>

-----------------------------------------------------------------------------
(* Operations and their recovery.                                          *)

Goto(o, place) == pc' = [pc EXCEPT ![o] = place]

\* The context of an operation has ended: the worker's by retryCancel, a
\* handler's by the close of the listener, a caller's at any time.
CtxEnded(o) ==
  CASE o = "worker" -> workerEnded
    [] o = "inbound" -> inbound = "closed"
    [] OTHER -> TRUE

\* An operation reports that the registration needs recovery.  It may have begun
\* before Stop did: nothing is asked of the state.
OperationFails(o) ==
  /\ stage = "run" /\ pc[o] = "idle" /\ ops < MaxOps
  /\ o = "inbound" => inbound # "none"
  /\ ops' = ops + 1 /\ Goto(o, "lock")
  /\ UNCHANGED <<stage, instVars, sms, recoverMu, got, stopVars, worldVars>>

\* With a Retry-After the state is marked and the timer awaited.
LockRecover(o) ==
  /\ pc[o] = "lock" /\ recoverMu = NoOne
  /\ IF stopped
       THEN Goto(o, "idle") /\ UNCHANGED recoverMu
       ELSE (Goto(o, "mark") \/ Goto(o, "recover")) /\ recoverMu' = o
  /\ UNCHANGED <<stage, instVars, sms, got, ops, stopVars, worldVars>>

\* recordIMSRecoveryPending
MarkPending(o) ==
  /\ pc[o] = "mark" /\ Goto(o, "wait")
  /\ pending' = (pending \/ ~ stopped)
  /\ UNCHANGED <<stage, stopped, tunnelReady, imsReady, smsReady, voice, sms, recoverMu, got, ops, stopVars, worldVars>>

RetryAfterEnds(o) ==
  /\ pc[o] = "wait" /\ Goto(o, "recover")
  /\ UNCHANGED <<stage, instVars, sms, recoverMu, got, ops, stopVars, worldVars>>

Leave(o, place) == recoverMu' = NoOne /\ Goto(o, place)

\* The pending mark stays.
RetryAfterCancelled(o) ==
  /\ pc[o] = "wait" /\ CtxEnded(o) /\ Leave(o, "idle")
  /\ UNCHANGED <<stage, instVars, sms, got, ops, stopVars, worldVars>>

RecoverSucceeds(o) ==
  /\ pc[o] = "recover" /\ reg = "active" /\ tunnel # "closed"
  /\ gen' = gen + 1 /\ got' = [got EXCEPT ![o] = gen + 1] /\ bound' = TRUE
  /\ Goto(o, "apply")
  /\ UNCHANGED <<stage, instVars, sms, recoverMu, ops, stopVars, tunnel, reg, background, inbound>>

RecoverFails(o) ==
  /\ pc[o] = "recover" /\ Goto(o, "failed")
  /\ UNCHANGED <<stage, instVars, sms, recoverMu, got, ops, stopVars, worldVars>>

\* Mutant: the mutex is kept on the error path.
RecordFailure_KeepsMu(o) ==
  /\ pc[o] = "failed" /\ Goto(o, "idle")
  /\ UNCHANGED <<stage, instVars, sms, recoverMu, got, ops, stopVars, worldVars>>

\* recordIMSRecoveryFailure
RecordFailure(o) ==
  /\ pc[o] = "failed" /\ Leave(o, "idle")
  /\ IF stopped
       THEN UNCHANGED <<imsReady, pending>>
       ELSE imsReady' = FALSE /\ pending' = FALSE
  /\ UNCHANGED <<stage, stopped, tunnelReady, smsReady, voice, sms, got, ops, stopVars, worldVars>>

\* Mutant: Stop is not looked at.
ApplyResult_AfterStop(o) ==
  /\ pc[o] = "apply"
  /\ voice' = got[o] /\ imsReady' = TRUE /\ pending' = FALSE
  /\ Goto(o, "swap") /\ UNCHANGED recoverMu
  /\ UNCHANGED <<stage, stopped, tunnelReady, smsReady, sms, got, ops, stopVars, worldVars>>

\* applyIMSRegistrationResult, under i.mu ...
ApplyResult(o) ==
  /\ pc[o] = "apply"
  /\ IF stopped
       THEN Leave(o, "retry") /\ UNCHANGED <<voice, imsReady, pending>>
       ELSE /\ voice' = got[o] /\ imsReady' = TRUE /\ pending' = FALSE
            /\ Goto(o, "swap") /\ UNCHANGED recoverMu
  /\ UNCHANGED <<stage, stopped, tunnelReady, smsReady, sms, got, ops, stopVars, worldVars>>

\* Mutant: the messaging service keeps its transports.
SwapTransports_Not(o) ==
  /\ pc[o] = "swap" /\ Leave(o, "retry")
  /\ UNCHANGED <<stage, instVars, sms, got, ops, stopVars, worldVars>>

\* ... and the transports of the messaging service, without it.
SwapTransports(o) ==
  /\ pc[o] = "swap" /\ sms' = got[o] /\ Leave(o, "retry")
  /\ UNCHANGED <<stage, instVars, got, ops, stopVars, worldVars>>

\* The operation is tried once more, with the transport of the recovery.
RetryOperation(o) ==
  /\ pc[o] = "retry" /\ Goto(o, "idle") /\ got' = [got EXCEPT ![o] = 0]
  /\ UNCHANGED <<stage, instVars, sms, recoverMu, ops, stopVars, worldVars>>

-----------------------------------------------------------------------------
(* What happens behind the instance.                                       *)

\* The loops of the maintenance recover on their own: the instance is not told.
MaintenanceRecovers ==
  /\ stage = "run" /\ reg = "active" /\ tunnel # "closed" /\ background < MaxBackground
  /\ background' = background + 1 /\ gen' = gen + 1 /\ bound' = TRUE
  /\ UNCHANGED <<stage, instVars, sms, opVars, stopVars, tunnel, reg, inbound>>

\* The server returns an error; handlers go on ...
InboundBreaks ==
  /\ inbound = "open" /\ inbound' = "broken"
  /\ UNCHANGED <<stage, instVars, sms, opVars, stopVars, tunnel, reg, gen, background, bound>>

\* ... and its goroutine calls markIMSInboundFailed.
MarkInboundFailed ==
  /\ inbound = "broken" /\ inbound' = "failed"
  /\ smsReady' = (smsReady /\ stopped)
  /\ UNCHANGED <<stage, stopped, tunnelReady, imsReady, pending, voice, sms, opVars, stopVars,
                 tunnel, reg, gen, background, bound>>

\* The retry worker ends with its context.
WorkerExits ==
  /\ pc["worker"] = "idle" /\ workerEnded
  /\ Goto("worker", "exited")
  /\ UNCHANGED <<stage, instVars, sms, recoverMu, got, ops, stopVars, worldVars>>

-----------------------------------------------------------------------------
(* Stop.                                                                   *)

\* The first call takes tunnel, imsClose, inbound and the worker's context out
\* of the instance; a later one finds nothing to do and changes nothing.
StopBegins ==
  /\ stage = "run" /\ stop = "idle" /\ stop' = "inbound"
  /\ stopped' = TRUE /\ tunnelReady' = FALSE
  /\ UNCHANGED <<stage, imsReady, smsReady, pending, voice, sms, opVars, workerEnded, late, worldVars>>

\* runtimeIMSInbound.close ends the context, closes the socket, whether or not the
\* server still uses it, and waits at most two seconds for the server.
StopInbound ==
  /\ stop = "inbound" /\ stop' = "worker"
  /\ inbound' = IF inbound = "none" THEN "none" ELSE "closed"
  /\ UNCHANGED <<stage, instVars, sms, opVars, workerEnded, late, tunnel, reg, gen, background, bound>>

StopWorker ==
  /\ stop = "worker" /\ stop' = "join"
  /\ workerEnded' = TRUE
  /\ UNCHANGED <<stage, instVars, sms, opVars, late, worldVars>>

WorkerJoined ==
  /\ stop = "join" /\ pc["worker"] = "exited"
  /\ stop' = "tunnel"
  /\ UNCHANGED <<stage, instVars, sms, opVars, workerEnded, late, worldVars>>

\* The context of Stop ends first.
WorkerLeft ==
  /\ stop = "join" /\ stop' = "tunnel" /\ late' = TRUE
  /\ UNCHANGED <<stage, instVars, sms, opVars, workerEnded, worldVars>>

StopTunnel ==
  /\ stop = "tunnel" /\ stop' = "ims"
  /\ CloseTunnel
  /\ UNCHANGED <<stage, instVars, sms, opVars, workerEnded, late, reg, gen, background, inbound, bound>>

\* The deregistration reaches the registrar unless its tunnel is closed.
StopIMS ==
  /\ stop = "ims" /\ stop' = "done"
  /\ reg' = "closed" /\ bound' = (bound /\ tunnel = "closed")
  /\ UNCHANGED <<stage, instVars, sms, opVars, workerEnded, late, tunnel, gen, background, inbound>>

-----------------------------------------------------------------------------
Start == StartTunnel \/ StartWithoutTunnel \/ StartIMS \/ StartIMSFails \/ StartInbound \/ StartInboundFails
Recovery(o) ==
  \/ MarkPending(o) \/ RetryAfterEnds(o) \/ RetryAfterCancelled(o)
  \/ RecoverSucceeds(o) \/ RecoverFails(o) \/ RecordFailure(o)
  \/ ApplyResult(o) \/ SwapTransports(o) \/ RetryOperation(o)
Stop == StopInbound \/ StopWorker \/ WorkerJoined \/ StopTunnel \/ StopIMS

Next ==
  \/ Start
  \/ \E o \in Ops : OperationFails(o) \/ LockRecover(o) \/ Recovery(o)
  \/ WorkerExits
  \/ MaintenanceRecovers \/ InboundBreaks \/ MarkInboundFailed
  \/ StopBegins \/ Stop \/ WorkerLeft

Spec == Init /\ [][Next]_vars

\* Goroutines run, recoveries return (RecoverReturns of ImsRegistration), timers
\* expire and a goroutine that waits for imsRecoverMu gets it in the end
\* (sync.Mutex).  No operation has to fail, and the context of Stop has no end.
Fairness ==
  /\ \A o \in Ops : WF_vars(Recovery(o)) /\ SF_vars(LockRecover(o))
  /\ WF_vars(WorkerExits) /\ WF_vars(Stop)

FairSpec == Spec /\ Fairness

-----------------------------------------------------------------------------
(* Properties.                                                             *)

\* A Start that returns an error has closed what it had opened, in whatever stage
\* it failed.
FailedStartLeavesNothing ==
  stage = "failed" => tunnel # "open" /\ reg # "active" /\ inbound = "none"

\* An operation that is tried again finds every transport on the registration its
\* recovery made, or on a newer one.
RetryIsFresh == \A o \in Ops : pc[o] = "retry" /\ ~ stopped => voice >= got[o] /\ sms >= got[o]

\* Once Stop has marked the instance, no recovery, no inbound failure and no late
\* result changes its state or its voice agent.
StopFreezes == [][stopped => UNCHANGED <<readyVars, voice>>]_vars

\* When Stop has returned nothing is left running: the tunnel, the
\* registration and the listener are closed and the retry worker has ended, unless
\* the context of Stop did not last.
StoppedReleasesAll ==
  stop = "done" =>
    /\ tunnel # "open" /\ reg = "closed" /\ inbound \in {"none", "closed"}
    /\ late \/ pc["worker"] = "exited"

\* Stop returns although the worker may be queueing for a recovery that another
\* operation delays.
StopCompletes == stop = "inbound" ~> stop = "done"

\* Every operation that asks for a recovery returns.
OperationsReturn == \A c \in Callers : pc[c] = "lock" ~> pc[c] = "idle"

\* What docs/FEATURES.md says of the shutdown: it de-registers.
ShutdownDeregisters ==
  stop = "done" /\ (\A o \in Ops : pc[o] \in {"idle", "exited"})
    => ~ bound

\* A Start that failed and a Stop that returned leave nothing behind, and what a
\* recovery made is what the operations use.
NothingLeftBehind == FailedStartLeavesNothing /\ StoppedReleasesAll /\ RetryIsFresh

\* Operations and Stop return.
EverythingReturns == OperationsReturn /\ StopCompletes
=============================================================================

------------------------------- MODULE MCVoice -------------------------------
(***************************************************************************)
(* The two components a phone call rests on, on small instances: the IMS   *)
(* registration with its refreshes, recoveries and Close, and an outgoing  *)
(* call.  The initial state picks the one that runs (focus).               *)
(***************************************************************************)
EXTENDS Integers, FiniteSets

VARIABLES
  focus,     \* the component that runs
  closed, cancelled, registered, session, nextCSeq, count, notBefore,
  recoverMu, imsFlow, plans, net, imsPc, req, events, untracked, unjoined,
  gateway, dialog, relay, callFlow, callPc, loc, ops, top, hist

Ims == INSTANCE ImsRegistration WITH
  Callers <- {"caller"}, NoOne <- "nobody", Backoff <- TRUE, MaxSends <- 2,
  MaxEvents <- 2, flow <- imsFlow, pc <- imsPc
Call == INSTANCE OutboundCall WITH
  Clients <- {"client"}, Serialised <- FALSE, MaxCSeq <- 3,
  Refreshes <- TRUE, MaxTries <- 1, MaxOps <- 2, flow <- callFlow,
  pc <- callPc

ASSUME Ims!CallersAssumption /\ Ims!BoundsAssumption

imsVars == <<closed, cancelled, registered, session, nextCSeq, count,
              notBefore, recoverMu, imsFlow, plans, net, imsPc, req, events,
              untracked, unjoined>>
callVars == <<gateway, dialog, relay, callFlow, callPc, loc, ops, top, hist>>
vars == <<focus, imsVars, callVars>>

Init ==
  /\ focus \in {"ims", "call"}
  /\ Ims!Init /\ Call!Init

\* Only the component in focus steps.
ImsOnly == focus = "ims" /\ UNCHANGED <<focus, callVars>>
CallOnly == focus = "call" /\ UNCHANGED <<focus, imsVars>>

Next ==
  \/ ImsOnly /\ Ims!Next
  \/ CallOnly /\ Call!Next

\* Fairness: goroutine g of the component that runs does what it can, and round
\* trips end by their deadline.
Runs(g) ==
  \/ /\ ImsOnly
     /\ \/ g <= 4 /\ Ims!Runs(<<"refresh", "keepalive", "caller", "close">>[g])
        \/ g = 5 /\ Ims!BackoffElapses
  \/ CallOnly /\ Call!Runs(<<"invite", "bye", "cancel", "refresh", "client">>[g])

Spec ==
  /\ Init /\ [][Next]_vars
  /\ \A g \in 1 .. 5 : WF_vars(Runs(g))

-----------------------------------------------------------------------------
\* ImsRegistration: whenever nothing is under way, the next REGISTER fits what the
\* registrar holds, and Close leaves no installed plan behind.
RegistrarTracked == Ims!RegistrarTracked /\ Ims!CloseLeavesNoPlan

\* ImsRegistration: Close does not let the device register again, and no recovery
\* starts before NextAttemptAt.
StaysDeregistered == Ims!StaysDeregistered /\ Ims!BackoffRespected

\* OutboundCall: gateway, agent and relay agree on the call whenever nothing is
\* under way.
CallStateAgrees == Call!CallStateAgrees

\* OutboundCall: every request of the dialog has a CSeq above the earlier ones.
CSeqFresh == Call!CSeqFresh

\* OutboundCall: the refresh timer is kept, and never runs while a BYE is out.
RefreshKept == Call!RefreshKept /\ Call!NoTimerWhileTerminating

\* Close and Recover of the registration return, and so does every operation on
\* the call.
VoiceReturns == Ims!CloseCompletes /\ Ims!RecoverReturns /\ Call!CallsReturn
=============================================================================

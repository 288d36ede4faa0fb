-------------------------- MODULE ImsRegistration ---------------------------
(***************************************************************************)
(* imsRegistrationMaintenance of runtimehost/imsregistrar.go: what keeps an *)
(* IMS registration alive after RegisterIMS made it.  A refresh loop and a *)
(* keepalive loop run until Close; both, and any caller of Recover, may    *)
(* replace the registration by a new one under a new Call-ID.  Close stops *)
(* the loops, deregisters, removes the XFRM plans and closes the flow.     *)
(*                                                                         *)
(* All REGISTER requests go through one WireSIPFlow, whose lock is held for *)
(* a whole round trip: a round trip is one step here.  A RegisterSession    *)
(* operation (Register, Refresh, Deregister) is one or more round trips,   *)
(* each with the next CSeq; between two of them the flow is free.          *)
(*                                                                         *)
(* The registrar of the network follows RFC 3261 section 10.3: within one  *)
(* Call-ID it accepts only growing CSeq numbers.                           *)
(***************************************************************************)
EXTENDS Integers, FiniteSets

CONSTANTS Callers,      \* goroutines that call Recover
          NoOne,
          Backoff,      \* RecoveryBackoffInitial > 0
          MaxSends,     \* bound on round trips of one operation
          MaxEvents     \* bound on expiries of the refresh timer and on lost,
                        \* refused and failed round trips

Loops == {"refresh", "keepalive"}
Actors == Loops \cup Callers
Senders == Actors \cup {"close"}

CallersAssumption ==
  IsFiniteSet(Callers) /\ NoOne \notin Senders /\ Callers \cap {"refresh", "keepalive", "close"} = {}
BoundsAssumption ==
  /\ Backoff \in BOOLEAN /\ MaxSends \in Nat \ {0}
  /\ MaxEvents \in Nat

VARIABLES
  closed,       \* m.closed
  cancelled,    \* the context of the two loops has ended
  registered,   \* m.registered
  session,      \* m.session.CallID: the number of the recovery that made it
  nextCSeq,     \* m.nextCSeq
  count,        \* m.recoveryCount
  notBefore,    \* recoveryState.NextAttemptAt lies in the future
  recoverMu,    \* holder of m.recoverMu
  flow,         \* the WireSIPFlow: "open" or "closed"
  plans,        \* XFRM plans in the kernel: "recorded" by the installer, or "partial"
  net,          \* the registrar's binding of our Contact
  pc,           \* what each goroutine is doing
  req,          \* the operation each goroutine runs
  events,       \* history: expiries of the refresh timer and faults
  untracked,    \* history until Close: the registrar changed and the answer was
                \* lost, or a refresh and a recovery were under way at once
  unjoined      \* history: a Recover was past its checks when Close began, or
                \* Close gave up waiting for the loops

stateVars == <<registered, session, nextCSeq, notBefore>>
closeVars == <<closed, cancelled, unjoined>>
worldVars == <<flow, plans, net>>
vars == <<stateVars, count, recoverMu, closeVars, worldVars, pc, req, events, untracked>>

MaxCalls == MaxEvents + Cardinality(Callers)
MaxCSeq == 3 + (MaxEvents + 1) * MaxSends

Requests == [op : {"none", "refresh", "register", "deregister"}, call : 0 .. MaxCalls,
             cseq : 1 .. MaxCSeq, sends : 1 .. MaxSends, after : BOOLEAN]
NoRequest == [op |-> "none", call |-> 0, cseq |-> 1, sends |-> 1, after |-> FALSE]
Places == {"wait", "stopped", "idle", "done", "copy", "send", "install", "record",
           "enter", "backoff", "reset", "retry", "join", "cleanup", "flow"}

TypeOK ==
  /\ closed \in BOOLEAN /\ cancelled \in BOOLEAN /\ registered \in BOOLEAN
  /\ session \in 0 .. MaxCalls /\ count \in 0 .. MaxCalls
  /\ nextCSeq \in 1 .. MaxCSeq
  /\ notBefore \in BOOLEAN
  /\ recoverMu \in Actors \cup {NoOne}
  /\ flow \in {"open", "closed"} /\ plans \subseteq {"recorded", "partial"}
  /\ net \in [bound : BOOLEAN, call : 0 .. MaxCalls, cseq : 1 .. MaxCSeq]
  /\ pc \in [Senders -> Places] /\ req \in [Senders -> Requests]
  /\ events \in 0 .. MaxEvents
  /\ untracked \in BOOLEAN /\ unjoined \in BOOLEAN

\* RegisterIMS has registered: its first REGISTER was challenged, the second
\* accepted, and the challenge agreed on IPsec.
Init ==
  /\ closed = FALSE /\ cancelled = FALSE /\ registered = TRUE
  /\ session = 0 /\ nextCSeq = 3 /\ count = 0 /\ notBefore = FALSE
  /\ recoverMu = NoOne /\ flow = "open" /\ plans = {"recorded"}
  /\ net = [bound |-> TRUE, call |-> 0, cseq |-> 2]
  /\ pc = [s \in Senders |-> IF s \in Loops THEN "wait" ELSE "idle"]
  /\ req = [s \in Senders |-> NoRequest]
  /\ events = 0
  /\ untracked = FALSE /\ unjoined = FALSE

-----------------------------------------------------------------------------
(* Contexts and returns.                                                   *)

Goto(s, place) == pc' = [pc EXCEPT ![s] = place]

\* The values ctx.Err() # nil may have for s: the loops share the context that
\* Close ends, a caller brings its own.
CtxEnded(s) == IF s \in Loops THEN {cancelled} ELSE BOOLEAN

\* A recovery or a refresh returns.
Return(s) ==
  /\ Goto(s, IF s \in Loops THEN "wait" ELSE "done")
  /\ req' = [req EXCEPT ![s] = NoRequest]

Event == events < MaxEvents /\ events' = events + 1

\* Another goroutine is between the start of a REGISTER and its result.
OtherRegisters(a) == \E t \in Actors \ {a} : pc[t] \in {"copy", "send", "install", "record"}

LosesTrack(b) == untracked' = (untracked \/ (b /\ ~ closed))

\* Mutant: a recovery does not look at m.closed.
NotNeeded_IgnoresClosed == ~ registered

\* The condition under which a recovery does nothing.
NotNeeded == closed \/ ~ registered

-----------------------------------------------------------------------------
(* The loops.                                                              *)

LoopStops(l) ==
  /\ pc[l] = "wait" /\ cancelled
  /\ Goto(l, "stopped")
  /\ UNCHANGED <<stateVars, count, recoverMu, closeVars, worldVars, req, events, untracked>>

\* The refresh timer or the retry interval of refreshLoop expires, and refresh
\* copies the CSeq under m.mu ...
RefreshDue ==
  /\ pc["refresh"] = "wait" /\ Event
  /\ IF registered
       THEN /\ req' = [req EXCEPT !["refresh"] =
                        [op |-> "refresh", call |-> session, cseq |-> nextCSeq, sends |-> 1, after |-> FALSE]]
            /\ Goto("refresh", "copy") /\ LosesTrack(OtherRegisters("refresh"))
       ELSE UNCHANGED <<pc, req, untracked>>
  /\ UNCHANGED <<stateVars, count, recoverMu, closeVars, worldVars>>

\* ... and m.session without it.
RefreshCopies ==
  /\ pc["refresh"] = "copy"
  /\ req' = [req EXCEPT !["refresh"].call = session] /\ Goto("refresh", "send")
  /\ UNCHANGED <<stateVars, count, recoverMu, closeVars, worldVars, events, untracked>>

\* A keepalive that succeeds changes nothing; one that fails starts a recovery.
KeepaliveFails ==
  /\ pc["keepalive"] = "wait" /\ registered /\ flow = "open" /\ Event
  /\ Goto("keepalive", IF cancelled THEN "stopped" ELSE "enter")
  /\ UNCHANGED <<stateVars, count, recoverMu, closeVars, worldVars, req, untracked>>

\* A late refresh may have set registered again after Close.
KeepaliveFlowClosed ==
  /\ pc["keepalive"] = "wait" /\ registered /\ flow = "closed"
  /\ Goto("keepalive", "stopped")
  /\ UNCHANGED <<stateVars, count, recoverMu, closeVars, worldVars, req, events, untracked>>

-----------------------------------------------------------------------------
(* recoverRegistration, up to its REGISTER.                                *)

\* Recover is called by the runtime instance when an operation failed.
CallRecover(c) ==
  /\ pc[c] = "idle"
  /\ Goto(c, "enter")
  /\ UNCHANGED <<stateVars, count, recoverMu, closeVars, worldVars, req, events, untracked>>

EnterCancelled(a) ==
  /\ pc[a] = "enter" /\ TRUE \in CtxEnded(a)
  /\ Return(a)
  /\ UNCHANGED <<stateVars, count, recoverMu, closeVars, worldVars, events, untracked>>

EnterLocks(a) ==
  /\ pc[a] = "enter" /\ recoverMu = NoOne
  /\ IF NotNeeded
       THEN Return(a) /\ UNCHANGED recoverMu
       ELSE Goto(a, IF notBefore THEN "backoff" ELSE "reset") /\ recoverMu' = a /\ UNCHANGED req
  /\ UNCHANGED <<stateVars, count, closeVars, worldVars, events, untracked>>

Leave(a) == recoverMu' = NoOne /\ Return(a)

BackoffEnds(a) ==
  /\ pc[a] = "backoff" /\ ~ notBefore
  /\ IF NotNeeded THEN Leave(a) ELSE Goto(a, "reset") /\ UNCHANGED <<recoverMu, req>>
  /\ UNCHANGED <<stateVars, count, closeVars, worldVars, events, untracked>>

\* Mutant: this return leaves recoverMu locked.
WaitCancelled_KeepsMu(a) ==
  /\ pc[a] \in {"backoff", "retry"} /\ TRUE \in CtxEnded(a)
  /\ Return(a)
  /\ UNCHANGED <<stateVars, count, recoverMu, closeVars, worldVars, events, untracked>>

WaitCancelled(a) ==
  /\ pc[a] \in {"backoff", "retry"} /\ TRUE \in CtxEnded(a)
  /\ Leave(a)
  /\ UNCHANGED <<stateVars, count, closeVars, worldVars, events, untracked>>

\* Every attempt has a Call-ID of its own.
BeginRegister(a) ==
  IF NotNeeded
    THEN Leave(a) /\ UNCHANGED <<count, untracked>>
    ELSE /\ count' = count + 1
         /\ req' = [req EXCEPT ![a] =
                     [op |-> "register", call |-> count + 1, cseq |-> 1, sends |-> 1, after |-> FALSE]]
         /\ Goto(a, "send") /\ UNCHANGED recoverMu
         /\ LosesTrack(OtherRegisters(a))

\* ResetToNextTarget; a Retry-After is waited for only on the same P-CSCF.
ResetFlow(a) ==
  /\ pc[a] = "reset"
  /\ \/ flow = "closed" /\ Leave(a) /\ UNCHANGED <<notBefore, count, untracked>>
     \/ flow = "open" /\ BeginRegister(a) /\ UNCHANGED notBefore
     \/ /\ flow = "open" /\ req[a].after /\ Goto(a, "retry")
        /\ notBefore' = (notBefore \/ ~ NotNeeded) /\ UNCHANGED <<recoverMu, req, count, untracked>>
  /\ UNCHANGED <<registered, session, nextCSeq, closeVars, worldVars, events>>

RetryWaited(a) ==
  /\ pc[a] = "retry" /\ ~ notBefore
  /\ BeginRegister(a)
  /\ UNCHANGED <<stateVars, closeVars, worldVars, events>>

\* Time passes NextAttemptAt.
BackoffElapses ==
  /\ notBefore /\ notBefore' = FALSE
  /\ UNCHANGED <<registered, session, nextCSeq, count, recoverMu, closeVars, worldVars, pc, req, events, untracked>>

-----------------------------------------------------------------------------
(* The round trips of Register, Refresh and Deregister.                    *)

\* The registrar's rule.
RegistrarTakes(r) == ~ net.bound \/ net.call # r.call \/ r.cseq > net.cseq

RegistrarAfter(r) ==
  IF r.op = "deregister" THEN [net EXCEPT !.bound = FALSE]
  ELSE [bound |-> TRUE, call |-> r.call, cseq |-> r.cseq]

\* An operation ends with an error.  shouldRecoverRegistration decides whether
\* a failed refresh becomes a recovery; a failed recovery is recorded unless its
\* context has ended; a failed deregistration does not stop Close.
Failed(s, ended, recoverable, after) ==
  CASE req[s].op = "refresh" ->
         /\ IF recoverable
              THEN Goto(s, "enter") /\ req' = [req EXCEPT ![s] = [NoRequest EXCEPT !.after = after]]
              ELSE Return(s)
         /\ UNCHANGED <<recoverMu, notBefore>>
    [] req[s].op = "register" ->
         /\ notBefore' = IF ended THEN notBefore ELSE Backoff
         /\ Leave(s)
    [] req[s].op = "deregister" ->
         /\ Goto(s, "cleanup") /\ req' = [req EXCEPT ![s] = NoRequest]
         /\ UNCHANGED <<recoverMu, notBefore>>

SendRefused(s) ==
  /\ pc[s] = "send" /\ flow = "closed"
  /\ \E ended \in CtxEnded(s) : Failed(s, ended, FALSE, FALSE)
  /\ UNCHANGED <<registered, session, nextCSeq, count, closeVars, worldVars, events, untracked>>

Accepted(s) ==
  /\ pc[s] = "send" /\ flow = "open" /\ RegistrarTakes(req[s])
  /\ net' = RegistrarAfter(req[s])
  /\ IF req[s].op = "deregister"
       THEN Goto(s, "cleanup") /\ req' = [req EXCEPT ![s] = NoRequest]
       ELSE Goto(s, "record") /\ UNCHANGED req
  /\ UNCHANGED <<stateVars, count, recoverMu, closeVars, flow, plans, events, untracked>>

Challenged(s) ==
  /\ pc[s] = "send" /\ flow = "open" /\ req[s].sends < MaxSends
  /\ Goto(s, "install")
  /\ UNCHANGED <<stateVars, count, recoverMu, closeVars, worldVars, req, events, untracked>>

\* The context ends during the round trip, or the request or its answer is lost
\* and the round trip times out.  context.Canceled starts no recovery.
AnswerLost(s) ==
  /\ pc[s] = "send" /\ flow = "open"
  /\ \/ UNCHANGED <<net, untracked>>
     \/ RegistrarTakes(req[s]) /\ net' = RegistrarAfter(req[s]) /\ LosesTrack(TRUE)
  /\ \E ended \in CtxEnded(s) :
       /\ IF ended THEN UNCHANGED events ELSE Event
       /\ Failed(s, ended, ~ ended, FALSE)
  /\ UNCHANGED <<registered, session, nextCSeq, count, closeVars, flow, plans>>

\* A final answer that is no success: 403, 503 with or without Retry-After, ...
Rejected(s) ==
  /\ pc[s] = "send" /\ flow = "open" /\ Event
  /\ \E ended \in CtxEnded(s), recoverable, after \in BOOLEAN :
       (after => recoverable) /\ Failed(s, ended, recoverable, after)
  /\ UNCHANGED <<registered, session, nextCSeq, count, closeVars, worldVars, untracked>>

\* The registrar's answer to a CSeq it has seen is a 500.
RejectedAsOld(s) ==
  /\ pc[s] = "send" /\ flow = "open" /\ ~ RegistrarTakes(req[s])
  /\ \E ended \in CtxEnded(s) : Failed(s, ended, TRUE, FALSE)
  /\ UNCHANGED <<registered, session, nextCSeq, count, closeVars, worldVars, events, untracked>>

\* installChallengeSecurityPlan, then useChallengeSecurityAssociation, which
\* needs an open flow; then the request again with the next CSeq.
InstallPlan(s) ==
  /\ pc[s] = "install"
  /\ plans' = plans \cup {"recorded"}
  /\ \/ flow = "closed" /\ \E ended \in CtxEnded(s) : Failed(s, ended, FALSE, FALSE)
     \/ /\ flow = "open" /\ Goto(s, "send")
        /\ req' = [req EXCEPT ![s].cseq = @ + 1, ![s].sends = @ + 1]
        /\ UNCHANGED <<recoverMu, notBefore>>
  /\ UNCHANGED <<registered, session, nextCSeq, count, closeVars, flow, net, events, untracked>>

\* A command of the plan fails, and the commands before it are undone: under the
\* same context, so that nothing is undone when it is the context that ended.
InstallFails(s) ==
  /\ pc[s] = "install"
  /\ \E ended \in CtxEnded(s) :
       /\ IF ended
            THEN plans' \in {plans, plans \cup {"partial"}} /\ UNCHANGED events
            ELSE Event /\ UNCHANGED plans
       /\ Failed(s, ended, ~ ended, FALSE)
  /\ UNCHANGED <<registered, session, nextCSeq, count, closeVars, flow, net, untracked>>

\* The challenge agreed on no security association.
NoPlan(s) ==
  /\ pc[s] = "install"
  /\ Goto(s, "send") /\ req' = [req EXCEPT ![s].cseq = @ + 1, ![s].sends = @ + 1]
  /\ UNCHANGED <<stateVars, count, recoverMu, closeVars, worldVars, events, untracked>>

\* Mutant: the CSeq of the request that was accepted is used again.
RecordRefresh_SameCSeq ==
  /\ pc["refresh"] = "record" /\ req["refresh"].op = "refresh"
  /\ registered' = TRUE /\ nextCSeq' = req["refresh"].cseq
  /\ Return("refresh")
  /\ UNCHANGED <<session, notBefore, count, recoverMu, closeVars, worldVars, events, untracked>>

\* refresh stores its result, whatever happened to the session meanwhile.
RecordRefresh ==
  /\ pc["refresh"] = "record" /\ req["refresh"].op = "refresh"
  /\ registered' = TRUE /\ nextCSeq' = req["refresh"].cseq + 1
  /\ Return("refresh")
  /\ UNCHANGED <<session, notBefore, count, recoverMu, closeVars, worldVars, events, untracked>>

\* recoverRegistration stores its result unless the maintenance was closed.
RecordRecovery(a) ==
  /\ pc[a] = "record" /\ req[a].op = "register"
  /\ IF closed
       THEN UNCHANGED stateVars
       ELSE /\ registered' = TRUE /\ session' = req[a].call
            /\ nextCSeq' = req[a].cseq + 1 /\ notBefore' = FALSE
  /\ Leave(a)
  /\ UNCHANGED <<count, closeVars, worldVars, events, untracked>>

-----------------------------------------------------------------------------
(* Close.                                                                  *)

CloseStarts ==
  /\ pc["close"] = "idle"
  /\ closed' = TRUE /\ cancelled' = TRUE
  /\ unjoined' = \E c \in Callers : pc[c] \notin {"idle", "enter", "done"}
  /\ Goto("close", "join")
  /\ UNCHANGED <<stateVars, count, recoverMu, worldVars, req, events, untracked>>

\* The request of the deregistration, read under m.mu.
CloseSnapshot ==
  /\ registered' = FALSE
  /\ IF registered
       THEN /\ req' = [req EXCEPT !["close"] =
                        [op |-> "deregister", call |-> session, cseq |-> nextCSeq, sends |-> 1, after |-> FALSE]]
            /\ Goto("close", "send")
       ELSE Goto("close", "cleanup") /\ UNCHANGED req

CloseJoins ==
  /\ pc["close"] = "join" /\ \A l \in Loops : pc[l] = "stopped"
  /\ CloseSnapshot
  /\ UNCHANGED <<session, nextCSeq, notBefore, count, recoverMu, closeVars, worldVars, events, untracked>>

\* The context of Close ends first.
CloseGivesUp ==
  /\ pc["close"] = "join" /\ unjoined' = TRUE
  /\ CloseSnapshot
  /\ UNCHANGED <<session, nextCSeq, notBefore, count, recoverMu, closed, cancelled, worldVars, events, untracked>>

\* cleanupIMSRegistrationSecurityPlans, under a context of its own: the plans the
\* installer has recorded.
CloseCleans ==
  /\ pc["close"] = "cleanup"
  /\ plans' = plans \ {"recorded"} /\ Goto("close", "flow")
  /\ UNCHANGED <<stateVars, count, recoverMu, closeVars, flow, net, req, events, untracked>>

CloseFlow ==
  /\ pc["close"] = "flow"
  /\ flow' = "closed" /\ Goto("close", "done")
  /\ UNCHANGED <<stateVars, count, recoverMu, closeVars, plans, net, req, events, untracked>>

-----------------------------------------------------------------------------
RoundTrip(s) ==
  SendRefused(s) \/ Accepted(s) \/ Challenged(s) \/ AnswerLost(s) \/ Rejected(s) \/ RejectedAsOld(s)
Install(s) == InstallPlan(s) \/ InstallFails(s) \/ NoPlan(s)
Wait(a) == BackoffEnds(a) \/ WaitCancelled(a) \/ RetryWaited(a)
Close == CloseJoins \/ CloseGivesUp \/ CloseCleans \/ CloseFlow

Next ==
  \/ RefreshDue \/ RefreshCopies \/ RecordRefresh
  \/ \E l \in Loops : LoopStops(l)
  \/ KeepaliveFails \/ KeepaliveFlowClosed
  \/ \E c \in Callers : CallRecover(c)
  \/ \E a \in Actors : EnterCancelled(a) \/ EnterLocks(a) \/ Wait(a) \/ ResetFlow(a) \/ RecordRecovery(a)
  \/ BackoffElapses
  \/ \E s \in Senders : RoundTrip(s) \/ Install(s)
  \/ CloseStarts \/ Close

Spec == Init /\ [][Next]_vars

\* Goroutines run, round trips time out, timers expire and the mutex recoverMu
\* is given to one that waits for it when it is free.  Nothing is
\* assumed of the refresh timer, the callers, the contexts or the network.
\* Runs(s) is what a goroutine does on its own once it has something to do.
Runs(s) ==
  \/ RoundTrip(s) \/ Install(s)
  \/ s \in Actors /\ (EnterLocks(s) \/ Wait(s) \/ ResetFlow(s) \/ RecordRecovery(s))
  \/ s \in Loops /\ LoopStops(s)
  \/ s = "refresh" /\ (RefreshCopies \/ RecordRefresh)
  \/ s = "close" /\ (CloseJoins \/ CloseCleans \/ CloseFlow)

-----------------------------------------------------------------------------
(* Properties.                                                             *)

Quiet == /\ \A l \in Loops : pc[l] \in {"wait", "stopped"}
         /\ \A c \in Callers : pc[c] \in {"idle", "done"}

\* What the maintenance stores is what the registrar holds: whenever nothing is
\* under way, the next REGISTER goes out under the registrar's Call-ID and with a
\* CSeq it has not seen.  Exempt are the case the code cannot know, an answer that
\* was lost, and the one it does not look at, a refresh and a recovery that
\* overlap: refresh stores its result whatever became of the session.
RegistrarTracked ==
  ~ closed /\ Quiet /\ ~ untracked =>
    net.bound /\ net.call = session /\ net.cseq < nextCSeq

\* Recovery attempts, whoever starts them, are never sent before NextAttemptAt:
\* recoverMu is held from the check until the result is recorded.
BackoffRespected == [][count' > count => ~ notBefore]_vars

\* Close leaves no installed plan behind, if its context lasts until the loops
\* have stopped and no Recover was past its checks when it began.
CloseLeavesNoPlan == pc["close"] = "done" /\ ~ unjoined => "recorded" \notin plans

\* Nor is the device registered again, under the same condition, once the
\* registrar has removed its binding.
StaysDeregistered == [][~ net.bound /\ ~ unjoined => ~ net'.bound]_vars

\* Close ends although the loops may be anywhere in a recovery, and although a
\* caller may hold recoverMu over a wait.
CloseCompletes == []<>(closed => pc["close"] = "done")

\* Every call of Recover returns.
RecoverReturns == \A c \in Callers : []<>(pc[c] \in {"idle", "done"})
=============================================================================

------------------------------ MODULE WireFlow --------------------------------
(***************************************************************************)
(* WireSIPFlow (voiceclient/wire_flow.go): the one SIP connection that     *)
(* registration, calls and messages share.  f.mu serialises the operations *)
(* and is held for a whole round trip, over all its servers, retries and   *)
(* redirects, so at most one caller is past the lock: its progress is txn. *)
(*                                                                         *)
(* The network is external.  A server that got a request may answer it     *)
(* with any of Codes; packets are delayed and duplicated, and a lost one   *)
(* is one that is never read.  A packet sent to a connection that is       *)
(* closed meanwhile is gone; one sent to the protected port is not.        *)
(* Time inside a transaction is the part of Timeout already waited: a read *)
(* waits until the next retransmission or the deadline, whichever is first.*)
(***************************************************************************)
EXTENDS SipTransaction, SipRecovery, FiniteSets, TLC

CONSTANTS Callers,               \* goroutines that use the flow
          Methods,               \* the methods they send
          Resolved,              \* what the resolver returns, best server first
          Codes,                 \* the status codes servers answer with
          RedirectTo,            \* the Contact URI of a 3xx answer
          Timeout,               \* flow timeout, in units of timer T1
          MaxRetransmits,        \* f.MaxRetransmits, 0 = no limit
          maxSIPRedirectTargets, \* 4 in the code
          QueueCap,              \* capacity of responsePacketCh, 32 in the code
          MaxOps,                \* bound: round trips and writes started
          MaxMaint,              \* bound: other operations
          MaxPackets,            \* bound: packets the servers send
          NoCaller

VARIABLES flow,     \* the fields of WireSIPFlow f.mu guards
          queue,    \* responsePacketCh
          net,      \* packets on their way to this client
          lock,     \* holder of f.mu
          txn,      \* the round trip of the lock's holder
          call,     \* per caller: idle, waiting for f.mu, or holding it
          ops, maint, packets  \* budgets used

vars == <<flow, queue, net, lock, txn, call, ops, maint, packets>>

TimerConfig == [T1 |-> 0, T2 |-> 0, T4 |-> 0]   \* no override: the default timers

Result(err, code, own) == [err |-> err, code |-> code, own |-> own]

NoTxn ==
    [pc |-> "none", method |-> "none", attempts |-> 0, redirects |-> 0,
     state |-> "none", waited |-> 0, interval |-> 0, retransmits |-> 0,
     exhausted |-> FALSE, cancelled |-> FALSE, result |-> Result("none", 0, FALSE),
     rung |-> FALSE, tried |-> {}, abandoned |-> FALSE]

NewTxn(method) == [NoTxn EXCEPT !.pc = "ensure", !.method = method]

Idle == [pc |-> "idle", method |-> "none"]

FlowInit ==
    /\ \E stream \in BOOLEAN :
         flow = [closed |-> FALSE, stream |-> stream, conn |-> NoURI, server |-> NoURI,
                 targets |-> <<>>, idx |-> 1, sec |-> FALSE, external |-> FALSE]
    /\ queue = <<>> /\ net = {} /\ lock = NoCaller /\ txn = NoTxn
    /\ call = [c \in Callers |-> Idle]
    /\ ops = 0 /\ maint = 0 /\ packets = 0

-----------------------------------------------------------------------------
(* Pieces of the critical sections *)

closeConnLocked(f) == [f EXCEPT !.conn = NoURI]

(* Datagrams addressed to a closed connection are gone; the protected port *)
(* and the inbound server's queue outlive the connection.                  *)
NetAfter(f, g) == IF f.conn # NoURI /\ g.conn = NoURI /\ ~g.sec /\ ~g.external THEN {} ELSE net

MutTargetCount(f) == Len(f.targets) - 1
targetCountLocked(f) == IF f.targets = <<>> THEN 1 ELSE Len(f.targets)

advanceTargetLocked(f) ==
    IF Len(f.targets) <= 1 THEN f
    ELSE [f EXCEPT !.idx = (f.idx % Len(f.targets)) + 1]

CanAdvance(f) == Len(f.targets) > 1

(* ensureTargetsLocked: a configured server replaces the resolved list.    *)
ensureTargetsLocked(f) ==
    LET g == CASE f.server # NoURI /\ (f.targets = <<>> \/ f.targets[1] # f.server) ->
                    [f EXCEPT !.targets = <<f.server>>, !.idx = 1]
               [] f.server = NoURI /\ f.targets = <<>> ->
                    [f EXCEPT !.targets = appendSIPTargets(<<>>, Resolved), !.idx = 1]
               [] OTHER -> f
    IN  IF g.idx \in DOMAIN g.targets THEN g ELSE [g EXCEPT !.idx = 1]

ConnUsable(f) ==
    /\ f.conn # NoURI
    /\ \/ f.server = NoURI \/ f.conn = f.server
       \/ LET g == ensureTargetsLocked(f) IN g.targets[g.idx] = f.conn

redirectToResponseTargetsLocked(f, resp) ==
    sipTargetsWithRedirects(f.targets, f.idx, sipRedirectTargets(resp))

(* History for the properties: the servers tried, whether the current      *)
(* attempt was answered provisionally, and whether such an attempt timed   *)
(* out without its final response.                                         *)
EndAttempt(t, err) ==
    [t EXCEPT !.abandoned = @ \/ (t.rung /\ isSIPTimeout(err)), !.rung = FALSE]

Return(f, t, result) ==
    /\ flow' = f
    /\ call' = [call EXCEPT ![lock] = Idle]
    /\ lock' = NoCaller
    /\ txn' = [NoTxn EXCEPT !.pc = "done", !.method = t.method, !.tried = t.tried, !.result = result]

Continue(f, t) ==
    /\ flow' = f /\ txn' = t
    /\ UNCHANGED <<lock, call>>

(* shouldRetry: the error of one attempt is retried on the next server, at *)
(* most once per known server, unless the call was cancelled, a final      *)
(* response was already under way, or the error says nothing of a server.  *)
ShouldRetry(f, err) ==
    /\ ~txn.cancelled /\ err # "final-timeout" /\ isSIPRetryableTransportError(err)
    /\ txn.attempts + 1 < targetCountLocked(f)
    /\ CanAdvance(f)

RetryOrReturn(f, t, err) ==
    IF ShouldRetry(f, err)
    THEN Continue(advanceTargetLocked(f), [EndAttempt(t, err) EXCEPT !.pc = "ensure", !.attempts = @ + 1])
    ELSE Return(f, EndAttempt(t, err), Result(IF txn.cancelled THEN "cancelled" ELSE err, 0, FALSE))

-----------------------------------------------------------------------------
(* Operations of the callers *)

(* RoundTripRegister, RoundTripRequest, RoundTripInvite and                *)
(* WriteRequest (an ACK: nothing is read back) start by taking f.mu.       *)
Begin(c, method) ==
    /\ call[c].pc = "idle" /\ ops < MaxOps
    /\ call' = [call EXCEPT ![c] = [Idle EXCEPT !.pc = "waiting", !.method = method]]
    /\ ops' = ops + 1
    /\ UNCHANGED <<flow, queue, net, lock, txn, packets, maint>>

Acquire(c) ==
    /\ call[c].pc = "waiting" /\ lock = NoCaller
    /\ lock' = c
    /\ txn' = NewTxn(call[c].method)
    /\ call' = [call EXCEPT ![c].pc = "holding"]
    /\ UNCHANGED <<flow, queue, net, ops, packets, maint>>

(* The caller's context ends while it holds the flow. *)
Cancel ==
    /\ lock # NoCaller /\ ~txn.cancelled
    /\ txn' = [txn EXCEPT !.cancelled = TRUE]
    /\ UNCHANGED <<flow, queue, net, lock, call, ops, maint, packets>>

ensureConnLocked ==
    /\ lock # NoCaller /\ txn.pc = "ensure"
    /\ UNCHANGED <<queue, ops, packets, maint>>
    /\ LET f == closeConnLocked(ensureTargetsLocked(flow))
           Trying(target) == [txn EXCEPT !.pc = "write", !.tried = @ \cup {target}]
       IN
       CASE flow.closed ->
              /\ RetryOrReturn(flow, txn, "flow-closed")
              /\ UNCHANGED net
         [] ~flow.closed /\ ConnUsable(flow) ->
              /\ Continue(flow, Trying(flow.conn))
              /\ UNCHANGED net
         [] ~flow.closed /\ ~ConnUsable(flow) ->
              \/ /\ Continue([f EXCEPT !.conn = f.targets[f.idx]], Trying(f.targets[f.idx]))
                 /\ net' = NetAfter(flow, f)
              \/ /\ \E err \in {"connection", "dial-timeout"} :
                      RetryOrReturn(f, Trying(f.targets[f.idx]), err)
                 /\ net' = NetAfter(flow, f)
              \/ /\ flow.targets = <<>> /\ flow.server = NoURI      \* the resolver fails
                 /\ RetryOrReturn(flow, txn, "invalid")
                 /\ UNCHANGED net

(* A fresh branch per attempt; WriteRequest is done once it is written.    *)
WriteWire ==
    /\ lock # NoCaller /\ txn.pc = "write"
    /\ UNCHANGED <<queue, ops, packets, maint>>
    /\ \/ /\ txn.method # "ACK"
          /\ Continue(flow, [txn EXCEPT !.pc = "read", !.waited = 0, !.retransmits = 0,
                                !.exhausted = FALSE,
                                !.state = InitialSIPClientTransactionState(txn.method),
                                !.interval = defaultSIPTimerT1])
          /\ UNCHANGED net
       \/ /\ txn.method = "ACK"
          /\ Return(flow, txn, Result("written", 0, FALSE))
          /\ UNCHANGED net
       \/ /\ RetryOrReturn(closeConnLocked(flow), txn, "connection")
          /\ net' = NetAfter(flow, closeConnLocked(flow))

-----------------------------------------------------------------------------
(* The servers *)

ResponseTo(code, own) ==
    [own |-> own, code |-> code, retryAfter |-> NoDelay,
     contacts |-> IF sipRedirectStatus(code)
                  THEN <<[uri |-> RedirectTo, q |-> 1, expired |-> FALSE]>> ELSE <<>>]

(* Packets carry the branch they answer.  Branches are fresh, so of a      *)
(* packet the flow only ever asks whether it answers the current attempt:  *)
(* own is that answer, and becomes FALSE when the attempt is over.         *)
Stale(S) == {[p EXCEPT !.own = FALSE] : p \in S}

Server ==
    /\ lock # NoCaller /\ txn.pc = "read" /\ packets < MaxPackets
    /\ \E code \in Codes : net' = net \cup {ResponseTo(code, TRUE)}
    /\ packets' = packets + 1
    /\ UNCHANGED <<flow, queue, lock, txn, call, ops, maint>>

(* The inbound server reads the protected port and hands responses over;   *)
(* a full queue loses its oldest packet.  The packet may arrive again.     *)
HandleSIPResponsePacket ==
    /\ flow.external
    /\ \E p \in net, again \in BOOLEAN :
         /\ net' = IF again THEN net ELSE net \ {p}
         /\ again => packets < MaxPackets
         /\ packets' = IF again THEN packets + 1 ELSE packets
         /\ queue' = IF Len(queue) < QueueCap THEN Append(queue, p) ELSE Append(Tail(queue), p)
    /\ UNCHANGED <<flow, lock, txn, call, ops, maint>>

-----------------------------------------------------------------------------
(* Reading the answer *)

Reading == lock # NoCaller /\ txn.pc = "read"

(* sipResponseMatchesRequest: Call-ID, CSeq and Via branch are the request's. *)
MutResponseMatches(p) == TRUE
sipResponseMatchesRequest(p) == p.own

StepFor(event, code) ==
    AdvanceSIPClientTransaction(
        [Method |-> txn.method, State |-> txn.state, Event |-> event, Code |-> code,
         Reliable |-> flow.stream, Last |-> txn.interval, Max |-> MaxRetransmits,
         Done |-> txn.retransmits, TimerConfig |-> TimerConfig])

retryStatus(code) ==
    IF txn.method = "REGISTER" THEN sipRegisterTargetFailoverStatus(code)
    ELSE sipDialogTargetFailoverStatus(code)

(* A final response: followed if it redirects, retried on the next server  *)
(* if its status says so, returned otherwise.  Over UDP the answers still  *)
(* in the queue or on the socket may be drained first.                     *)
FinalResponse(resp) ==
    LET t  == EndAttempt(txn, "none")
        rd == redirectToResponseTargetsLocked(flow, resp)
        f  == closeConnLocked(flow)
        redirect == /\ ~txn.cancelled /\ txn.redirects < maxSIPRedirectTargets
                    /\ sipRedirectStatus(resp.code) /\ txn.method # "INVITE" /\ rd.ok
        retry == /\ ~txn.cancelled /\ retryStatus(resp.code)
                 /\ txn.attempts + 1 < targetCountLocked(flow)
                 /\ CanAdvance(flow)
    IN  CASE redirect ->
               Continue([f EXCEPT !.targets = rd.targets, !.idx = rd.index],
                        [t EXCEPT !.pc = "ensure", !.redirects = @ + 1])
          [] ~redirect /\ retry ->
               Continue(advanceTargetLocked(f), [t EXCEPT !.pc = "ensure", !.attempts = @ + 1])
          [] ~redirect /\ ~retry ->
               Return(flow, t, Result("ok", resp.code, resp.own))

Receive(p) ==
    LET step == StepFor("response", p.code) IN
    IF ~sipResponseMatchesRequest(p) THEN UNCHANGED <<flow, lock, txn, call>>
    ELSE IF isSIPProvisionalResponse(p.code)
    THEN /\ txn' = [txn EXCEPT !.state = step.NextState, !.rung = TRUE]
         /\ UNCHANGED <<flow, lock, call>>
    ELSE FinalResponse(p)

(* readUDPResponseLocked on its own or the protected socket, and           *)
(* readFinalSIPFlowResponse on a stream.                                   *)
ReadConn ==
    /\ Reading /\ ~flow.external
    /\ \E p \in net, again \in BOOLEAN :
         /\ again => (packets < MaxPackets /\ ~flow.stream)
         /\ packets' = IF again THEN packets + 1 ELSE packets
         /\ Receive(p)
         /\ LET rest == IF again THEN net ELSE net \ {p}
            IN  net' = IF flow'.conn = NoURI /\ flow.conn # NoURI /\ ~flow.sec THEN {}
                       ELSE IF txn'.pc = "read" THEN rest ELSE Stale(rest)
    /\ UNCHANGED <<queue, ops, maint>>

ReadQueue ==
    /\ Reading /\ flow.external /\ ~flow.stream /\ queue # <<>>
    /\ Receive(Head(queue))
    /\ LET rest == Tail(queue)
       IN  queue' = IF txn'.pc = "read" THEN rest
                    ELSE [i \in DOMAIN rest |-> [rest[i] EXCEPT !.own = FALSE]]
    /\ net' = IF txn'.pc = "read" THEN net ELSE Stale(net)
    /\ UNCHANGED <<ops, packets, maint>>

AttemptOver(f) ==
    /\ net' = Stale(NetAfter(flow, f))
    /\ queue' = [i \in DOMAIN queue |-> [queue[i] EXCEPT !.own = FALSE]]

(* The read timer of a UDP transaction fires before the deadline.          *)
RetransmitPending ==
    /\ ~flow.stream /\ ~txn.exhausted
    /\ sipClientTransactionRetransmitTimerActive(txn.method, txn.state)
    /\ txn.waited + txn.interval < Timeout

RetransmitTimer ==
    /\ Reading /\ ~txn.cancelled /\ RetransmitPending
    /\ UNCHANGED <<ops, packets, maint>>
    /\ LET step == StepFor("retransmit-timer", 0)
           t    == [txn EXCEPT !.waited = @ + txn.interval, !.state = step.NextState]
       IN  CASE step.RetransmitRequest ->
                  \/ /\ txn' = [t EXCEPT !.retransmits = @ + 1, !.interval = step.NextRetransmitInterval]
                     /\ UNCHANGED <<flow, lock, call, net, queue>>
                  \/ /\ RetryOrReturn(closeConnLocked(flow), txn, "connection")
                     /\ AttemptOver(closeConnLocked(flow))
             [] ~step.RetransmitRequest /\ ~shouldSIPRetransmit(txn.retransmits, MaxRetransmits) ->
                  /\ txn' = [t EXCEPT !.exhausted = TRUE]
                  /\ UNCHANGED <<flow, lock, call, net, queue>>

(* The deadline passes, or the read fails: the connection is closed.  Once *)
(* a provisional response was received a timeout is final.                 *)
TimeoutError ==
    IF \/ ~flow.stream /\ txn.state = "proceeding"
       \/ flow.stream /\ txn.rung
    THEN "final-timeout" ELSE "timeout"

ReadTimeout ==
    /\ Reading /\ (txn.cancelled \/ ~RetransmitPending)
    /\ RetryOrReturn(closeConnLocked(flow), txn, TimeoutError)
    /\ AttemptOver(closeConnLocked(flow))
    /\ UNCHANGED <<ops, packets, maint>>

ReadFails ==
    /\ Reading
    /\ RetryOrReturn(closeConnLocked(flow), txn, "connection")
    /\ AttemptOver(closeConnLocked(flow))
    /\ UNCHANGED <<ops, packets, maint>>

-----------------------------------------------------------------------------
(* Operations that take the lock and do not wait *)

Free == lock = NoCaller /\ maint < MaxMaint

CloseFlow ==
    /\ Free /\ ~flow.closed
    /\ flow' = [closeConnLocked(flow) EXCEPT !.closed = TRUE, !.sec = FALSE]
    /\ net' = NetAfter(flow, flow')
    /\ maint' = maint + 1
    /\ UNCHANGED <<queue, lock, txn, call, ops, packets>>

Reset ==
    /\ Free /\ ~flow.closed
    /\ flow' = [closeConnLocked(flow) EXCEPT !.targets = <<>>, !.idx = 1]
    /\ net' = NetAfter(flow, flow')
    /\ maint' = maint + 1
    /\ UNCHANGED <<queue, lock, txn, call, ops, packets>>

ResetToNextTarget ==
    /\ Free /\ ~flow.closed
    /\ LET f == closeConnLocked(flow)
       IN  flow' = IF f.server # NoURI THEN f
                   ELSE IF Len(f.targets) <= 1 THEN [f EXCEPT !.targets = <<>>, !.idx = 1]
                   ELSE advanceTargetLocked(f)
    /\ net' = NetAfter(flow, flow')
    /\ maint' = maint + 1
    /\ UNCHANGED <<queue, lock, txn, call, ops, packets>>

(* The security association pins the server the flow is connected to (its  *)
(* protected port) and, over UDP, opens the protected response port.       *)
UseSecurityAssociation ==
    /\ Free /\ ~flow.closed /\ flow.conn # NoURI
    /\ flow' = [closeConnLocked(flow) EXCEPT !.server = flow.conn, !.targets = <<flow.conn>>, !.idx = 1,
                                             !.sec = ~flow.stream \/ flow.sec]
    /\ net' = NetAfter(flow, flow')
    /\ maint' = maint + 1
    /\ UNCHANGED <<queue, lock, txn, call, ops, packets>>

TakeSecurityResponsePacketConn ==
    /\ lock = NoCaller /\ flow.sec
    /\ flow' = [flow EXCEPT !.sec = FALSE, !.external = TRUE]
    /\ UNCHANGED <<queue, net, lock, txn, call, ops, maint, packets>>

(* A keepalive reconnects to the remembered server when there is no        *)
(* connection, and drops the connection when the write fails.              *)
SendCRLFKeepalive ==
    /\ Free /\ ~flow.closed
    /\ LET known == flow.conn # NoURI \/ flow.server # NoURI \/ flow.targets # <<>>
           f == IF ConnUsable(flow) THEN flow
                ELSE LET g == closeConnLocked(ensureTargetsLocked(flow))
                     IN  [g EXCEPT !.conn = g.targets[g.idx]]
       IN  /\ known
           /\ flow' \in {f, closeConnLocked(f)}
    /\ net' = NetAfter(flow, flow')
    /\ maint' = maint + 1
    /\ UNCHANGED <<queue, lock, txn, call, ops, packets>>

-----------------------------------------------------------------------------
CallerSteps(c) ==
    \/ \E m \in Methods : Begin(c, m)
    \/ Acquire(c)

Maintenance ==
    \/ CloseFlow \/ Reset \/ ResetToNextTarget
    \/ UseSecurityAssociation \/ TakeSecurityResponsePacketConn \/ SendCRLFKeepalive

FlowNext ==
    \/ \E c \in Callers : CallerSteps(c)
    \/ Cancel
    \/ ensureConnLocked \/ WriteWire
    \/ ReadConn \/ ReadQueue \/ RetransmitTimer \/ ReadTimeout \/ ReadFails
    \/ Server \/ HandleSIPResponsePacket
    \/ Maintenance

(* Fairness: a Go mutex is handed over eventually, the holder runs, and a  *)
(* socket read returns no later than the deadline set on it.  Servers and  *)
(* the network owe nothing.                                                *)
HolderRuns == ensureConnLocked \/ WriteWire \/ RetransmitTimer \/ ReadTimeout
FlowSpec == FlowInit /\ [][FlowNext]_vars

-----------------------------------------------------------------------------
(* Properties *)

(* The response a round trip returns answers the request of its last       *)
(* attempt, whatever older answers still travel, wait on a reused socket   *)
(* or sit in the inbound server's queue.                                   *)
AnswersOwnRequest ==
    txn.result.err = "ok" => txn.result.own

(* An error or status that fails over is reported only after every server  *)
(* the flow knows was tried in this round trip, wherever in the list it    *)
(* started.  A redirect back to a server that already failed uses up an    *)
(* attempt, so a redirected round trip only promises one attempt fewer for *)
(* each redirect followed.                                                 *)
EveryTargetTried ==
    [][LET result == txn'.result
           failover == IF result.err = "ok" THEN retryStatus(result.code)
                       ELSE result.err \in {"connection", "timeout"}
       IN  (lock # NoCaller /\ lock' = NoCaller /\ txn.method # "ACK" /\ ~txn.cancelled)
             => (failover => Cardinality(ToSet(flow'.targets) \ txn'.tried) <= txn.redirects)]_vars

(* A server that answered provisionally is working on the request: when    *)
(* its final response does not come in time the request is not sent to     *)
(* another server, which would run it twice.                               *)
NoResendAfterProvisional ==
    (lock # NoCaller /\ txn.pc \in {"write", "read"}) => ~txn.abandoned

(* Every operation that takes the flow's lock returns, so the lock never   *)
(* stays with a caller whose servers do not answer.                        *)
RoundTripsReturn ==
    \A c \in Callers : []<>(call[c].pc \notin {"waiting", "holding"})
=============================================================================

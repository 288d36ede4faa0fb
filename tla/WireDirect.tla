----------------------------- MODULE WireDirect -----------------------------
(***************************************************************************)
(* The transports without a shared connection (voiceclient):               *)
(* WireRegisterTransport (wire_transport.go) and WireSIPTransport          *)
(* (wire_sip_transport.go) dial each server anew, for each request, and    *)
(* close the connection with the attempt, so nothing of an earlier attempt *)
(* can be read by a later one.  What a read returns is external; time is   *)
(* the part of Timeout waited, in units of the first retransmit interval.  *)
(***************************************************************************)
EXTENDS SipRecovery, FiniteSets

CONSTANTS Resolved,              \* servers the resolver returns
          RedirectTo,            \* Contact of a 3xx answer
          DirectCodes,           \* final status codes servers answer with
          Timeout, MaxInterval, MaxRetransmits,
          maxSIPRedirectTargets

VARIABLE req                     \* the one request under way
directVars == <<req>>

sipTargetsForRequest == appendSIPTargets(<<>>, Resolved)
\* sipNetworkForRequest: the configured network, or that of the URI.
Start(method, stream) ==
  [pc |-> "dial", method |-> method, stream |-> stream, targets |-> sipTargetsForRequest, idx |-> 1,
   redirects |-> 0, tried |-> {}, waited |-> 0, interval |-> 1, retransmits |-> 0, got |-> FALSE,
   exhausted |-> FALSE, cancelled |-> FALSE, err |-> "none", code |-> 0]
DirectInit == \E method \in {"REGISTER", "MESSAGE", "INVITE", "ACK"}, stream \in BOOLEAN : req = Start(method, stream)

Running == req.pc # "returned"
Target == req.targets[req.idx]
Done(err, code) == [req EXCEPT !.pc = "returned", !.err = err, !.code = code]
NextTarget(i) ==
  [req EXCEPT !.pc = "dial", !.idx = i, !.waited = 0, !.interval = 1, !.retransmits = 0, !.got = FALSE,
              !.exhausted = FALSE]

\* What the loop over the targets does with the error of one attempt.
AfterError(err) ==
  IF req.cancelled THEN Done("cancelled", 0)
  ELSE IF isSIPRetryableTransportError(err) /\ req.idx < Len(req.targets) THEN NextTarget(req.idx + 1)
  ELSE Done(err, 0)

sipFailoverStatus(code) ==
  IF req.method = "REGISTER" THEN sipRegisterTargetFailoverStatus(code)
  ELSE sipDialogTargetFailoverStatus(code) /\ ~req.cancelled

\* What it does with a final response: follow, fail over or return.
AfterResponse(code) ==
  LET contact == [uri |-> RedirectTo, q |-> 1, expired |-> FALSE]
      rd == sipTargetsWithRedirects(req.targets, req.idx, sipRedirectTargets([contacts |-> <<contact>>]))
  IN IF /\ req.method # "INVITE" /\ req.redirects < maxSIPRedirectTargets /\ sipRedirectStatus(code) /\ rd.ok
     THEN [NextTarget(rd.index) EXCEPT !.targets = rd.targets, !.redirects = @ + 1]
     ELSE IF sipFailoverStatus(code) /\ req.idx < Len(req.targets) THEN NextTarget(req.idx + 1)
     ELSE Done("ok", code)

\* dialTarget, and the first write on the connection.
dialTarget ==
  /\ req.pc = "dial"
  /\ LET now == [req EXCEPT !.tried = @ \cup {Target}] IN
     \/ req' = [now EXCEPT !.pc = "write"]
     \/ \E err \in {"connection", "dial-timeout"} : req' = [AfterError(err) EXCEPT !.tried = now.tried]
writeTarget ==
  /\ req.pc = "write"
  /\ \/ req' = IF req.method = "ACK" THEN Done("written", 0) ELSE [req EXCEPT !.pc = "read"]
     \/ req' = AfterError("connection")

\* A read of roundTripTarget, roundTripUDP, roundTripTCP or readFinalSIPResponse
\* gives a response of this transaction; others are passed over.
readFinalSIPResponse ==
  /\ req.pc = "read"
  /\ \/ \E code \in DirectCodes : req' = AfterResponse(code)
     \/ req' = [req EXCEPT !.got = TRUE]
     \/ \E err \in {"connection", "invalid"} : req' = AfterError(err)

\* The read times out: over UDP before the deadline the request is sent again.
nextSIPRetransmitInterval(i) == IF 2 * i > MaxInterval THEN MaxInterval ELSE 2 * i
shouldSIPRetransmit(done) == MaxRetransmits = 0 \/ done < MaxRetransmits
Early == ~req.stream /\ ~req.got /\ ~req.exhausted /\ req.waited + req.interval < Timeout
Retransmit == [req EXCEPT !.waited = @ + req.interval, !.interval = nextSIPRetransmitInterval(@),
                          !.retransmits = @ + 1]
readTimeout ==
  /\ req.pc = "read"
  /\ req' = CASE req.cancelled -> Done("cancelled", 0)
              [] ~req.cancelled /\ ~Early -> AfterError("timeout")
              [] OTHER -> IF shouldSIPRetransmit(req.retransmits) THEN Retransmit
                          ELSE [req EXCEPT !.exhausted = TRUE]

cancel == Running /\ ~req.cancelled /\ req' = [req EXCEPT !.cancelled = TRUE]

DirectNext == dialTarget \/ writeTarget \/ readFinalSIPResponse \/ readTimeout \/ cancel
\* A dial, a write and a read return, each by its deadline.
DirectRuns == dialTarget \/ writeTarget \/ readTimeout
DirectSpec == DirectInit /\ [][DirectNext]_directVars

-----------------------------------------------------------------------------
\* A request is given up for a reason another server could mend only when every
\* server was tried, those a redirect brought in included, also when a redirect
\* led back to one that had failed (wire_sip_transport.go:60-92).
DirectTriesAll ==
  /\ ~Running /\ ~req.cancelled
  /\ IF req.err = "ok" THEN sipFailoverStatus(req.code) ELSE isSIPRetryableTransportError(req.err)
  => ToSet(req.targets) \subseteq req.tried
=============================================================================

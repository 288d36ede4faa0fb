----------------------------- MODULE SipRecovery ------------------------------
(***************************************************************************)
(* How the SIP client classifies a failure and picks the next server: the  *)
(* pure functions of voiceclient/wire_transport.go and sip_resolver.go.    *)
(*                                                                         *)
(* A response is [code, retryAfter, contacts]: retryAfter is NoDelay when  *)
(* no Retry-After header parses, contacts is the sequence of Contact       *)
(* entries [uri, q, expired] (uri is NoURI when the entry holds no usable  *)
(* SIP URI).  A transport error is one of Errors; "dial-timeout" is the    *)
(* net.Dialer timeout, which matches context.DeadlineExceeded.             *)
(***************************************************************************)
EXTENDS Integers, Sequences, SequencesExt, FiniteSetsExt

CONSTANTS NoURI, NoDelay

Errors == {"cancelled", "dial-timeout", "timeout", "final-timeout", "connection", "flow-closed", "invalid"}

isSIPTimeout(err) == err \in {"dial-timeout", "timeout", "final-timeout"}

sipTransportFailureRecovery(err) ==
    [Recoverable    |-> err \in {"timeout", "final-timeout", "connection"},
     TargetFailover |-> err \in {"timeout", "final-timeout", "connection"}]

isSIPRetryableTransportError(err) == sipTransportFailureRecovery(err).TargetFailover

sipRecoverableResponseStatus(scope, code) ==
    \/ code \in {408, 430} \cup 500 .. 599
    \/ code = 480 /\ scope = "register"

sipResponseFailureRecovery(scope, code) ==
    [Recoverable    |-> sipRecoverableResponseStatus(scope, code),
     TargetFailover |-> sipRecoverableResponseStatus(scope, code)]

sipRegisterTargetFailoverStatus(code) == sipResponseFailureRecovery("register", code).TargetFailover
sipDialogTargetFailoverStatus(code) == sipResponseFailureRecovery("dialog", code).TargetFailover

sipRetryAfterResponseStatus(code) == code \in {408, 503}

sipTransactionFailureFor(resp, err) ==
    [StatusCode |-> resp.code,
     TimedOut   |-> isSIPTimeout(err) \/ resp.code = 408,
     FinalResponseTimeout |-> err = "final-timeout",
     RetryAfter |-> IF sipRetryAfterResponseStatus(resp.code) THEN resp.retryAfter ELSE NoDelay]

NoResponse == [code |-> 0, retryAfter |-> NoDelay, contacts |-> <<>>]

SIPResponseRecoveryPlan(method, resp) ==
    LET scope    == IF method = "REGISTER" THEN "register" ELSE "dialog"
        failure  == sipTransactionFailureFor(resp, "none")
        recovery == sipResponseFailureRecovery(scope, resp.code)
    IN  [StatusCode  |-> failure.StatusCode,
         RetryAfter  |-> failure.RetryAfter,
         Recoverable |-> recovery.Recoverable,
         TargetFailover |-> recovery.TargetFailover,
         TimedOut       |-> failure.TimedOut,
         AuthenticationRefresh |-> resp.code \in {401, 407},
         RegistrationRefresh   |-> resp.code = 423 /\ method = "REGISTER",
         RegistrationRequired  |-> /\ resp.code \in {408, 430, 480} \cup 500 .. 599
                                   /\ method # "REGISTER"]

SIPTransportRecoveryPlan(method, err) ==
    LET failure  == sipTransactionFailureFor(NoResponse, err)
        recovery == sipTransportFailureRecovery(err)
    IN  [Recoverable    |-> recovery.Recoverable,
         TargetFailover |-> recovery.TargetFailover,
         RegistrationRequired |-> recovery.Recoverable /\ method # "REGISTER",
         TransportFailure     |-> err # "none",
         TimedOut             |-> failure.TimedOut,
         FinalResponseTimeout |-> failure.FinalResponseTimeout]

-----------------------------------------------------------------------------
(* Targets and redirects *)

appendSIPTargets(out, targets) ==
    FoldLeft(LAMBDA acc, t : IF Contains(acc, t) THEN acc ELSE Append(acc, t), out, targets)

sipRedirectStatus(code) == code >= 300 /\ code < 400

(* Distinct live contacts, each with its largest q, highest q first; the   *)
(* sort is stable, so equal q keeps the order of the headers.              *)
sipRedirectTargets(resp) ==
    LET live    == SelectSeq(resp.contacts, LAMBDA c : ~c.expired /\ c.uri # NoURI)
        first   == appendSIPTargets(<<>>, [i \in DOMAIN live |-> live[i].uri])
        q(t)    == Max({live[i].q : i \in {j \in DOMAIN live : live[j].uri = t}})
        pos(t)  == CHOOSE i \in DOMAIN first : first[i] = t
        before(s, t) == q(s) > q(t) \/ (q(s) = q(t) /\ pos(s) < pos(t))
    IN  SetToSortSeq(ToSet(first), before)

(* The redirects are put right after the current target; the result is     *)
(* [targets, index (1-based), ok].                                         *)
sipTargetsWithRedirects(targets, current, redirects) ==
    LET out == appendSIPTargets(appendSIPTargets(SubSeq(targets, 1, current), redirects),
                                SubSeq(targets, current + 1, Len(targets)))
        next(r) == {i \in DOMAIN out : out[i] = r /\ i # current}
        hits == {k \in DOMAIN redirects : next(redirects[k]) # {}}
    IN  IF redirects = <<>> THEN [targets |-> targets, index |-> current, ok |-> FALSE]
        ELSE IF hits = {} THEN [targets |-> out, index |-> current, ok |-> FALSE]
        ELSE [targets |-> out, index |-> CHOOSE i \in next(redirects[Min(hits)]) : TRUE, ok |-> TRUE]

(* DNS: SRV targets in record order, each by its addresses (or by name     *)
(* when it has none and a name may be dialled), then the host's own        *)
(* addresses.  addrs maps a name to its sequence of addresses.             *)
ResolveSIPServers(host, srv, addrs, requireIP) ==
    LET bySRV == FoldLeft(LAMBDA acc, name :
                            IF addrs[name] # <<>> THEN appendSIPTargets(acc, addrs[name])
                            ELSE IF requireIP THEN acc
                            ELSE appendSIPTargets(acc, <<name>>), <<>>, srv)
        all   == appendSIPTargets(bySRV, addrs[host])
    IN  IF all = <<>> /\ ~requireIP THEN <<host>> ELSE all

(* Every address known for the server is tried, once, those of a service   *)
(* record before the host's own; no name is dialled where an address is    *)
(* required; and without that there is always something to dial.           *)
ServersComplete(host, srv, addrs, requireIP) ==
    LET out == ResolveSIPServers(host, srv, addrs, requireIP)
        known == UNION {ToSet(addrs[n]) : n \in ToSet(srv) \cup {host}}
        bySRV == UNION {ToSet(addrs[n]) : n \in ToSet(srv)}
    IN  /\ known \subseteq ToSet(out) /\ Cardinality(ToSet(out)) = Len(out)
        /\ requireIP => ToSet(out) = known
        /\ ~requireIP => out # <<>>
        /\ \A i, j \in DOMAIN out : out[i] \in bySRV /\ out[j] \in known \ bySRV => i < j
=============================================================================

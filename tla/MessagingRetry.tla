---------------------------- MODULE MessagingRetry -----------------------------
(***************************************************************************)
(* When an SMS or USSD request that failed is tried again: the durable     *)
(* retry plans and envelopes of messaging/ims_retry.go, and the reading of *)
(* a SIP response they rest on (messaging/ims_redirect.go).                *)
(*                                                                         *)
(* A response is [code, retryAfter, contacts, alternatives] as in          *)
(* SipRecovery, alternatives being the Alternative-Service entries; code 0 *)
(* means there is no response.  err is "none" or a transport error.        *)
(***************************************************************************)
EXTENDS SipRecovery
LOCAL INSTANCE Octets

CONSTANTS MaxAttempts, BaseDelay, MaxDelay   \* DefaultIMSMessagingRetryPolicy: 4, 1s, 5min

IMSRegistrationRecoveryNeededStatus(code) == code \in {408, 430, 480, 481} \cup 500 .. 599

(* Live targets of a header, one candidate per URI, with its largest q.    *)
messagingRecoveryCandidatesFromHeader(contacts, kind) ==
    LET uris == sipRedirectTargets([contacts |-> contacts])
        q(u) == Max({contacts[i].q : i \in {j \in DOMAIN contacts :
                                             contacts[j].uri = u /\ ~contacts[j].expired}})
    IN  [i \in DOMAIN uris |-> [kind |-> kind, uri |-> uris[i], weight |-> q(uris[i])]]

(* A header's candidates are already sorted by weight; the stable merge of *)
(* two such lists keeps Alternative-Service entries first among equals.    *)
imsMessagingRecoveryCandidatesForSIPResponse(resp, retryAfter) ==
    LET both    == messagingRecoveryCandidatesFromHeader(resp.alternatives \o resp.contacts, "alternative-service")
        contact == messagingRecoveryCandidatesFromHeader(resp.contacts, "redirect-contact")
        targets == IF resp.code = 380 THEN both
                   ELSE IF sipRedirectStatus(resp.code) THEN contact ELSE <<>>
    IN  IF targets = <<>> /\ retryAfter # NoDelay
        THEN <<[kind |-> "retry-after", uri |-> NoURI, weight |-> 0]>>
        ELSE targets

firstIMSMessagingRecoveryTarget(candidates) ==
    LET i == SelectInSeq(candidates, LAMBDA c : c.uri # NoURI)
    IN  IF i = 0 THEN NoURI ELSE candidates[i].uri

firstMessagingRedirectContactURI(resp) ==
    IF sipRedirectStatus(resp.code)
    THEN firstIMSMessagingRecoveryTarget(messagingRecoveryCandidatesFromHeader(resp.contacts, "redirect-contact"))
    ELSE NoURI

imsMessagingAuthHeaders(code) == code \in {401, 407}

(* The generic plan only honours Retry-After on some statuses; messaging   *)
(* honours it on all.                                                      *)
ClassifyIMSMessagingSIPResponseRecovery(method, resp) ==
    LET plan == SIPResponseRecoveryPlan(method, resp)
        classify(redirect, target) ==
          LET found == redirect # NoURI \/ target # NoURI
          IN  [StatusCode  |-> plan.StatusCode,
               RetryAfter  |-> resp.retryAfter,
               Recoverable |-> plan.Recoverable \/ found,
               TargetFailover |-> plan.TargetFailover \/ found,
               RegistrationRecoveryNeeded |-> plan.RegistrationRequired \/ IMSRegistrationRecoveryNeededStatus(resp.code),
               AuthenticationRefresh |-> plan.AuthenticationRefresh \/ imsMessagingAuthHeaders(resp.code),
               RedirectURI |-> redirect,
               TargetURI   |-> IF redirect # NoURI THEN redirect ELSE target]
    IN  With(firstMessagingRedirectContactURI(resp), LAMBDA redirect :
        With(imsMessagingRecoveryCandidatesForSIPResponse(resp, resp.retryAfter), LAMBDA candidates :
          classify(redirect, firstIMSMessagingRecoveryTarget(candidates))))

classifyIMSMessagingRetryResponse(code) ==
    CASE code = 202 -> "accepted"
      [] code # 202 /\ code \in 200 .. 299 -> "success"
      [] code \in 300 .. 399 -> "redirect"
      [] code \in {401, 407} -> "authentication"
      [] code = 408 -> "sip-timeout"
      [] code = 429 -> "throttled"
      [] code \in 500 .. 599 -> "server-failure"
      [] code \in (400 .. 499) \ {401, 407, 408, 429} -> "client-failure"
      [] OTHER -> "unknown"

imsMessagingRetryableResponse(class, recovery) ==
    CASE class \in {"accepted", "success"} -> FALSE
      [] class = "redirect" -> recovery.TargetFailover \/ recovery.TargetURI # NoURI
      [] class \in {"authentication", "sip-timeout", "throttled", "server-failure"} -> TRUE
      [] OTHER -> recovery.Recoverable \/ recovery.RegistrationRecoveryNeeded

(* Doubling from BaseDelay, at most MaxDelay. *)
imsMessagingRetryBackoffDelay(attempt) ==
    LET delay[i \in 1 .. attempt] ==
          IF i = 1 THEN BaseDelay
          ELSE IF delay[i - 1] >= MaxDelay \div 2 \/ 2 * delay[i - 1] >= MaxDelay THEN MaxDelay
          ELSE 2 * delay[i - 1]
    IN  IF attempt <= 1 THEN BaseDelay ELSE delay[attempt]

imsMessagingRetryAction(plan) ==
    CASE ~plan.Retry -> "none"
      [] plan.Retry /\ plan.TargetFailover /\ plan.TargetURI # NoURI -> "failover-target"
      [] OTHER -> IF plan.AuthenticationRefresh THEN "refresh-authentication"
                  ELSE IF plan.RegistrationRecoveryNeeded THEN "recover-registration"
                  ELSE IF plan.RetryAfter # NoDelay THEN "retry-after"
                  ELSE "retry"

completeIMSMessagingRetryPlan(plan, retryable) ==
    LET retry == retryable /\ plan.Attempt < MaxAttempts
        done  == [plan EXCEPT !.Retry = retry, !.Terminal = ~retry,
                              !.DuplicateRisk = /\ plan.Operation = "sms-submit"
                                                /\ \/ plan.TransportFailure \/ plan.FinalResponseTimeout
                                                   \/ plan.TimedOut /\ plan.StatusCode = 0,
                              !.NextAttempt = IF retry THEN plan.Attempt + 1 ELSE 0,
                              !.Delay = IF ~retry THEN 0
                                        ELSE IF plan.RetryAfter # NoDelay THEN plan.RetryAfter
                                        ELSE imsMessagingRetryBackoffDelay(plan.Attempt)]
    IN  With(done, LAMBDA d : [d EXCEPT !.Action = imsMessagingRetryAction(d)])

PlanIMSMessagingRetry(operation, method, resp, err, attempt) ==
    LET base == [Operation |-> operation, Class |-> "unknown", Action |-> "none", StatusCode |-> 0,
                 Retry |-> FALSE, Terminal |-> TRUE, Attempt |-> IF attempt <= 0 THEN 1 ELSE attempt,
                 NextAttempt |-> 0, Delay |-> 0, RetryAfter |-> NoDelay, TargetURI |-> NoURI,
                 TargetFailover |-> FALSE, RegistrationRecoveryNeeded |-> FALSE,
                 AuthenticationRefresh |-> FALSE, TransportFailure |-> FALSE, TimedOut |-> FALSE,
                 FinalResponseTimeout |-> FALSE, DuplicateRisk |-> FALSE]
        class == classifyIMSMessagingRetryResponse(resp.code)
        answered(r) ==
          [base EXCEPT !.StatusCode = r.StatusCode, !.RetryAfter = r.RetryAfter, !.TargetURI = r.TargetURI,
                       !.TargetFailover = r.TargetFailover, !.TimedOut = resp.code = 408,
                       !.RegistrationRecoveryNeeded = r.RegistrationRecoveryNeeded,
                       !.AuthenticationRefresh = r.AuthenticationRefresh, !.Class = class]
        failed(t) ==
          [base EXCEPT !.TransportFailure = t.TransportFailure, !.TargetFailover = t.TargetFailover,
                       !.RegistrationRecoveryNeeded = t.RegistrationRequired,
                       !.TimedOut = t.TimedOut, !.FinalResponseTimeout = t.FinalResponseTimeout,
                       !.Class = IF t.TimedOut THEN "sip-timeout" ELSE "transport-failure"]
    IN  CASE resp.code # 0 ->
               With(ClassifyIMSMessagingSIPResponseRecovery(method, resp), LAMBDA r :
               With(answered(r), LAMBDA plan :
                 completeIMSMessagingRetryPlan(plan, imsMessagingRetryableResponse(class, r))))
          [] resp.code = 0 /\ err # "none" ->
               With(SIPTransportRecoveryPlan(method, err), LAMBDA t :
               With(failed(t), LAMBDA plan : completeIMSMessagingRetryPlan(plan, t.Recoverable)))
          [] resp.code = 0 /\ err = "none" -> completeIMSMessagingRetryPlan(base, FALSE)

-----------------------------------------------------------------------------
(* Envelopes: the key and payload of a plan, kept in the store until due *)

NewIMSMessagingRetryEnvelope(plan, key, now) ==
    [Key |-> key, Operation |-> plan.Operation, Attempt |-> plan.Attempt,
     State |-> IF plan.Retry /\ ~plan.Terminal THEN "pending" ELSE "terminal",
     NextAttempt |-> plan.NextAttempt, DueAt |-> now + plan.Delay, CreatedAt |-> now]

Pending(e) == e.State = "pending"

Due(e, now) == Pending(e) /\ e.DueAt <= now

MutReplayAttempt(e) == e.Attempt
imsMessagingRetryReplayAttempt(e) ==
    IF e.NextAttempt > 0 THEN e.NextAttempt ELSE e.Attempt + 1

imsMessagingRetryEnvelopeLess(a, b) ==
    \/ a.DueAt < b.DueAt
    \/ a.DueAt = b.DueAt /\ a.CreatedAt < b.CreatedAt

(* IMSMessagingRetryQueue: at most one envelope per operation and key. *)
QueueDelete(q, operation, key) == {e \in q : ~(e.Operation = operation /\ e.Key = key)}

QueueUpsert(q, e) ==
    QueueDelete(q, e.Operation, e.Key) \cup (IF Pending(e) THEN {e} ELSE {})

SelectDueIMSMessagingRetryEnvelopes(q, now, limit) ==
    LET due == SetToSortSeq({e \in q : Due(e, now)}, imsMessagingRetryEnvelopeLess)
    IN  SubSeq(due, 1, IF limit > 0 /\ limit < Len(due) THEN limit ELSE Len(due))

(* runtimehost: an operation is sent once more on a recovered registration *)
(* when it failed in a way the registration may explain.                   *)
runtimeShouldRetryRecoverableIMSStatus(err, code) ==
    /\ err # "none"
    /\ code = 0 \/ (code \notin 200 .. 299 /\ IMSRegistrationRecoveryNeededStatus(code))
=============================================================================

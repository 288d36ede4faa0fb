---------------------------- MODULE SipTransaction ----------------------------
(***************************************************************************)
(* The pure client and server transaction machines of                      *)
(* voiceclient/sip_transaction.go: one operator per step function.  A step *)
(* is a record; the fields the code derives from the status code alone     *)
(* (Provisional, Success, Final, Failure) are the predicates below.        *)
(* Durations are in units of the smallest configured interval.             *)
(***************************************************************************)
EXTENDS Integers, Sequences
LOCAL INSTANCE SequencesExt
LOCAL INSTANCE FiniteSetsExt
LOCAL INSTANCE FiniteSets
LOCAL INSTANCE Octets

CONSTANTS defaultSIPTimerT1, defaultSIPTimerT2, defaultSIPTimerT4

sipTransactionInvite(method) == method = "INVITE"

isSIPProvisionalResponse(code) == code >= 100 /\ code < 200
isSIPSuccess(code) == code >= 200 /\ code < 300
FinalCode(code) == code >= 200
FailureCode(code) == code >= 300

Positive(d, default) == IF d > 0 THEN d ELSE default

SIPTransactionTimerPolicyFor(method, cfg) ==
    LET t1  == Positive(cfg.T1, defaultSIPTimerT1)
        t2c == Positive(cfg.T2, defaultSIPTimerT2)
        t2  == IF t2c < t1 THEN t1 ELSE t2c
        t4  == Positive(cfg.T4, defaultSIPTimerT4)
        inv == sipTransactionInvite(method)
    IN  [Invite |-> inv, T1 |-> t1, T2 |-> t2,
         Retransmit |-> t1,                            \* timers A, E and G
         Timeout |-> 64 * t1,                          \* timers B, F and H
         ClientCleanup |-> IF inv THEN 64 * t1 ELSE t4,  \* timers D, K
         ServerCleanup |-> IF inv THEN t4 ELSE 64 * t1]  \* timers I, J

nextSIPRetransmitInterval(interval, maxInterval) ==
    IF interval <= 0 THEN maxInterval
    ELSE IF maxInterval > 0 /\ 2 * interval > maxInterval THEN maxInterval
    ELSE 2 * interval

shouldSIPRetransmit(done, max) == max <= 0 \/ done < max

(***************************************************************************)
(* The UDP retry schedule: the intervals waited before each retransmission *)
(* while the next one still falls before the transaction timeout.          *)
(***************************************************************************)
SIPTransactionRetryScheduleFor(method, cfg) ==
    LET p == SIPTransactionTimerPolicyFor(method, cfg)
        more(s) == IF s.interval > 0 /\ s.elapsed + s.interval < p.Timeout
                   THEN [intervals |-> Append(s.intervals, s.interval), elapsed |-> s.elapsed + s.interval,
                         interval |-> nextSIPRetransmitInterval(s.interval, p.T2)]
                   ELSE s
        eight(F(_), s) == FoldLeft(LAMBDA t, n : With(t, F), s, [n \in 1 .. 8 |-> n])
        rounds(s) == eight(more, s)
    IN  eight(rounds, [intervals |-> <<>>, elapsed |-> 0, interval |-> p.Retransmit]).intervals

-----------------------------------------------------------------------------
(* Client transactions *)

InitialSIPClientTransactionState(method) ==
    IF sipTransactionInvite(method) THEN "calling" ELSE "trying"

normalizeSIPClientTransactionState(state, method) ==
    IF \/ state = "calling" /\ sipTransactionInvite(method)
       \/ state = "trying" /\ ~sipTransactionInvite(method)
       \/ state \in {"proceeding", "completed", "terminated"}
    THEN state ELSE InitialSIPClientTransactionState(method)

sipClientTransactionRetransmitTimerActive(method, state) ==
    normalizeSIPClientTransactionState(state, method)
        \in (IF sipTransactionInvite(method) THEN {"calling"} ELSE {"trying", "proceeding"})

ClientStep(state) ==
    [NextState |-> state, Action |-> "wait", DeliverResponse |-> FALSE, SendAck |-> FALSE,
     RetransmitRequest |-> FALSE, NextRetransmitInterval |-> 0, CleanupAfter |-> 0]

completeSIPClientTransaction(step, reliable, cleanupAfter) ==
    IF reliable \/ cleanupAfter <= 0
    THEN [step EXCEPT !.NextState = "terminated"]
    ELSE [step EXCEPT !.NextState = "completed", !.CleanupAfter = cleanupAfter]

advanceSIPInviteClientTransactionResponse(state, code, reliable, policy) ==
    LET open    == state \in {"calling", "proceeding"}
        deliver == [ClientStep(state) EXCEPT !.DeliverResponse = TRUE]
    IN  CASE isSIPProvisionalResponse(code) /\ open ->
               [deliver EXCEPT !.NextState = "proceeding", !.Action = "deliver-provisional"]
          [] isSIPSuccess(code) /\ open ->
               [deliver EXCEPT !.NextState = "terminated", !.Action = "deliver-final"]
          [] FailureCode(code) /\ state = "completed" ->
               [ClientStep(state) EXCEPT !.Action = "deliver-final", !.SendAck = TRUE]
          [] FailureCode(code) /\ open ->
               completeSIPClientTransaction(
                   [deliver EXCEPT !.Action = "deliver-final", !.SendAck = TRUE],
                   reliable, policy.ClientCleanup)
          [] OTHER -> ClientStep(state)

advanceSIPNonInviteClientTransactionResponse(state, code, reliable, policy) ==
    LET open    == state \in {"trying", "proceeding"}
        deliver == [ClientStep(state) EXCEPT !.DeliverResponse = TRUE]
    IN  CASE isSIPProvisionalResponse(code) /\ open ->
               [deliver EXCEPT !.NextState = "proceeding", !.Action = "deliver-provisional"]
          [] FinalCode(code) /\ open ->
               completeSIPClientTransaction([deliver EXCEPT !.Action = "deliver-final"],
                                            reliable, policy.ClientCleanup)
          [] OTHER -> ClientStep(state)

advanceSIPClientTransactionResponse(method, state, code, reliable, policy) ==
    IF code = 0 THEN ClientStep(state)
    ELSE IF policy.Invite
    THEN advanceSIPInviteClientTransactionResponse(state, code, reliable, policy)
    ELSE advanceSIPNonInviteClientTransactionResponse(state, code, reliable, policy)

advanceSIPClientTransactionRetransmitTimer(state, reliable, last, max, done, policy) ==
    LET open == IF policy.Invite THEN {"calling"} ELSE {"trying", "proceeding"}
        base == Positive(last, policy.Retransmit)
        interval == IF ~policy.Invite /\ state = "proceeding" /\ base < policy.T2
                    THEN policy.T2 ELSE base
    IN  IF reliable \/ state \notin open \/ ~shouldSIPRetransmit(done, max)
        THEN ClientStep(state)
        ELSE [ClientStep(state) EXCEPT !.Action = "retransmit-request",
                                       !.RetransmitRequest = TRUE,
                                       !.NextRetransmitInterval =
                                           nextSIPRetransmitInterval(interval, policy.T2)]

advanceSIPClientTransactionTimeoutTimer(state, policy) ==
    IF state \in (IF policy.Invite THEN {"calling"} ELSE {"trying", "proceeding"})
    THEN [ClientStep(state) EXCEPT !.NextState = "terminated", !.Action = "timeout"]
    ELSE ClientStep(state)

advanceSIPClientTransactionCleanupTimer(state) ==
    IF state = "completed"
    THEN [ClientStep(state) EXCEPT !.NextState = "terminated", !.Action = "terminate"]
    ELSE ClientStep(state)

AdvanceSIPClientTransaction(in) ==
    LET policy == SIPTransactionTimerPolicyFor(in.Method, in.TimerConfig)
        state  == normalizeSIPClientTransactionState(in.State, in.Method)
    IN  CASE state = "terminated" -> [ClientStep(state) EXCEPT !.Action = "none"]
          [] state # "terminated" /\ in.Event = "response" ->
               advanceSIPClientTransactionResponse(in.Method, state, in.Code, in.Reliable, policy)
          [] state # "terminated" /\ in.Event = "retransmit-timer" ->
               advanceSIPClientTransactionRetransmitTimer(state, in.Reliable, in.Last, in.Max,
                                                          in.Done, policy)
          [] state # "terminated" /\ in.Event = "timeout-timer" ->
               advanceSIPClientTransactionTimeoutTimer(state, policy)
          [] state # "terminated" /\ in.Event = "cleanup-timer" ->
               advanceSIPClientTransactionCleanupTimer(state)

-----------------------------------------------------------------------------
(* Server transactions *)

InitialSIPServerTransactionState(method) ==
    IF sipTransactionInvite(method) THEN "proceeding" ELSE "trying"

normalizeSIPServerTransactionState(state, method) ==
    IF \/ state = "trying" /\ ~sipTransactionInvite(method)
       \/ state \in {"proceeding", "completed", "terminated"}
       \/ state = "confirmed" /\ sipTransactionInvite(method)
    THEN state ELSE InitialSIPServerTransactionState(method)

ServerStep(state) ==
    [NextState |-> state, Action |-> "wait", PassRequest |-> FALSE, SendResponse |-> FALSE,
     RetransmitResponse |-> FALSE, DeliverACK |-> FALSE, TimedOut |-> FALSE,
     NextRetransmitInterval |-> 0, TimeoutAfter |-> 0, CleanupAfter |-> 0]

advanceSIPServerTransactionRequest(invite, state, cached, retransmission) ==
    CASE ~retransmission /\ state \in {"trying", "proceeding"} ->
           [ServerStep(state) EXCEPT !.Action = "pass-request", !.PassRequest = TRUE]
      [] retransmission /\ (\/ invite /\ state = "proceeding" /\ cached > 0
                            \/ invite /\ state = "completed"
                            \/ ~invite /\ state \in {"proceeding", "completed"} /\ cached > 0) ->
           [ServerStep(state) EXCEPT !.Action = "retransmit-response", !.RetransmitResponse = TRUE]
      [] OTHER -> ServerStep(state)

completeSIPInviteServerTransaction(step, reliable, policy) ==
    [step EXCEPT !.NextState = "completed", !.TimeoutAfter = policy.Timeout,
                 !.NextRetransmitInterval = IF reliable THEN 0 ELSE policy.Retransmit]

advanceSIPInviteServerTransactionResponse(state, code, reliable, policy) ==
    LET send == [ServerStep(state) EXCEPT !.Action = "send-response", !.SendResponse = TRUE]
    IN  CASE state = "proceeding" /\ isSIPProvisionalResponse(code) -> send
          [] state = "proceeding" /\ isSIPSuccess(code) -> [send EXCEPT !.NextState = "terminated"]
          [] state = "proceeding" /\ FailureCode(code) ->
               completeSIPInviteServerTransaction(send, reliable, policy)
          [] OTHER -> ServerStep(state)

advanceSIPNonInviteServerTransactionResponse(state, code, reliable, policy) ==
    LET send == [ServerStep(state) EXCEPT !.Action = "send-response", !.SendResponse = TRUE]
        open == state \in {"trying", "proceeding"}
    IN  CASE open /\ isSIPProvisionalResponse(code) -> [send EXCEPT !.NextState = "proceeding"]
          [] open /\ FinalCode(code) /\ reliable -> [send EXCEPT !.NextState = "terminated"]
          [] open /\ FinalCode(code) /\ ~reliable ->
               [send EXCEPT !.NextState = "completed", !.CleanupAfter = policy.ServerCleanup]
          [] OTHER -> ServerStep(state)

advanceSIPServerTransactionResponse(state, code, reliable, policy) ==
    IF code = 0 THEN ServerStep(state)
    ELSE IF policy.Invite
    THEN advanceSIPInviteServerTransactionResponse(state, code, reliable, policy)
    ELSE advanceSIPNonInviteServerTransactionResponse(state, code, reliable, policy)

advanceSIPServerTransactionACK(state, reliable, policy) ==
    LET deliver == [ServerStep(state) EXCEPT !.Action = "deliver-ack", !.DeliverACK = TRUE]
    IN  CASE policy.Invite /\ state = "completed" /\ reliable ->
               [deliver EXCEPT !.NextState = "terminated"]
          [] policy.Invite /\ state = "completed" /\ ~reliable ->
               [deliver EXCEPT !.NextState = "confirmed", !.CleanupAfter = policy.ServerCleanup]
          [] OTHER -> ServerStep(state)

advanceSIPServerTransactionRetransmitTimer(state, reliable, cached, last, policy) ==
    IF ~reliable /\ policy.Invite /\ state = "completed" /\ FailureCode(cached)
    THEN [ServerStep(state) EXCEPT !.Action = "retransmit-response", !.RetransmitResponse = TRUE,
                                   !.NextRetransmitInterval = nextSIPRetransmitInterval(
                                       Positive(last, policy.Retransmit), policy.T2)]
    ELSE ServerStep(state)

advanceSIPServerTransactionTimeoutTimer(state, policy) ==
    IF policy.Invite /\ state = "completed"
    THEN [ServerStep(state) EXCEPT !.NextState = "terminated", !.Action = "timeout", !.TimedOut = TRUE]
    ELSE ServerStep(state)

advanceSIPServerTransactionCleanupTimer(state, policy) ==
    IF state = (IF policy.Invite THEN "confirmed" ELSE "completed")
    THEN [ServerStep(state) EXCEPT !.NextState = "terminated", !.Action = "terminate"]
    ELSE ServerStep(state)

AdvanceSIPServerTransaction(in) ==
    LET policy == SIPTransactionTimerPolicyFor(in.Method, in.TimerConfig)
        state  == normalizeSIPServerTransactionState(in.State, in.Method)
    IN  IF state = "terminated" THEN [ServerStep(state) EXCEPT !.Action = "none"]
        ELSE CASE in.Event = "request" ->
                    advanceSIPServerTransactionRequest(policy.Invite, state, in.Code, in.Retransmission)
               [] in.Event = "response" ->
                    advanceSIPServerTransactionResponse(state, in.Code, in.Reliable, policy)
               [] in.Event = "ack" -> advanceSIPServerTransactionACK(state, in.Reliable, policy)
               [] in.Event = "retransmit-timer" ->
                    advanceSIPServerTransactionRetransmitTimer(state, in.Reliable, in.Code, in.Last, policy)
               [] in.Event = "timeout-timer" -> advanceSIPServerTransactionTimeoutTimer(state, policy)
               [] in.Event = "cleanup-timer" -> advanceSIPServerTransactionCleanupTimer(state, policy)

-----------------------------------------------------------------------------
(* The schedule a datagram is retransmitted by is the one the transaction  *)
(* machine's retransmission timer makes, interval by interval; the next    *)
(* one would fall on or after the transaction timeout.                     *)
ScheduleAgrees(method, cfg) ==
    LET p == SIPTransactionTimerPolicyFor(method, cfg)
        waited(s) == MapThenSumSet(LAMBDA v : v * Cardinality({i \in DOMAIN s : s[i] = v}), ToSet(s))
        next(s, n) == AdvanceSIPClientTransaction(
                     [Method |-> method, State |-> InitialSIPClientTransactionState(method),
                      Event |-> "retransmit-timer", Reliable |-> FALSE, Last |-> s[n], Max |-> 0,
                      Done |-> n, TimerConfig |-> cfg]).NextRetransmitInterval
    IN  \A s \in {SIPTransactionRetryScheduleFor(method, cfg)} :
        /\ s # <<>> /\ s[1] = p.T1
        /\ \A n \in 1 .. Len(s) - 1 : s[n + 1] = next(s, n)
        /\ waited(s) < p.Timeout /\ waited(s) + next(s, Len(s)) >= p.Timeout
=============================================================================

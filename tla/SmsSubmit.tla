------------------------------- MODULE SmsSubmit -------------------------------
(***************************************************************************)
(* Sending one multipart SMS and replaying the parts that failed:          *)
(* Service.SendSMSWithOptions and the retry replay of messaging.go, over   *)
(* the runtime's recovering transport and its retry worker (types.go).     *)
(*                                                                         *)
(* The host's store (queue, part) is durable and survives a restart; the   *)
(* sender and the drains do not.  The instance's retry worker and the      *)
(* host's DrainIMSMessagingRetries are Replayers: nothing serialises them. *)
(* Time is abstracted to ripe, the keys whose due time has come.           *)
(***************************************************************************)
EXTENDS MessagingRetry, FiniteSets, TLC
LOCAL INSTANCE Octets

CONSTANTS NumParts,     \* parts of the message, len(parts)
          Replayers,    \* goroutines that drain the retry queue
          Limit,        \* batch limit of a drain
          MaxCrashes    \* bound: restarts of the program

VARIABLES queue,    \* durable: retry envelopes
          part,     \* durable: state of each part in the delivery record
          msg,      \* durable: state of the message in the delivery record
          ripe,     \* keys that are due by now
          sender,   \* SendSMSWithOptions
          replay,   \* the drain of each replayer
          acked,    \* history: parts the network accepted
          submitted,\* history: parts handed to the network at least once
          overlap,  \* history: two drains, or a restart, shared envelopes
          crashes

smsVars == <<queue, part, msg, ripe, sender, replay, acked, submitted, overlap, crashes>>

Parts == 1 .. NumParts
NoResult == [code |-> 0, err |-> "none"]

(* What SendSMSPart can report: accepted, rejected for good, rejected for  *)
(* now, or a transport error that says nothing of delivery.                *)
Outcomes == {[code |-> 202, err |-> "none"],
             [code |-> 404, err |-> "rejected"], [code |-> 503, err |-> "rejected"],
             [code |-> 0, err |-> "timeout"]}

Success(res) == res.code \in 200 .. 299

PartState(res) == IF Success(res) THEN "accepted" ELSE "failed"

IdleSender == [pc |-> "idle", part |-> 1, res |-> NoResult]
IdleReplay == [pc |-> "idle", list |-> <<>>, res |-> NoResult]

SmsInit ==
    /\ queue = {} /\ part = [p \in Parts |-> "none"] /\ msg = "none" /\ ripe = {}
    /\ sender = IdleSender /\ replay = [r \in Replayers |-> IdleReplay]
    /\ acked = {} /\ submitted = {} /\ overlap = FALSE
    /\ crashes = 0

-----------------------------------------------------------------------------
(* Envelopes of this message; now is abstracted, so times are offsets *)

SubmitEnvelopes ==
    [p \in Parts |-> [res \in Outcomes |-> [attempt \in 1 .. MaxAttempts |->
        With(PlanIMSMessagingRetry("sms-submit", "MESSAGE",
               [code |-> res.code, retryAfter |-> NoDelay, contacts |-> <<>>, alternatives |-> <<>>],
               res.err, attempt), LAMBDA plan : NewIMSMessagingRetryEnvelope(plan, p, 0))]]]

NewIMSSMSSubmitRetryEnvelope(p, res, attempt) == SubmitEnvelopes[p][res][attempt]

MutRecord(e) ==
    /\ queue' = IF Pending(e) THEN QueueUpsert(queue, e) ELSE queue
    /\ ripe' = ripe \ {e.Key}

recordIMSMessagingRetry(e) ==
    /\ queue' = IF Pending(e) THEN QueueUpsert(queue, e) ELSE QueueDelete(queue, e.Operation, e.Key)
    /\ ripe' = ripe \ {e.Key}

RecoveryNeeded(res) == res.err # "none" /\ (res.code = 0 \/ IMSRegistrationRecoveryNeededStatus(res.code))

(* runtimeRecoveringSMSTransport.SendSMSPart: when the failure may be the  *)
(* registration's, recover it and send the part once more.                 *)
SendSMSPart(p, res) ==
    /\ submitted' = submitted \cup {p}
    /\ acked' = IF Success(res) THEN acked \cup {p} ELSE acked
AfterSend(pc, res) == IF pc = "send" /\ RecoveryNeeded(res) THEN "recover" ELSE "sent"

(* recoverIMSRegistration succeeds or fails; a failure keeps the result.   *)
AfterRecovery(res) ==
    {"sent"} \cup {pc \in {"resend"} : runtimeShouldRetryRecoverableIMSStatus(res.err, res.code)}

-----------------------------------------------------------------------------
(* SendSMSWithOptions *)

SendSMSWithOptions ==
    /\ sender.pc = "idle" /\ msg = "none"
    /\ msg' = "created"                                    \* CreateSMSDelivery
    /\ sender' = [IdleSender EXCEPT !.pc = "send"]
    /\ UNCHANGED <<queue, part, ripe, replay, acked, submitted, overlap, crashes>>

SenderTransmits ==
    /\ sender.pc \in {"send", "resend"}
    /\ \E res \in Outcomes :
         /\ SendSMSPart(sender.part, res)
         /\ sender' = [sender EXCEPT !.pc = AfterSend(@, res), !.res = res]
    /\ UNCHANGED <<queue, part, msg, ripe, replay, overlap, crashes>>

SenderRecovers ==
    /\ sender.pc = "recover"
    /\ \E pc \in AfterRecovery(sender.res) : sender' = [sender EXCEPT !.pc = pc]
    /\ UNCHANGED <<queue, part, msg, ripe, replay, acked, submitted, overlap, crashes>>

SenderRecordsRetry ==
    /\ sender.pc = "sent"
    /\ recordIMSMessagingRetry(NewIMSSMSSubmitRetryEnvelope(sender.part, sender.res, 1))
    /\ sender' = [sender EXCEPT !.pc = "upsert"]
    /\ UNCHANGED <<part, msg, replay, acked, submitted, overlap, crashes>>

AfterPart ==
    IF Success(sender.res) /\ sender.part < NumParts THEN "send" ELSE "update"

SenderUpsertsPart ==
    /\ sender.pc = "upsert"
    /\ part' = [part EXCEPT ![sender.part] = PartState(sender.res)]
    /\ sender' = [sender EXCEPT !.pc = AfterPart,
                                !.part = IF AfterPart = "send" THEN @ + 1 ELSE @]
    /\ UNCHANGED <<queue, msg, ripe, replay, acked, submitted, overlap, crashes>>

UpdateSMSDeliveryState ==
    /\ sender.pc = "update"
    /\ msg' = IF Success(sender.res) THEN "sent" ELSE "failed"
    /\ sender' = [IdleSender EXCEPT !.pc = "done"]
    /\ UNCHANGED <<queue, part, ripe, replay, acked, submitted, overlap, crashes>>

-----------------------------------------------------------------------------
(* ReplayDueIMSMessagingRetriesFromStore *)

Listed(r) == {replay[r].list[i].Key : i \in DOMAIN replay[r].list}

ListDueIMSMessagingRetries(r) ==
    /\ replay[r].pc = "idle"
    /\ LET due == SelectDueIMSMessagingRetryEnvelopes({e \in queue : e.Key \in ripe}, MaxDelay, Limit) IN
       /\ due # <<>>
       /\ replay' = [replay EXCEPT ![r] = [IdleReplay EXCEPT !.pc = "send", !.list = due]]
       /\ overlap' = (overlap \/ \E s \in Replayers \ {r} : Listed(s) \cap {due[i].Key : i \in DOMAIN due} # {})
    /\ UNCHANGED <<queue, part, msg, ripe, sender, acked, submitted, crashes>>

ReplayTransmits(r) ==
    /\ replay[r].pc \in {"send", "resend"}
    /\ \E res \in Outcomes :
         /\ SendSMSPart(Head(replay[r].list).Key, res)
         /\ replay' = [replay EXCEPT ![r].pc = AfterSend(@, res), ![r].res = res]
    /\ UNCHANGED <<queue, part, msg, ripe, sender, overlap, crashes>>

ReplayRecovers(r) ==
    /\ replay[r].pc = "recover"
    /\ \E pc \in AfterRecovery(replay[r].res) : replay' = [replay EXCEPT ![r].pc = pc]
    /\ UNCHANGED <<queue, part, msg, ripe, sender, acked, submitted, overlap, crashes>>

(* UpsertSMSDeliveryPart and RecomputeSMSDelivery. *)
ReplayUpsertsPart(r) ==
    /\ replay[r].pc = "sent"
    /\ part' = [part EXCEPT ![Head(replay[r].list).Key] = PartState(replay[r].res)]
    /\ replay' = [replay EXCEPT ![r].pc = "record"]
    /\ UNCHANGED <<queue, msg, ripe, sender, acked, submitted, overlap, crashes>>

Advances(r) ==
    /\ replay[r].pc = "record"
    /\ LET rest == Tail(replay[r].list) IN
       replay' = [replay EXCEPT ![r] = [IdleReplay EXCEPT !.pc = IF rest = <<>> THEN "idle" ELSE "send",
                                                          !.list = rest]]
ReplayRecordsRetry(r) ==
    /\ Advances(r)
    /\ LET e == Head(replay[r].list) IN
       recordIMSMessagingRetry(NewIMSSMSSubmitRetryEnvelope(e.Key, replay[r].res, imsMessagingRetryReplayAttempt(e)))
    /\ UNCHANGED <<part, msg, sender, acked, submitted, overlap, crashes>>

-----------------------------------------------------------------------------
BecomesDue(p) ==
    /\ p \notin ripe /\ \E e \in queue : e.Key = p
    /\ ripe' = ripe \cup {p}
    /\ UNCHANGED <<queue, part, msg, sender, replay, acked, submitted, overlap, crashes>>

(* HandleSMSDeliveryReport: the network reports on a part it accepted. *)
HandleSMSDeliveryReport(p) ==
    /\ p \in acked /\ part[p] # "none"
    /\ part' = [part EXCEPT ![p] = "delivered"]
    /\ UNCHANGED <<queue, msg, ripe, sender, replay, acked, submitted, overlap, crashes>>

(* The program stops and starts again: what was in memory is gone.         *)
Crash ==
    /\ crashes < MaxCrashes
    /\ crashes' = crashes + 1
    /\ overlap' = (overlap \/ sender.pc = "sent" \/ \E r \in Replayers : replay[r].pc \in {"sent", "record"})
    /\ sender' = IdleSender /\ replay' = [r \in Replayers |-> IdleReplay]
    /\ UNCHANGED <<queue, part, msg, ripe, acked, submitted>>

SmsNext ==
    \/ SendSMSWithOptions \/ SenderTransmits \/ SenderRecovers \/ SenderRecordsRetry
    \/ SenderUpsertsPart \/ UpdateSMSDeliveryState
    \/ \E r \in Replayers :
         \/ ListDueIMSMessagingRetries(r) \/ ReplayTransmits(r) \/ ReplayRecovers(r)
         \/ ReplayUpsertsPart(r) \/ ReplayRecordsRetry(r)
    \/ \E p \in Parts : BecomesDue(p) \/ HandleSMSDeliveryReport(p)
    \/ Crash

(* Transports return, timers fire and the worker keeps draining.  Nothing  *)
(* is owed by the network: every outcome of a send remains possible.       *)
SenderRuns == SenderTransmits \/ SenderRecovers \/ SenderRecordsRetry \/ SenderUpsertsPart \/ UpdateSMSDeliveryState
ReplayerRuns(r) ==
    \/ ListDueIMSMessagingRetries(r) \/ ReplayTransmits(r) \/ ReplayRecovers(r)
    \/ ReplayUpsertsPart(r)
SmsSpec == SmsInit /\ [][SmsNext]_smsVars

-----------------------------------------------------------------------------
(* Properties *)


(* A part the network accepted is not submitted again, unless two drains   *)
(* listed its envelope at the same time or the program stopped between     *)
(* the send and the record of its outcome.                                 *)
AcceptedNotResent ==
    [][\A r \in Replayers :
          (replay[r].pc = "send" /\ replay'[r].pc \in {"recover", "sent"} /\ Head(replay[r].list).Key \in acked)
             => overlap]_smsVars

(* Retrying ends: every part left in the queue is accepted, rejected or    *)
(* given up, whichever drains overlap and wherever the program restarts.   *)
RetriesEnd == <>[](queue = {})
=============================================================================

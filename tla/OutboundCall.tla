---------------------------- MODULE OutboundCall ----------------------------
(***************************************************************************)
(* One outbound call: the handlers of the gateway (voicehost.go) for the   *)
(* requests of the softphone, and the IMSOutboundAgent (ims_agent.go) that *)
(* carries them on to the IMS.  INVITE, in-dialog requests, BYE, CANCEL    *)
(* and the session refresh timer run in goroutines of their own and meet   *)
(* in the agent's table of dialogs, read and written in short critical     *)
(* sections of its lock, never across a round trip.                        *)
(*                                                                         *)
(* Serialised says what carries the requests: a WireSIPFlow, whose lock is *)
(* held over a whole transaction (the default, voiceTransport in           *)
(* imsregistrar.go), or a transport with a connection per transaction.     *)
(* SIP and SDP texts are abstracted to CSeq numbers and verdicts.          *)
(***************************************************************************)
EXTENDS Naturals, FiniteSets

CONSTANTS
  Clients,      \* goroutines that serve in-dialog requests of the softphone
  Serialised,   \* the transport is a WireSIPFlow
  MaxCSeq,      \* bound on CSeq numbers
  Refreshes,    \* the agent is configured to ask for session refreshes by itself
  MaxTries,     \* bound on the retries and reliable provisionals of a request
  MaxOps        \* bound on in-dialog requests, BYEs, CANCELs and refreshes

VARIABLES
  gateway,   \* Gateway.dialogs[callID].State
  dialog,    \* IMSOutboundAgent.dialogs[callID]
  relay,     \* the RTP relay of the call
  flow,      \* the holder of WireSIPFlow.mu
  pc, loc,   \* where each goroutine is, and its locals
  ops,       \* operations begun
  top,       \* highest CSeq sent, as long as CSeqFresh speaks of it
  hist       \* what happened so far, for the properties

vars == <<gateway, dialog, relay, flow, pc, loc, ops, top, hist>>

Threads == {"invite", "bye", "cancel", "refresh"} \cup Clients
Requesters == Clients \cup {"refresh"}
Free == "free"

NoDialog == [state |-> "none", cseq |-> 0, terminating |-> FALSE,
             armed |-> FALSE, refreshSeq |-> 0, uac |-> FALSE]

\* kind: the request; cseq, next: cfg.CSeq and nextCSeq of the operation; uac:
\* its copy of the session interval; raised: a 422 has changed it (at most once);
\* seq: the refreshSeq the timer was set with.
NoLocals == [kind |-> "none", cseq |-> 0, next |-> 0, tries |-> 0,
             uac |-> FALSE, raised |-> FALSE, seq |-> 0]

TypeOK ==
  /\ gateway \in {"none", "early", "established", "terminated"}
  /\ dialog.state \in {"none", "early", "confirmed"}
  /\ relay \in {"none", "open", "closed"}
  /\ flow \in Threads \cup {Free}
  /\ top \in 0 .. MaxCSeq + 1 /\ ops \in 0 .. MaxOps

Init ==
  /\ gateway = "none" /\ dialog = NoDialog /\ relay = "none" /\ flow = Free
  /\ pc = [t \in Threads |-> "idle"] /\ loc = [t \in Threads |-> NoLocals]
  /\ ops = 0 /\ top = 0
  /\ hist = [stale |-> FALSE, excused |-> FALSE, answered |-> FALSE,
             dropped |-> FALSE, refreshLost |-> FALSE]

-----------------------------------------------------------------------------
(* Helpers.                                                                *)

Goto(t, step) == pc' = [pc EXCEPT ![t] = step]

Return(t) == Goto(t, "idle") /\ loc' = [loc EXCEPT ![t] = NoLocals]

\* roundTrip of a WireSIPFlow locks it until the transaction is over.
Lock(t) == flow = Free /\ flow' = IF Serialised THEN t ELSE Free

Unlock == flow' = Free

\* A request goes out with CSeq n.  RoundTripRequestWithDigestAuth repeats a
\* challenged one with n + 1, which the dialog never learns of.
Send(n, challenged) ==
  LET last == IF challenged THEN n + 1 ELSE n
  IN IF hist.excused THEN top' = 0 /\ UNCHANGED hist
     ELSE /\ top' = IF last > top THEN last ELSE top
          /\ hist' = [hist EXCEPT !.stale = @ \/ n <= top, !.excused = challenged]

Exchanging == {"store", "attempt", "send", "wait", "prack", "pracking", "retry",
               "ack", "confirm"}

\* Another operation is between the CSeq it has read and the one it leaves.
Overlaps(t) == \E u \in Threads \ {t, "cancel"} : pc[u] \in Exchanging

CloseRelay == relay' = IF relay = "open" THEN "closed" ELSE relay

\* scheduleDialogSessionRefresh: the timer is stopped, and set again if this
\* side refreshes an established dialog that is not being ended.
Schedule(d) ==
  IF d.state = "none" THEN d
  ELSE [d EXCEPT !.refreshSeq = @ + 1,
                 !.armed = d.uac /\ d.state = "confirmed" /\ ~ d.terminating]

\* stopDialogSessionRefresh
StopRefresh(d) == [d EXCEPT !.armed = FALSE, !.refreshSeq = @ + 1]

-----------------------------------------------------------------------------
(* INVITE: HandleClientInvite and StartOutboundCall.                       *)

InviteBegin ==
  /\ pc["invite"] = "idle" /\ gateway = "none"
  /\ gateway' = "early" /\ relay' = "open"
  /\ Goto("invite", "store")
  /\ loc' = [loc EXCEPT !["invite"] = [NoLocals EXCEPT !.kind = "invite", !.cseq = 1,
                                                       !.next = 2, !.uac = Refreshes]]
  /\ UNCHANGED <<dialog, flow, ops, top, hist>>

\* The deferred function closes the relay, and the gateway hears of an error.
InviteFailed ==
  /\ CloseRelay
  /\ Goto("invite", "record") /\ loc' = [loc EXCEPT !["invite"].kind = "failed"]

InviteSetupFails ==
  /\ pc["invite"] = "store" /\ loc["invite"].tries = 0
  /\ InviteFailed
  /\ UNCHANGED <<gateway, dialog, flow, ops, top, hist>>

\* storeDialog replaces whatever the table holds.
InviteStore ==
  /\ pc["invite"] = "store"
  /\ dialog' = [NoDialog EXCEPT !.state = "early", !.cseq = loc["invite"].cseq,
                                !.uac = loc["invite"].uac]
  /\ Goto("invite", "send")
  /\ UNCHANGED <<gateway, relay, flow, loc, ops, top, hist>>

InviteSend ==
  /\ pc["invite"] = "send" /\ Lock("invite")
  /\ Send(loc["invite"].cseq, FALSE)
  /\ Goto("invite", "wait")
  /\ UNCHANGED <<gateway, dialog, relay, loc, ops>>

\* A challenge, 422 or redirect is acknowledged, and the INVITE sent again.
InviteRetry ==
  /\ pc["invite"] = "wait" /\ loc["invite"].tries < MaxTries
  /\ Unlock /\ Goto("invite", "retry")
  /\ UNCHANGED <<gateway, dialog, relay, loc, ops, top, hist>>

InviteAgain ==
  /\ pc["invite"] = "retry" /\ flow = Free /\ loc["invite"].next < MaxCSeq
  /\ loc' = [loc EXCEPT !["invite"].cseq = loc["invite"].next,
                        !["invite"].next = @ + 1, !["invite"].tries = @ + 1]
  /\ Goto("invite", "store")
  /\ UNCHANGED <<gateway, dialog, relay, flow, ops, top, hist>>

\* A final rejection, a timeout, a broken connection, a failed PRACK or a
\* failed ACK of a rejection: deleteDialog, and the call is over.
InviteFails ==
  /\ pc["invite"] \in {"wait", "pracking", "retry"} /\ flow \in {Free, "invite"}
  /\ Unlock /\ dialog' = NoDialog /\ InviteFailed
  /\ UNCHANGED <<gateway, ops, top, hist>>

\* A 2xx: the session interval is what the answer says.
InviteAnswered ==
  /\ pc["invite"] = "wait"
  /\ Unlock /\ Goto("invite", "ack")
  /\ \E u \in BOOLEAN : loc' = [loc EXCEPT !["invite"].uac = u]
  /\ hist' = [hist EXCEPT !.answered = TRUE]
  /\ UNCHANGED <<gateway, dialog, relay, ops, top>>

InviteAcked ==
  /\ pc["invite"] = "ack" /\ flow = Free
  /\ Goto("invite", "confirm")
  /\ UNCHANGED <<gateway, dialog, relay, flow, loc, ops, top, hist>>

\* The early dialog stays in the table, with the CSeq of the INVITE.
InviteAckFails ==
  /\ pc["invite"] = "ack" /\ flow = Free /\ InviteFailed
  /\ hist' = [hist EXCEPT !.excused = TRUE]
  /\ UNCHANGED <<gateway, dialog, flow, ops, top>>

\* The SDP of the answer cannot be used.
InviteBadAnswer ==
  /\ pc["invite"] = "confirm"
  /\ dialog' = NoDialog /\ InviteFailed
  /\ UNCHANGED <<gateway, flow, ops, top, hist>>

\* Mutant: the PRACKs are forgotten in the CSeq left for the next request.
InviteConfirm_ForgetsPracks ==
  /\ pc["invite"] = "confirm"
  /\ dialog' = [NoDialog EXCEPT !.state = "confirmed", !.cseq = loc["invite"].cseq + 1,
                                !.uac = loc["invite"].uac]
  /\ Goto("invite", "schedule")
  /\ UNCHANGED <<gateway, relay, flow, loc, ops, top, hist>>

InviteConfirm ==
  /\ pc["invite"] = "confirm"
  /\ dialog' = [NoDialog EXCEPT !.state = "confirmed", !.cseq = loc["invite"].next,
                                !.uac = loc["invite"].uac]
  /\ Goto("invite", "schedule")
  /\ UNCHANGED <<gateway, relay, flow, loc, ops, top, hist>>

\* Mutant: closeRelayOnError stays set.
InviteSchedule_ClosesRelay ==
  /\ pc["invite"] = "schedule"
  /\ dialog' = Schedule(dialog) /\ CloseRelay
  /\ Goto("invite", "record")
  /\ UNCHANGED <<gateway, flow, loc, ops, top, hist>>

InviteSchedule ==
  /\ pc["invite"] = "schedule"
  /\ dialog' = Schedule(dialog)
  /\ Goto("invite", "record")
  /\ UNCHANGED <<gateway, relay, flow, loc, ops, top, hist>>

InviteRecord ==
  /\ pc["invite"] = "record"
  /\ gateway' = IF loc["invite"].kind = "failed" THEN "terminated" ELSE "established"
  /\ Goto("invite", "done") /\ loc' = [loc EXCEPT !["invite"] = NoLocals]
  /\ UNCHANGED <<dialog, relay, flow, ops, top, hist>>

-----------------------------------------------------------------------------
(* Reliable provisional responses of an INVITE or re-INVITE: its callback  *)
(* sends the PRACK while the INVITE transaction goes on.                   *)

Inviting(t) == loc[t].kind \in {"invite", "reinvite"}

ReliableProvisional(t) ==
  /\ pc[t] = "wait" /\ Inviting(t) /\ loc[t].tries < MaxTries /\ loc[t].next < MaxCSeq
  /\ Goto(t, "prack")
  /\ UNCHANGED <<gateway, dialog, relay, flow, loc, ops, top, hist>>

PrackSend(t) ==
  /\ pc[t] = "prack" /\ Lock(t)
  /\ \E challenged \in BOOLEAN : Send(loc[t].next, challenged)
  /\ Goto(t, "pracking")
  /\ UNCHANGED <<gateway, dialog, relay, loc, ops>>

PrackAnswered(t) ==
  /\ pc[t] = "pracking"
  /\ loc' = [loc EXCEPT ![t].next = @ + 1, ![t].tries = @ + 1]
  /\ dialog' = IF loc[t].kind = "reinvite" /\ dialog.state # "none"
               THEN [dialog EXCEPT !.cseq = loc[t].next + 1] ELSE dialog
  /\ Goto(t, "wait")
  /\ UNCHANGED <<gateway, relay, flow, ops, top, hist>>

-----------------------------------------------------------------------------
(* Requests inside the dialog: SendDialogInfo, -Message, -Prack, -Options, *)
(* -Refer, -Notify and -Subscribe ("plain"), SendDialogUpdate ("update")   *)
(* and SendDialogReinvite ("reinvite").                                    *)

Locals(k) == [NoLocals EXCEPT !.kind = k, !.cseq = dialog.cseq,
                              !.next = dialog.cseq + 1,
                              !.uac = k = "update" /\ dialog.uac]

\* The dialog's CSeq is read, and stored only with the attempt.
RequestBegin(t) ==
  /\ pc[t] = "idle" /\ ops < MaxOps
  /\ dialog.state # "none" /\ dialog.cseq < MaxCSeq
  /\ \E k \in {"plain", "update"} :
       /\ k = "update" => ~ dialog.terminating
       /\ loc' = [loc EXCEPT ![t] = Locals(k)]
  /\ Goto(t, "attempt") /\ ops' = ops + 1
  /\ hist' = [hist EXCEPT !.excused = @ \/ Overlaps(t)]
  /\ UNCHANGED <<gateway, dialog, relay, flow, top>>

\* HandleClientInvite takes the INVITE of an established call here.
ReinviteBegin(t) ==
  /\ pc[t] = "idle" /\ ops < MaxOps /\ gateway = "established"
  /\ dialog.state # "none" /\ dialog.cseq < MaxCSeq
  /\ loc' = [loc EXCEPT ![t] = Locals("reinvite")]
  /\ dialog' = [dialog EXCEPT !.cseq = @ + 1]
  /\ Goto(t, "send") /\ ops' = ops + 1
  /\ hist' = [hist EXCEPT !.excused = @ \/ Overlaps(t)]
  /\ UNCHANGED <<gateway, relay, flow, top>>

\* What an attempt leaves in the table: the CSeq of the next request and, when a
\* 422 made it ask for another interval, that interval, agreed or not.
StoreAttempt(cseq, u) ==
  IF dialog.state = "none" THEN UNCHANGED <<dialog, hist>>
  ELSE /\ dialog' = [dialog EXCEPT !.cseq = cseq, !.uac = u]
       /\ hist' = [hist EXCEPT !.refreshLost = @ \/ u # dialog.uac]

\* storeOutboundDialogAttempt; an UPDATE stores its interval as well.
RequestAttempt(t) ==
  /\ pc[t] = "attempt"
  /\ StoreAttempt(loc[t].cseq + 1, IF loc[t].kind = "update" THEN loc[t].uac ELSE dialog.uac)
  /\ Goto(t, "send")
  /\ UNCHANGED <<gateway, relay, flow, loc, ops, top>>

RequestSend(t) ==
  /\ pc[t] = "send" /\ Lock(t)
  /\ \E challenged \in BOOLEAN :
       /\ challenged => loc[t].kind # "reinvite"
       /\ Send(loc[t].cseq, challenged)
  /\ Goto(t, "wait")
  /\ UNCHANGED <<gateway, dialog, relay, loc, ops>>

\* A redirect or glare, or a 422 that raises the interval to what the headers
\* of the request named; a re-INVITE takes the challenges too.
RequestRetry(t) ==
  /\ pc[t] = "wait" /\ loc[t].tries < MaxTries /\ loc[t].next < MaxCSeq
  /\ Unlock
  /\ \E u \in IF loc[t].kind = "update" /\ ~ loc[t].raised THEN BOOLEAN ELSE {loc[t].uac} :
       loc' = [loc EXCEPT ![t] = [@ EXCEPT !.cseq = loc[t].next, !.next = @ + 1,
                                          !.tries = @ + 1, !.uac = u,
                                          !.raised = @ \/ u # loc[t].uac]]
  /\ Goto(t, IF loc[t].kind = "reinvite" THEN "retry" ELSE "attempt")
  /\ UNCHANGED <<gateway, dialog, relay, ops, top, hist>>

\* The rejected re-INVITE is acknowledged first; a 422 changes the interval.
ReinviteAgain(t) ==
  /\ pc[t] = "retry" /\ flow = Free
  /\ \E u \in IF loc[t].raised THEN {dialog.uac} ELSE BOOLEAN :
       /\ StoreAttempt(loc[t].next, u)
       /\ loc' = [loc EXCEPT ![t].raised = @ \/ u # dialog.uac]
  /\ Goto(t, "send")
  /\ UNCHANGED <<gateway, relay, flow, ops, top>>

\* applyNegotiatedSessionInterval on what is in the table now.
Negotiate ==
  \E u \in BOOLEAN :
    dialog' = IF dialog.state = "none" THEN dialog ELSE [dialog EXCEPT !.uac = u]

PlainAnswered(t) ==
  /\ pc[t] = "wait" /\ loc[t].kind = "plain"
  /\ Unlock /\ Return(t)
  /\ UNCHANGED <<gateway, dialog, relay, ops, top, hist>>

UpdateAccepted(t) ==
  /\ pc[t] = "wait" /\ loc[t].kind = "update"
  /\ Unlock /\ Negotiate /\ Goto(t, "schedule")
  /\ UNCHANGED <<gateway, relay, loc, ops, top, hist>>

ReinviteAccepted(t) ==
  /\ pc[t] = "wait" /\ loc[t].kind = "reinvite"
  /\ Unlock /\ Goto(t, "ack")
  /\ UNCHANGED <<gateway, dialog, relay, loc, ops, top, hist>>

ReinviteAcked(t) ==
  /\ pc[t] = "ack" /\ flow = Free
  /\ Negotiate /\ Goto(t, "schedule")
  /\ UNCHANGED <<gateway, relay, flow, loc, ops, top, hist>>

RequestSchedule(t) ==
  /\ pc[t] = "schedule"
  /\ dialog' = Schedule(dialog) /\ Return(t)
  /\ UNCHANGED <<gateway, relay, flow, ops, top, hist>>

\* Rejected, timed out, or refused by the relay: nothing is undone, the timer
\* of a refresh is not set again, and the number of a failed PRACK is not kept.
RequestFails(t) ==
  /\ pc[t] \in {"wait", "pracking", "retry", "ack"} /\ flow \in {Free, t}
  /\ Unlock /\ Return(t)
  /\ hist' = [hist EXCEPT !.refreshLost = @ \/ t = "refresh",
                          !.excused = @ \/ pc[t] = "pracking"]
  /\ UNCHANGED <<gateway, dialog, relay, ops, top>>

-----------------------------------------------------------------------------
(* The refresh timer: runDialogSessionRefresh and its UPDATE.  The interval *)
(* is far longer than a transaction: one refresh is under way at a time.   *)

TimerFires ==
  /\ dialog.armed /\ pc["refresh"] = "idle" /\ ops < MaxOps
  /\ dialog' = [dialog EXCEPT !.armed = FALSE]
  /\ loc' = [loc EXCEPT !["refresh"].seq = dialog.refreshSeq]
  /\ Goto("refresh", "fired") /\ ops' = ops + 1
  /\ UNCHANGED <<gateway, relay, flow, top, hist>>

RefreshCheck ==
  /\ pc["refresh"] = "fired"
  /\ IF /\ dialog.state = "confirmed" /\ ~ dialog.terminating
        /\ dialog.refreshSeq = loc["refresh"].seq /\ dialog.uac
     THEN Goto("refresh", "begin") /\ UNCHANGED loc
     ELSE Return("refresh")
  /\ UNCHANGED <<gateway, dialog, relay, flow, ops, top, hist>>

\* The lock was released in between: SendDialogUpdate looks again.
RefreshBegin ==
  /\ pc["refresh"] = "begin"
  /\ IF dialog.state = "none" \/ dialog.terminating
     THEN Return("refresh") /\ UNCHANGED hist
     ELSE /\ loc' = [loc EXCEPT !["refresh"] = Locals("update")]
          /\ Goto("refresh", "attempt")
          /\ hist' = [hist EXCEPT !.excused = @ \/ Overlaps("refresh")]
  /\ UNCHANGED <<gateway, dialog, relay, flow, ops, top>>

StopSessionTimers ==
  /\ dialog.state # "none" /\ ops < MaxOps
  /\ dialog' = StopRefresh(dialog) /\ ops' = ops + 1
  /\ hist' = [hist EXCEPT !.refreshLost = TRUE]
  /\ UNCHANGED <<gateway, relay, flow, pc, loc, top>>

-----------------------------------------------------------------------------
(* BYE: HandleClientBye and EndVoiceCallWithResult.                        *)

ByeBegin ==
  /\ pc["bye"] = "idle" /\ gateway # "none" /\ ops < MaxOps
  /\ ops' = ops + 1
  /\ IF dialog.state = "none"
     THEN /\ Goto("bye", "record") /\ loc' = [loc EXCEPT !["bye"].kind = "gone"]
          /\ UNCHANGED <<dialog, hist>>
     ELSE /\ dialog.cseq < MaxCSeq
          /\ loc' = [loc EXCEPT !["bye"] = [NoLocals EXCEPT !.kind = "bye", !.cseq = dialog.cseq]]
          /\ dialog' = StopRefresh([dialog EXCEPT !.cseq = @ + 1, !.terminating = TRUE])
          /\ hist' = [hist EXCEPT !.excused = @ \/ Overlaps("bye"),
                                  !.dropped = @ \/ pc["invite"] # "done"]
          /\ Goto("bye", "send")
  /\ UNCHANGED <<gateway, relay, flow, top>>

ByeSend ==
  /\ pc["bye"] = "send" /\ Lock("bye")
  /\ \E challenged \in BOOLEAN : Send(loc["bye"].cseq, challenged)
  /\ Goto("bye", "wait")
  /\ UNCHANGED <<gateway, dialog, relay, loc, ops>>

\* The relay is closed before the dialog is removed.
ByeAccepted ==
  /\ pc["bye"] = "wait"
  /\ Unlock /\ CloseRelay /\ Goto("bye", "delete")
  /\ UNCHANGED <<gateway, dialog, loc, ops, top, hist>>

ByeDelete ==
  /\ pc["bye"] = "delete"
  /\ dialog' = NoDialog /\ Goto("bye", "record")
  /\ UNCHANGED <<gateway, relay, flow, loc, ops, top, hist>>

\* An error, or a rejection: 481 tells the gateway that the dialog is gone.
ByeFails ==
  /\ pc["bye"] = "wait"
  /\ Unlock /\ Goto("bye", "resume")
  /\ \E k \in {"gone", "failed"} : loc' = [loc EXCEPT !["bye"].kind = k]
  /\ UNCHANGED <<gateway, dialog, relay, ops, top, hist>>

\* Mutant: a BYE that failed leaves the dialog marked.
ByeResume_StaysTerminating ==
  /\ pc["bye"] = "resume" /\ Goto("bye", "schedule")
  /\ UNCHANGED <<gateway, dialog, relay, flow, loc, ops, top, hist>>

ByeResume ==
  /\ pc["bye"] = "resume"
  /\ dialog' = [dialog EXCEPT !.terminating = FALSE]
  /\ Goto("bye", "schedule")
  /\ UNCHANGED <<gateway, relay, flow, loc, ops, top, hist>>

ByeSchedule ==
  /\ pc["bye"] = "schedule"
  /\ dialog' = Schedule(dialog) /\ Goto("bye", "record")
  /\ UNCHANGED <<gateway, relay, flow, loc, ops, top, hist>>

\* dialogResultTerminatesLocalDialog
Record(t) ==
  /\ pc[t] = "record"
  /\ gateway' = IF loc[t].kind = "failed" THEN gateway ELSE "terminated"
  /\ Return(t)
  /\ UNCHANGED <<dialog, relay, flow, ops, top, hist>>

-----------------------------------------------------------------------------
(* CANCEL: HandleClientCancel and CancelVoiceCallWithResult.  Its CSeq is  *)
(* the INVITE's.                                                           *)

CancelBegin ==
  /\ pc["cancel"] = "idle" /\ gateway # "none" /\ ops < MaxOps
  /\ ops' = ops + 1
  /\ IF dialog.state = "early"
     THEN Goto("cancel", "send") /\ loc' = [loc EXCEPT !["cancel"].kind = "cancel"]
     ELSE Goto("cancel", "record") /\ loc' = [loc EXCEPT !["cancel"].kind = "gone"]
  /\ UNCHANGED <<gateway, dialog, relay, flow, top, hist>>

CancelSend ==
  /\ pc["cancel"] = "send" /\ Lock("cancel") /\ Goto("cancel", "wait")
  /\ UNCHANGED <<gateway, dialog, relay, loc, ops, top, hist>>

\* deleteDialog: whatever dialog the table holds by now, its timer and relay.
CancelAccepted ==
  /\ pc["cancel"] = "wait" /\ Unlock
  /\ dialog' = NoDialog
  /\ IF dialog.state = "none" THEN UNCHANGED relay ELSE CloseRelay
  /\ hist' = [hist EXCEPT !.dropped = TRUE]
  /\ Goto("cancel", "record")
  /\ UNCHANGED <<gateway, loc, ops, top>>

CancelFails ==
  /\ pc["cancel"] = "wait" /\ Unlock /\ Goto("cancel", "record")
  /\ \E k \in {"gone", "failed"} : loc' = [loc EXCEPT !["cancel"].kind = k]
  /\ UNCHANGED <<gateway, dialog, relay, ops, top, hist>>

-----------------------------------------------------------------------------

Begin ==
  \/ InviteBegin \/ ByeBegin \/ CancelBegin \/ TimerFires \/ StopSessionTimers
  \/ \E t \in Clients : RequestBegin(t) \/ ReinviteBegin(t)

\* The steps that need the lock of the flow.
Acquire(t) ==
  \/ t = "invite" /\ (InviteSend \/ InviteAgain \/ InviteAcked)
  \/ t = "bye" /\ ByeSend
  \/ t = "cancel" /\ CancelSend
  \/ t \in Requesters /\ (RequestSend(t) \/ ReinviteAgain(t) \/ ReinviteAcked(t))
  \/ PrackSend(t)

Proceed(t) ==
  \/ /\ t = "invite"
     /\ \/ InviteSetupFails \/ InviteStore \/ InviteFails \/ InviteAckFails
        \/ InviteBadAnswer \/ InviteConfirm \/ InviteSchedule \/ InviteRecord
  \/ /\ t = "bye"
     /\ ByeDelete \/ ByeFails \/ ByeResume \/ ByeSchedule \/ Record(t)
  \/ t = "cancel" /\ (CancelFails \/ Record(t))
  \/ t = "refresh" /\ (RefreshCheck \/ RefreshBegin)
  \/ t \in Requesters /\ (RequestAttempt(t) \/ RequestSchedule(t) \/ RequestFails(t))

\* What the network may do for a request that is out, or not do.
Answered(t) ==
  \/ t = "invite" /\ (InviteRetry \/ InviteAnswered)
  \/ t = "bye" /\ ByeAccepted
  \/ t = "cancel" /\ CancelAccepted
  \/ /\ t \in Requesters
     /\ \/ RequestRetry(t) \/ PlainAnswered(t)
        \/ UpdateAccepted(t) \/ ReinviteAccepted(t)
  \/ ReliableProvisional(t) \/ PrackAnswered(t)

Next == Begin \/ \E t \in Threads : Acquire(t) \/ Proceed(t) \/ Answered(t)

Spec == Init /\ [][Next]_vars

\* A goroutine runs on, and the deadline of a round trip ends it when no answer
\* does.  Weak fairness is enough for the lock: the operations are bounded, so
\* that nobody can be overtaken for ever.
Runs(t) == Acquire(t) \/ Proceed(t)
Fairness == \A t \in Threads : WF_vars(Runs(t))

FairSpec == Spec /\ Fairness

-----------------------------------------------------------------------------

Idle(t) == pc[t] \in {"idle", "done"}

Quiet == pc["invite"] = "done" /\ \A t \in Threads : Idle(t)

\* When nothing is under way, a call that the gateway lists as established is
\* one the agent can serve (its dialog is confirmed), the media of a confirmed
\* dialog flow, and a relay is open for nothing else.  An answer that crosses
\* an accepted CANCEL or early BYE is left out: either may be recorded last.
CallStateAgrees ==
  Quiet /\ ~ (hist.answered /\ hist.dropped) =>
    /\ gateway = "established" => dialog.state = "confirmed"
    /\ dialog.state = "confirmed" <=> relay = "open"

\* The CSeq of each request is above those of all earlier ones, through PRACKs
\* inside the INVITE, retries and failures, as long as no two operations are
\* under way at once, none is challenged, and neither the ACK of the answer nor
\* the PRACK of a re-INVITE failed: storeOutboundDialogAttempt writes a CSeq
\* read before the lock was released, the repetition of a challenged request
\* and a failed PRACK use numbers that the dialog is not told of, and a failed
\* ACK leaves the early dialog behind.
CSeqFresh == hist.stale => hist.excused

\* When nothing is under way on a confirmed dialog that this side refreshes,
\* the timer is set and no mark of a BYE is left: a BYE that fails gives back
\* what it took.  Left out are a refresh that failed (it is not tried again),
\* stopped timers, an interval stored before it was agreed, and operations that
\* overlapped.
RefreshKept ==
  Quiet /\ dialog.state = "confirmed" =>
    /\ ~ dialog.terminating
    /\ dialog.uac /\ ~ hist.excused /\ ~ hist.refreshLost => dialog.armed

\* The refresh timer runs only for an established dialog that no BYE is ending,
\* whatever UPDATE or re-INVITE is answered while the BYE is out.
NoTimerWhileTerminating ==
  dialog.armed => dialog.state = "confirmed" /\ ~ dialog.terminating

\* Every operation on the call returns: StartOutboundCall, the in-dialog
\* requests, BYE, CANCEL and the refresh.  The operations are bounded, so this
\* is that again and again none is under way.
CallsReturn == []<>(\A t \in Threads : Idle(t))

=============================================================================

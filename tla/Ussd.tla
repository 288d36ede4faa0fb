--------------------------------- MODULE Ussd ---------------------------------
(***************************************************************************)
(* USSD sessions: the dialogs IMSUSSDTransport keeps (ims_ussd.go,         *)
(* ims_ussd_inbound.go), the sessions Service believes active              *)
(* (messaging.go) and the runtime's recovering wrapper (types.go), which   *)
(* swaps the transport, and with it the dialogs, after a new registration. *)
(*                                                                         *)
(* An operation reads a copy of the dialog, sends its request, and writes  *)
(* the copy back when the answer comes; nothing is locked in between.  A   *)
(* session is a Call-ID, so the network's INFO and BYE name it directly.   *)
(***************************************************************************)
EXTENDS MessagingRetry, FiniteSets, TLC

CONSTANTS Sessions,         \* session ids
          Callers,          \* goroutines calling the service
          maxIMSMessagingRedirects,
          MaxCSeq,          \* bound: requests of one dialog
          MaxRecoveries     \* bound: registrations recovered

VARIABLES dialogs,   \* dialogs[t][s]: CSeq of s's dialog in transport t, 0 if none
          current,   \* the transport the service uses
          active,    \* Service.ussdSessions
          op,        \* the operation each caller runs
          sent,      \* history: CSeqs sent in the present dialog of a session
          repeated,  \* history: sessions in whose dialog a CSeq was sent twice
          overlap,   \* history: sessions of which two operations overlapped
          lost       \* history: sessions a request of which got no answer

vars == <<dialogs, current, active, op, sent, repeated, overlap, lost>>

Transports == 0 .. MaxRecoveries
NoDialog == 0
IdleOp == [kind |-> "idle", session |-> CHOOSE s \in Sessions : TRUE, via |-> 0,
           cseq |-> 0, redirects |-> 0, answer |-> "none", recovered |-> FALSE]
Busy(s) == {c \in Callers : op[c].kind # "idle" /\ op[c].session = s}

UssdInit ==
    /\ dialogs = [t \in Transports |-> [s \in Sessions |-> NoDialog]]
    /\ current = 0 /\ active = {}
    /\ op = [c \in Callers |-> IdleOp]
    /\ sent = [s \in Sessions |-> {}]
    /\ repeated = {} /\ overlap = {} /\ lost = {}

storeSession(t, s, cseq) == dialogs' = [dialogs EXCEPT ![t][s] = cseq]
clearSession(t, s) == dialogs' = [dialogs EXCEPT ![t][s] = NoDialog]

(* A request of s's dialog leaves with this CSeq. *)
SendIn(s, cseq) ==
    /\ sent' = [sent EXCEPT ![s] = @ \cup {cseq}]
    /\ repeated' = IF cseq \in sent[s] THEN repeated \cup {s} ELSE repeated

Overlapping(s) == overlap' = IF Busy(s) # {} THEN overlap \cup {s} ELSE overlap

-----------------------------------------------------------------------------
(* Operations of the host *)

(* SendUSSD, and the replay of an INVITE that failed: a first INVITE, CSeq 1. *)
ExecuteUSSD(c, s) ==
    /\ op[c].kind = "idle" /\ s \notin active /\ Busy(s) = {}
    /\ op' = [op EXCEPT ![c] = [IdleOp EXCEPT !.kind = "INVITE", !.session = s, !.via = current, !.cseq = 1]]
    /\ sent' = [sent EXCEPT ![s] = {1}]
    /\ repeated' = repeated \ {s}
    /\ UNCHANGED <<dialogs, current, active, overlap, lost>>

(* The replay of an INFO does not ask the service for the session.         *)
ContinueUSSD(c, s, replayed) ==
    /\ op[c].kind = "idle"
    /\ replayed \/ s \in active
    /\ dialogs[current][s] # NoDialog /\ dialogs[current][s] < MaxCSeq
    /\ LET cseq == dialogs[current][s] + 1 IN
       /\ op' = [op EXCEPT ![c] = [IdleOp EXCEPT !.kind = "INFO", !.session = s, !.via = current, !.cseq = cseq]]
       /\ SendIn(s, cseq)
    /\ Overlapping(s)
    /\ UNCHANGED <<dialogs, current, active, lost>>

CancelUSSD(c, s) ==
    /\ op[c].kind = "idle"
    /\ \/ /\ dialogs[current][s] = NoDialog              \* nothing to end, no error
          /\ active' = active \ {s}
          /\ s \in active
          /\ UNCHANGED <<op, sent, repeated>>
       \/ /\ dialogs[current][s] # NoDialog
          /\ LET cseq == dialogs[current][s] + 1 IN
             /\ op' = [op EXCEPT ![c] = [IdleOp EXCEPT !.kind = "BYE", !.session = s, !.via = current, !.cseq = cseq]]
             /\ SendIn(s, cseq)
          /\ UNCHANGED active
    /\ Overlapping(s)
    /\ UNCHANGED <<dialogs, current, lost>>

-----------------------------------------------------------------------------
(* The answer: a 3xx to follow, a final result, or none *)

Redirected(c) ==
    LET o == op[c] IN
    /\ o.kind \in {"INVITE", "INFO"} /\ o.answer = "none"
    /\ o.redirects < maxIMSMessagingRedirects /\ o.cseq < MaxCSeq
    /\ op' = [op EXCEPT ![c].cseq = @ + 1, ![c].redirects = @ + 1]
    /\ SendIn(o.session, o.cseq + 1)
    /\ IF o.kind = "INFO" THEN storeSession(o.via, o.session, o.cseq + 1) ELSE UNCHANGED dialogs
    /\ UNCHANGED <<current, active, overlap, lost>>

Answers == {"more", "done", "malformed", "rejected", "recoverable", "none"}

(* What the transport does to its dialog when the answer has come.  "none" *)
(* is a request without an answer, or an ACK that could not be written.    *)
MutAfterAnswer(o, a) ==
    CASE o.kind = "BYE" \/ a = "done" -> clearSession(o.via, o.session)
      [] o.kind = "INVITE" /\ a = "more" -> storeSession(o.via, o.session, o.cseq)
      [] OTHER -> UNCHANGED dialogs
AfterAnswer(o, a) ==
    CASE o.kind = "BYE" -> clearSession(o.via, o.session)
      [] o.kind = "INFO" /\ a = "more" -> storeSession(o.via, o.session, o.cseq)
      [] o.kind = "INFO" /\ a \in {"done", "malformed", "rejected", "recoverable"} -> clearSession(o.via, o.session)
      [] o.kind = "INVITE" /\ a = "more" -> storeSession(o.via, o.session, o.cseq)
      [] o.kind = "INVITE" /\ a = "done" -> clearSession(o.via, o.session)
      [] OTHER -> UNCHANGED dialogs

RegistrationRecoveryNeeded(a) == a \in {"recoverable", "none"}

Answered(c) ==
    LET o == op[c] IN
    /\ o.kind \in {"INVITE", "INFO", "BYE"} /\ o.answer = "none"
    /\ \E a \in Answers :
       /\ AfterAnswer(o, a)
       /\ op' = [op EXCEPT ![c].answer = IF a = "none" THEN "unanswered" ELSE a]
       /\ lost' = IF a = "none" THEN lost \cup {o.session} ELSE lost
    /\ UNCHANGED <<current, active, sent, repeated, overlap>>

(* The wrapper recovers the registration; success installs a new transport *)
(* and an INVITE without a success answer is sent once more through it.    *)
Recovers(c) ==
    LET o == op[c] IN
    /\ o.answer \in {"recoverable", "unanswered"} /\ ~o.recovered
    /\ \/ /\ current < MaxRecoveries
          /\ current' = current + 1
          /\ IF o.kind = "INVITE"
             THEN /\ op' = [op EXCEPT ![c] = [IdleOp EXCEPT !.kind = "INVITE", !.session = o.session, !.via = current + 1,
                                                             !.cseq = 1, !.recovered = TRUE]]
                  /\ sent' = [sent EXCEPT ![o.session] = {1}]
                  /\ repeated' = repeated \ {o.session}
             ELSE op' = [op EXCEPT ![c].recovered = TRUE] /\ UNCHANGED <<sent, repeated>>
       \/ op' = [op EXCEPT ![c].recovered = TRUE] /\ UNCHANGED <<current, sent, repeated>>
    /\ UNCHANGED <<dialogs, active, overlap, lost>>

(* recordUSSDSession: an operation that failed leaves the session alone.   *)
recordUSSDSession(s, a) ==
    active' = CASE a = "more" -> active \cup {s}
                [] a = "done" -> active \ {s}
                [] OTHER -> active

Returns(c) ==
    LET o == op[c] IN
    /\ o.answer # "none"
    /\ o.answer \in {"recoverable", "unanswered"} => o.recovered
    /\ IF o.kind = "BYE"
       THEN active' = IF o.answer \in {"more", "done", "malformed"} THEN active \ {o.session} ELSE active
       ELSE recordUSSDSession(o.session, o.answer)
    /\ op' = [op EXCEPT ![c] = IdleOp]
    /\ UNCHANGED <<dialogs, current, sent, repeated, overlap, lost>>

-----------------------------------------------------------------------------
(* Requests of the network, HandleIMSUSSDInfo and HandleIMSUSSDBye.  An    *)
(* INFO of USSD opens a dialog of its own when its Call-ID is not known.   *)

inboundUSSDSession(s) == IF dialogs[current][s] # NoDialog THEN dialogs[current][s] ELSE 1

InboundInfo(s, done) ==
    /\ dialogs[current][s] # NoDialog \/ (s \notin active /\ Busy(s) = {})
    /\ IF done THEN clearSession(current, s) ELSE storeSession(current, s, inboundUSSDSession(s))
    /\ sent' = [sent EXCEPT ![s] = IF dialogs[current][s] = NoDialog THEN {} ELSE @]
    /\ repeated' = IF dialogs[current][s] = NoDialog THEN repeated \ {s} ELSE repeated
    /\ recordUSSDSession(s, IF done THEN "done" ELSE "more")
    /\ Overlapping(s)
    /\ UNCHANGED <<current, op, lost>>

InboundBye(s) ==
    /\ dialogs[current][s] # NoDialog
    /\ clearSession(current, s)
    /\ recordUSSDSession(s, "done")
    /\ Overlapping(s)
    /\ UNCHANGED <<current, op, sent, repeated, lost>>

UssdNext ==
    \/ \E c \in Callers, s \in Sessions :
         \/ ExecuteUSSD(c, s) \/ ContinueUSSD(c, s, TRUE) \/ ContinueUSSD(c, s, FALSE) \/ CancelUSSD(c, s)
    \/ \E c \in Callers : Redirected(c) \/ Answered(c) \/ Recovers(c) \/ Returns(c)
    \/ \E s \in Sessions : InboundInfo(s, TRUE) \/ InboundInfo(s, FALSE) \/ InboundBye(s)

UssdSpec == UssdInit /\ [][UssdNext]_vars

-----------------------------------------------------------------------------
(* Properties *)

(* A dialog the transport holds is one the service can continue or cancel, *)
(* through failures, redirects and recoveries: with no operation running,  *)
(* it is missing from the service's sessions only if operations of that    *)
(* session overlapped (each writes back the copy it had read).             *)
NoOrphanDialog ==
    \A s \in Sessions :
        (dialogs[current][s] # NoDialog /\ Busy(s) = {}) => s \in active \/ s \in overlap

(* The CSeq of a dialog is not used twice, over redirects and requests of  *)
(* the network, unless operations overlapped or a request went unanswered  *)
(* (ContinueUSSD then returns before it stores the CSeq it used).          *)
UssdCSeqFresh == repeated \subseteq (overlap \cup lost)
=============================================================================

---------------------------- MODULE InboundCall ----------------------------
(***************************************************************************)
(* The agent that bridges one IMS-originated call to the local SIP client  *)
(* (voicehost/ims_inbound_agent.go).  Every request of the call is handled *)
(* by a goroutine of its own.  A handler copies the dialog out of the      *)
(* agent's table under the mutex, talks to the client without it, and      *)
(* stores its whole copy back: between two of its steps any other handler  *)
(* of the call may read, store or delete the same dialog.                  *)
(*                                                                         *)
(* A dialog keeps what the properties are about: the media relay, whether  *)
(* the call is still early or cancelled, and the serial of the offer in    *)
(* progress.  Tags, URIs, CSeq numbers and the session interval are left   *)
(* out, and so is the ACK, which changes no state.                         *)
(***************************************************************************)
EXTENDS Naturals

CONSTANTS
    Handlers,              \* goroutines that may handle requests of the call at a time
    MaxRetries,            \* INVITEs sent again: one larger interval, maxIMSInviteRedirects redirects
    MaxOffers              \* bound on the offers of the call

NoRelay == "none"

ASSUME HandlersAssumption == NoRelay \notin Handlers
ASSUME CallBoundsAssumption == MaxRetries \in Nat /\ MaxOffers \in Nat

VARIABLES
    dialog,     \* a.dialogs[callID]
    serial,     \* a.nextPendingOfferSerial
    relays,     \* open RTP relay sessions, named by the handler that created them
    handler,    \* the goroutines
    merged,     \* an INVITE found no dialog while another request was being handled
    copied      \* serials of pending offers that another handler has copied

callVars == <<dialog, serial, relays, handler, merged, copied>>

Dialog(relay, early) ==
    [live |-> TRUE, relay |-> relay, early |-> early,
     canceled |-> FALSE, offer |-> 0]
NoDialog == [Dialog(NoRelay, FALSE) EXCEPT !.live = FALSE]

Idle == [pc |-> "idle", method |-> "none", copy |-> NoDialog, hasOffer |-> FALSE,
         provisional |-> NoDialog, offer |-> 0, retries |-> 0]

CallInit ==
    /\ dialog = NoDialog
    /\ serial = 0
    /\ relays = {}
    /\ handler = [h \in Handlers |-> Idle]
    /\ merged = FALSE
    /\ copied = {}

----------------------------------------------------------------------------
(* The dialog table *)

storeInboundDialog(d) == dialog' = d

\* deleteInboundDialog also closes the relay the table held; own is the relay
\* the returning handler closes on an error, if any
deleteInboundDialog(own) ==
    /\ dialog' = NoDialog
    /\ relays' = relays \ {dialog.relay, own}

Goto(h, pc) == handler' = [handler EXCEPT ![h].pc = pc]
Return(h) == handler' = [handler EXCEPT ![h] = Idle]

Release(h) == handler' = [handler EXCEPT ![h] =
                  [Idle EXCEPT !.pc = "release", !.method = handler[h].method, !.offer = handler[h].offer]]

\* The handler's copy of the dialog as the table has it now
Copy(h, d, pc) ==
    /\ handler' = [handler EXCEPT ![h].copy = d, ![h].pc = pc, ![h].hasOffer = FALSE]
    /\ copied' = IF d.offer # 0 /\ d.offer # handler[h].offer
                 THEN copied \cup {d.offer} ELSE copied

\* The requests that only read the dialog and forward: PRACK, REFER, NOTIFY,
\* SUBSCRIBE, MESSAGE, INFO
ForwardedMethods == {"PRACK", "INFO"}
OfferMethods == {"reINVITE", "UPDATE"}

----------------------------------------------------------------------------
(* HandleInboundInvite: the INVITE that opens the call *)

\* The dialog check; what precedes the first store may fail, and closes the
\* relay it created
HandleInboundInvite(h, hasOffer) ==
    /\ handler[h].pc = "idle"
    /\ IF dialog.live
       THEN /\ handler' = [handler EXCEPT ![h] = [Idle EXCEPT
                  !.pc = "begin", !.method = "reINVITE", !.hasOffer = hasOffer]]
            /\ UNCHANGED <<relays, merged>>
       ELSE /\ relays' = relays \cup {h}
            /\ merged' = (merged \/ \E g \in Handlers : handler[g].pc # "idle")
            /\ handler' = [handler EXCEPT ![h] = [Idle EXCEPT
                  !.pc = "send", !.method = "INVITE"]]
    /\ UNCHANGED <<dialog, serial, copied>>

InviteSetupFails(h) ==
    /\ handler[h].pc = "send" /\ handler[h].method = "INVITE"
    /\ handler[h].retries = 0
    /\ relays' = relays \ {h}
    /\ Return(h)
    /\ UNCHANGED <<dialog, serial, merged, copied>>

\* Each attempt stores the early dialog afresh and sends the client INVITE
SendInvite(h) ==
    /\ handler[h].pc = "send" /\ handler[h].method = "INVITE"
    /\ storeInboundDialog(Dialog(h, TRUE))
    /\ Goto(h, "await")
    /\ UNCHANGED <<serial, relays, merged, copied>>

MutInviteFails(h) ==
    /\ relays' = relays
    /\ dialog' = NoDialog
    /\ Return(h)

InviteFails(h) ==
    /\ deleteInboundDialog(h)
    /\ Return(h)

\* A rejection the handler answers by sending the request again: a larger
\* session interval or a redirect, a bounded number of times
Retries(h) ==
    /\ handler[h].retries < MaxRetries
    /\ handler' = [handler EXCEPT ![h].retries = @ + 1, ![h].pc = "send"]

\* The final answer of the client: a transport error, a rejection (retried,
\* or passed on), or a 2xx whose SDP is usable or not.  inboundDialogCanceled
\* is looked up here, before the dialog is confirmed.
InviteAnswered(h) ==
    /\ handler[h].pc = "await" /\ handler[h].method = "INVITE"
    /\ \/ InviteFails(h)
       \/ Retries(h) /\ UNCHANGED <<dialog, relays>>
       \/ /\ ~(dialog.live /\ dialog.canceled)
          /\ Goto(h, "accept")
          /\ UNCHANGED <<dialog, relays>>
    /\ UNCHANGED <<serial, merged, copied>>

\* The confirmed dialog replaces whatever the table holds
InviteAccepted(h) ==
    /\ handler[h].pc = "accept"
    /\ storeInboundDialog(Dialog(h, FALSE))
    /\ Return(h)
    /\ UNCHANGED <<serial, relays, merged, copied>>

\* applyInboundProvisionalDialogState reads the dialog and stores it with the
\* tag of the 18x, in two critical sections
Provisional(h) ==
    /\ handler[h].pc = "await" /\ handler[h].method \in {"INVITE", "reINVITE"}
    /\ dialog.live
    /\ handler' = [handler EXCEPT ![h].pc = "provisional", ![h].provisional = dialog]
    /\ copied' = IF dialog.offer \notin {0, handler[h].offer}
                 THEN copied \cup {dialog.offer} ELSE copied
    /\ UNCHANGED <<dialog, serial, relays, merged>>

applyInboundProvisionalDialogState(h) ==
    /\ handler[h].pc = "provisional"
    /\ storeInboundDialog(handler[h].provisional)
    /\ handler' = [handler EXCEPT ![h].pc = "await", ![h].provisional = NoDialog]
    /\ UNCHANGED <<serial, relays, merged, copied>>

----------------------------------------------------------------------------
(* Re-INVITE and UPDATE: requests that may carry an offer *)

HandleInboundUpdate(h, hasOffer) ==
    /\ handler[h].pc = "idle"
    /\ handler' = [handler EXCEPT ![h] = [Idle EXCEPT
           !.pc = "begin", !.method = "UPDATE", !.hasOffer = hasOffer]]
    /\ UNCHANGED <<dialog, serial, relays, merged, copied>>

\* One critical section: refuse with 481 or 491, or claim the dialog's offer
beginInboundDialogOffer(h) ==
    /\ handler[h].pc = "begin"
    /\ \/ /\ ~dialog.live \/ (handler[h].hasOffer /\ dialog.offer # 0)
          /\ Return(h)
          /\ UNCHANGED <<dialog, serial, copied>>
       \/ /\ dialog.live /\ ~handler[h].hasOffer
          /\ Copy(h, dialog, "send")
          /\ UNCHANGED <<dialog, serial>>
       \/ /\ dialog.live /\ handler[h].hasOffer /\ dialog.offer = 0
          /\ serial < MaxOffers
          /\ serial' = serial + 1
          /\ dialog' = [dialog EXCEPT !.offer = serial + 1]
          /\ handler' = [handler EXCEPT ![h].offer = serial + 1,
                             ![h].copy = dialog', ![h].pc = "send", ![h].hasOffer = FALSE]
          /\ UNCHANGED copied
    /\ UNCHANGED <<relays, merged>>

\* The copy is stored before the request goes out, unless the SDP of the
\* request or the relay refuses it
SendOffer(h) ==
    /\ handler[h].pc = "send" /\ handler[h].method \in OfferMethods
    /\ \/ storeInboundDialog(handler[h].copy) /\ Goto(h, "await")
       \/ handler[h].retries = 0 /\ Release(h) /\ UNCHANGED dialog
    /\ UNCHANGED <<serial, relays, merged, copied>>

OfferAnswered(h) ==
    /\ handler[h].pc = "await" /\ handler[h].method \in OfferMethods
    /\ \/ Release(h) /\ UNCHANGED dialog
       \/ Retries(h) /\ UNCHANGED dialog
       \/ storeInboundDialog(handler[h].copy) /\ Release(h)
    /\ UNCHANGED <<serial, relays, merged, copied>>

\* The deferred release clears the offer only if it is still this handler's
releaseInboundPendingOffer(h) ==
    /\ handler[h].pc = "release"
    /\ dialog' = IF dialog.live /\ handler[h].offer # 0 /\ dialog.offer = handler[h].offer
                 THEN [dialog EXCEPT !.offer = 0] ELSE dialog
    /\ Return(h)
    /\ UNCHANGED <<serial, relays, merged, copied>>

----------------------------------------------------------------------------
(* The requests that are only forwarded, CANCEL and BYE *)

\* inboundDialog, and the refusals that need no client
ReadDialog(h, method) ==
    /\ handler[h].pc = "idle"
    /\ dialog.live
    /\ method = "CANCEL" => dialog.early /\ ~dialog.canceled
    /\ handler' = [handler EXCEPT ![h] = [Idle EXCEPT !.method = method, !.copy = dialog,
           !.pc = IF method = "CANCEL" THEN "await" ELSE "send"]]
    /\ copied' = IF dialog.offer # 0 THEN copied \cup {dialog.offer} ELSE copied
    /\ UNCHANGED <<dialog, serial, relays, merged>>

SendForwarded(h) ==
    /\ handler[h].pc = "send" /\ handler[h].method \in ForwardedMethods \cup {"BYE"}
    /\ storeInboundDialog(handler[h].copy)
    /\ Goto(h, "await")
    /\ UNCHANGED <<serial, relays, merged, copied>>

\* A new Contact in the answer stores the copy again; a PRACK whose SDP was
\* renegotiated does so as well
ForwardedAnswered(h) ==
    /\ handler[h].pc = "await" /\ handler[h].method \in ForwardedMethods
    /\ \/ Return(h) /\ UNCHANGED dialog
       \/ Retries(h) /\ UNCHANGED dialog
       \/ storeInboundDialog(handler[h].copy) /\ Return(h)
    /\ UNCHANGED <<serial, relays, merged, copied>>

CancelInboundCallWithResult(h) ==
    /\ handler[h].pc = "await" /\ handler[h].method = "CANCEL"
    /\ \/ UNCHANGED dialog
       \/ storeInboundDialog([handler[h].copy EXCEPT !.canceled = TRUE, !.offer = 0])
    /\ Return(h)
    /\ UNCHANGED <<serial, relays, merged, copied>>

EndInboundCallWithResult(h) ==
    /\ handler[h].pc = "await" /\ handler[h].method = "BYE"
    /\ \/ UNCHANGED <<dialog, relays>>
       \/ deleteInboundDialog(NoRelay)
    /\ Return(h)
    /\ UNCHANGED <<serial, merged, copied>>

CallNext ==
    \E h \in Handlers :
        \/ \E hasOffer \in BOOLEAN :
              HandleInboundInvite(h, hasOffer) \/ HandleInboundUpdate(h, hasOffer)
        \/ InviteSetupFails(h) \/ SendInvite(h) \/ InviteAnswered(h) \/ InviteAccepted(h)
        \/ Provisional(h) \/ applyInboundProvisionalDialogState(h)
        \/ beginInboundDialogOffer(h) \/ SendOffer(h) \/ OfferAnswered(h)
        \/ releaseInboundPendingOffer(h)
        \/ \E method \in ForwardedMethods \cup {"CANCEL", "BYE"} : ReadDialog(h, method)
        \/ SendForwarded(h) \/ ForwardedAnswered(h)
        \/ CancelInboundCallWithResult(h) \/ EndInboundCallWithResult(h)

CallSpec == CallInit /\ [][CallNext]_callVars

----------------------------------------------------------------------------
(* Properties *)

\* An open RTP relay always has an owner that will close it: the dialog in the
\* table or the INVITE handler still at work, whichever way a CANCEL, a BYE, a
\* failing client or a late store crosses the INVITE.  The exception is an
\* INVITE that found no dialog while another request of the call was running.
RelayOwned ==
    \A r \in relays :
        \/ merged
        \/ dialog.live /\ dialog.relay = r
        \/ handler[r].method = "INVITE"

\* A pending offer blocks later offers with 491 only while its handler runs,
\* unless another handler copied the dialog while the offer was pending (its
\* late store brings the finished offer back).
OfferReleased ==
    dialog.live /\ dialog.offer # 0 =>
        \/ \E h \in Handlers : handler[h].offer = dialog.offer
        \/ dialog.offer \in copied

\* CANCEL does nothing to a dialog that is already established: the answer to
\* a CANCEL never changes a confirmed dialog.
CancelLeavesEstablished ==
    [][\A h \in Handlers :
          handler[h].method = "CANCEL" /\ handler'[h].pc = "idle" /\ dialog.live /\ ~dialog.early
          => dialog' = dialog]_callVars

\* Both together: nothing of a call is left without a handler that will end it.
CallCleansUp == RelayOwned /\ OfferReleased
=============================================================================

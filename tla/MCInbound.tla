------------------------------ MODULE MCInbound ------------------------------
(***************************************************************************)
(* The requests that arrive at the host, on small instances: inbound       *)
(* calls, the server transactions under them, USSD dialogs and inbound     *)
(* SMS.  The initial state picks the one that runs (focus).                *)
(***************************************************************************)
EXTENDS InboundCall, Integers, Sequences, FiniteSets, TLC

CONSTANTS Workers, NoURI, NoDelay

VARIABLES
  focus,     \* the component that runs
  cache, finalRetransmit, finalAcked, relPending, relRetransmit, relAcked,
  worker, handled, excused,
  dialogs, current, active, op, sent, repeated, overlap, lost,
  smsConcat, arrived, dispatched, mixed, dropped, result

Item(id, doc) == [id |-> id, doc |-> doc]
Doc(type, ok, body) == [type |-> type, ok |-> ok, body |-> body]
Multi(start, parts) == [type |-> "multipart", ok |-> TRUE, body |-> parts, start |-> start]
Rp(kind, tpdu) == Doc("application/vnd.3gpp.sms", TRUE, [kind |-> kind, tpdu |-> tpdu])
Part(m, q) == Doc("application/vnd.3gpp.sms", TRUE,
                  [kind |-> "RP-DATA", tpdu |-> "concat", part |-> [key |-> m, msg |-> m, seq |-> q, total |-> 2]])
Plain(ok) == Doc("text/plain", ok, "-")
Imdn(ok) == Doc("message/imdn+xml", ok, "-")
Xml == Doc("application/xml", TRUE, "-")
Cpim(doc) == Doc("message/cpim", TRUE, doc)
\* Bodies of MESSAGE requests: parts of three texts, nested, unreadable and other ones.
Bodies ==
  <<Part("m1", 1), Part("m1", 2), Part("m2", 1), Part("m2", 2), Part("m3", 1), Part("m3", 2),
    Cpim(Multi("", <<Item("a", Plain(TRUE)), Item("b", Part("m1", 1))>>)), Doc("message/cpim", FALSE, "-"),
    Multi("", <<Item("a", Xml), Item("b", Multi("", <<Item("c", Part("m1", 2))>>))>>),
    Multi("b", <<Item("a", Part("m1", 1)), Item("b", Plain(TRUE))>>), Multi("a", <<Item("a", Xml), Item("b", Plain(TRUE))>>),
    Multi("", <<Item("a", Xml)>>), Multi("", <<Item("a", Multi("", <<>>))>>),
    Plain(TRUE), Plain(FALSE), Xml, Imdn(TRUE), Imdn(FALSE), Cpim(Imdn(TRUE)),
    Rp("RP-DATA", "deliver"), Rp("RP-DATA", "empty-text"), Rp("RP-DATA", "status-report"), Rp("RP-DATA", "none"),
    Rp("RP-ACK", "none"), Rp("RP-ACK", "status-report"), Rp("RP-ACK", "bad"), Rp("RP-ERROR", "none"),
    Rp("RP-SMMA", "none"), Doc("application/vnd.3gpp.sms", TRUE, [kind |-> "RP-DATA", tpdu |-> "concat", part |-> [total |-> 1]])>>

\* Handlers and workers are interchangeable.
Symmetry == Permutations(Handlers) \cup Permutations(Workers)

Wire == INSTANCE InboundWire WITH
  defaultSIPTimerT1 <- 1, defaultSIPTimerT2 <- 8, defaultSIPTimerT4 <- 10,
  RSeqs <- {1}, MaxHandled <- 2
Ussd == INSTANCE Ussd WITH
  MaxAttempts <- 3, BaseDelay <- 1, MaxDelay <- 300, Sessions <- {"s1"},
  Callers <- {"app", "worker"}, maxIMSMessagingRedirects <- 1, MaxCSeq <- 3,
  MaxRecoveries <- 1
Inbox == INSTANCE InboundSms WITH
  Messages <- {"m1", "m2", "m3"}, Total <- 2, Documents <- Bodies,
  smsConcatMaxSets <- 2, imsMultipartMaxDepth <- 1, MaxArrivals <- 4

wireVars == <<cache, finalRetransmit, finalAcked, relPending, relRetransmit,
               relAcked, worker, handled, excused>>
ussdVars == <<dialogs, current, active, op, sent, repeated, overlap, lost>>
inboxVars == <<smsConcat, arrived, dispatched, mixed, dropped, result>>
vars == <<focus, callVars, wireVars, ussdVars, inboxVars>>

Init ==
  /\ focus \in {"call", "wire", "ussd", "inbox"}
  /\ CallInit /\ Wire!WireInit /\ Ussd!UssdInit /\ Inbox!InboundInit

\* Only the component in focus steps.
CallOnly == focus = "call" /\ UNCHANGED <<focus, wireVars, ussdVars, inboxVars>>
WireOnly == focus = "wire" /\ UNCHANGED <<focus, callVars, ussdVars, inboxVars>>
UssdOnly == focus = "ussd" /\ UNCHANGED <<focus, callVars, wireVars, inboxVars>>
InboxOnly == focus = "inbox" /\ UNCHANGED <<focus, callVars, wireVars, ussdVars>>

Next ==
  \/ CallOnly /\ CallNext
  \/ WireOnly /\ Wire!WireNext
  \/ UssdOnly /\ Ussd!UssdNext
  \/ InboxOnly /\ Inbox!InboundNext

Spec ==
  /\ Init /\ [][Next]_vars

-----------------------------------------------------------------------------
\* A request that is received again is not executed again, a CANCEL finds the
\* INVITE exactly while it is pending, an acknowledged response is not
\* retransmitted, nor a provisional behind its final (InboundWire).
TransactionsSound ==
  focus = "wire" =>
    /\ Wire!HandledOnce /\ Wire!CancelMatchesTransaction
    /\ Wire!AckStopsRetransmission /\ Wire!FinalEndsProvisionals

\* Ussd: the dialogs of the transport are those of the service, and their CSeq is
\* not used twice.
UssdDialogsKept == focus = "ussd" => Ussd!NoOrphanDialog /\ Ussd!UssdCSeqFresh

=============================================================================

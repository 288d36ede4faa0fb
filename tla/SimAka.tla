------------------------------- MODULE SimAka -------------------------------
(***************************************************************************)
(* AKA on the SIM: the host authenticator with its recovery and fallback   *)
(* (runtimehost/simauth/hostauth.go), AUTHENTICATE over a logical channel  *)
(* (aka.go, apdu.go), and the AT and QMI transports below it               *)
(* (simtransport/at.go, simauth/qmiuim.go).  Each exchange with the card   *)
(* is one step; what the layers do with its answer is one operator per     *)
(* layer.  The card is external: it authenticates a challenge once per     *)
(* application, and reports a synchronisation failure for one it has seen. *)
(***************************************************************************)
EXTENDS Integers, Sequences, SequencesExt

CONSTANTS Channels,                 \* logical channels the card has
          maxGetResponseAPDUs,      \* GET RESPONSE limit of both layers
          authTransientRetries,     \* retries of a transiently failed command
          hostRecoveryAttempts,     \* recoveries of the host authenticator
          MaxChunks                 \* parts the card may split an answer into
VARIABLES card,      \* open channels, challenges seen, parts made and parts left
          call,      \* the calculation in progress
          leaked,    \* channels whose CCHO or CCHC went wrong
          lost       \* an answer of the card was lost or given up in this call
akaVars == <<card, call, leaked, lost>>

Preferences == {"usim", "auto", "isim_strict"}
NoChannel == 0
NoAnswer == <<>>

-----------------------------------------------------------------------------
(* The call record: the stage, the applications still to try on the host   *)
(* and on the card, the channel, the form of the command, and the state of *)
(* the two layers that chase an answer.                                    *)

Idle == [pc |-> "idle", pref |-> "usim", transport |-> "at", host |-> <<>>, recoveries |-> 0,
         apps |-> <<>>, aids |-> 0, ch |-> NoChannel, le |-> FALSE, attempt |-> 0,
         cmd |-> "auth", prefix |-> NoAnswer, fixed |-> FALSE, adapterGets |-> 0,
         body |-> NoAnswer, corrected |-> FALSE, gets |-> 0, hostSync |-> FALSE,
         stale |-> {}, result |-> "none"]

AkaInit ==
  /\ card = [open |-> {}, seen |-> {}, parts |-> 0, left |-> NoAnswer]
  /\ call = Idle /\ leaked = {} /\ lost = FALSE

ClassifyAKAAppFallback(pref) ==
  CASE pref = "auto" -> <<"isim", "usim">>
    [] pref = "isim_strict" -> <<"isim">>
    [] OTHER -> <<"usim">>

\* CalculateAKAWithPreference of the host provider, with or without a host
\* authenticator in front of the logical-channel provider.
CalculateAKAWithPreference ==
  /\ call.pc = "idle"
  /\ \E pref \in Preferences, transport \in {"at", "qmi"}, primary \in BOOLEAN :
       call' = [Idle EXCEPT !.pc = IF primary THEN "host" ELSE "open",
                            !.pref = pref, !.transport = transport,
                            !.host = IF primary THEN ClassifyAKAAppFallback(pref) ELSE <<>>,
                            !.apps = ClassifyAKAAppFallback(pref), !.stale = card.seen]
  /\ lost' = FALSE
  /\ UNCHANGED <<card, leaked>>

Return(c, result) ==
  [Idle EXCEPT !.result = result, !.hostSync = c.hostSync, !.stale = c.stale]

-----------------------------------------------------------------------------
(* The host authenticator (external) and the decision on its errors.       *)

ClassifyAKAHostError(outcome) ==
  [recover |-> outcome \in {"temporary", "control port"},
   fallback |-> outcome \in {"unsupported", "temporary", "control port", "file not found"}]

\* What AuthenticateAKA may answer: the card's verdict, or an error before or
\* after the card has seen the challenge.
HostOutcomes(app) ==
  (IF app \in card.seen THEN {"sync"} ELSE {"success"})
    \cup {"mac", "unsupported", "temporary", "control port", "file not found", "other"}

calculateHostAKA ==
  /\ call.pc = "host"
  /\ LET app == Head(call.host)
     IN \E outcome \in HostOutcomes(app), reached \in BOOLEAN, recovered \in BOOLEAN :
          LET decision == ClassifyAKAHostError(outcome)
              told == [call EXCEPT !.hostSync = @ \/ outcome = "sync"]
          IN /\ outcome = "success" => reached
             /\ outcome \notin {"success", "control port"} => ~reached
             /\ card' = [card EXCEPT !.seen = IF reached THEN @ \cup {app} ELSE @]
             /\ lost' = (lost \/ (reached /\ outcome # "success"))
             /\ call' =
                  CASE outcome = "success" -> Return(told, "success")
                    [] decision.recover /\ recovered /\ call.recoveries < hostRecoveryAttempts ->
                         [told EXCEPT !.recoveries = @ + 1]
                    [] ~decision.fallback -> Return(told, outcome)
                    [] OTHER -> [told EXCEPT !.recoveries = 0, !.host = Tail(@),
                                             !.pc = IF Len(call.host) > 1 THEN "host" ELSE "open"]
  /\ UNCHANGED leaked

-----------------------------------------------------------------------------
(* Opening and closing the channel.                                        *)

ResolveAIDCandidates == {1, 2}     \* the resolved AID, and the short fallback if it differs

NextApp(c, result) ==
  IF Len(c.apps) > 1
  THEN [Idle EXCEPT !.pc = "open", !.pref = c.pref, !.transport = c.transport,
                    !.apps = Tail(c.apps), !.stale = c.stale, !.hostSync = c.hostSync]
  ELSE Return(c, result)

\* Each candidate AID is tried in turn.  A CCHO whose answer is lost may have
\* opened a channel nobody knows.
OpenLogicalChannelWithAIDFallback ==
  /\ call.pc = "open"
  /\ \E candidates \in ResolveAIDCandidates, outcome \in {"opened", "refused", "lost"} :
       LET free == Channels \ card.open
           next == IF call.aids + 1 < candidates THEN [call EXCEPT !.aids = @ + 1]
                   ELSE NextApp(call, "error")
       IN /\ call.aids < candidates
          /\ outcome # "refused" => free # {}
          /\ IF outcome = "refused" THEN UNCHANGED <<card, leaked>> /\ call' = next
             ELSE LET ch == CHOOSE n \in free : TRUE
                  IN /\ card' = [card EXCEPT !.open = @ \cup {ch}]
                     /\ leaked' = IF outcome = "lost" THEN leaked \cup {ch} ELSE leaked
                     /\ call' = IF outcome = "lost" THEN next
                                ELSE [call EXCEPT !.pc = "exchange", !.ch = ch, !.aids = 0]
  /\ UNCHANGED lost

\* The deferred close; its error is dropped.
MutClose ==
  /\ call.pc = "close"
  /\ card' = [card EXCEPT !.open = IF call.result = "error" THEN @ ELSE @ \ {call.ch}]
  /\ UNCHANGED <<leaked, lost>>
  /\ call' = IF call.result = "success" THEN Return(call, "success") ELSE NextApp(call, call.result)

CloseLogicalChannel ==
  /\ call.pc = "close"
  /\ \E closed \in BOOLEAN, answered \in BOOLEAN :
       /\ closed \/ ~answered
       /\ card' = [card EXCEPT !.open = IF closed THEN @ \ {call.ch} ELSE @]
       /\ leaked' = IF closed THEN leaked ELSE leaked \cup {call.ch}
  /\ call' = IF call.result = "success" THEN Return(call, "success") ELSE NextApp(call, call.result)
  /\ UNCHANGED lost

-----------------------------------------------------------------------------
(* The layers an answer passes through, innermost last.                    *)

ParseUSIMAuthResponse(r) ==
  IF r.sw # "9000" THEN "status" ELSE IF r.body = NoAnswer THEN "malformed" ELSE Head(r.body)[1]

\* A new Transmit of the AUTHENTICATE command.
Fresh(c) ==
  [c EXCEPT !.cmd = "auth", !.prefix = NoAnswer, !.fixed = FALSE, !.adapterGets = 0,
            !.body = NoAnswer, !.corrected = FALSE, !.gets = 0]

\* The command is sent without Le first and, whatever went wrong, with Le then.
calculateAKAOnApp(c, r) ==
  IF ~c.le /\ r.sw # "9000" THEN Fresh([c EXCEPT !.le = TRUE, !.attempt = 0])
  ELSE [c EXCEPT !.pc = "close", !.body = r.body,
                 !.result = IF r.sw = "error" THEN "error" ELSE ParseUSIMAuthResponse(r)]

isTransientUSIMAuthFailure(r) == r.sw = "busy"

transmitUSIMAuth(c, r) ==
  IF c.attempt < authTransientRetries /\ isTransientUSIMAuthFailure(r)
  THEN Fresh([c EXCEPT !.attempt = @ + 1])
  ELSE calculateAKAOnApp(c, r)

\* The next TransmitAPDU of the same Transmit.
Again(c, cmd) == [c EXCEPT !.cmd = cmd, !.prefix = NoAnswer, !.fixed = FALSE, !.adapterGets = 0]

chaseGetResponse(c, r) ==
  IF r.sw = "61xx" /\ c.gets < maxGetResponseAPDUs
  THEN Again([c EXCEPT !.body = @ \o r.body, !.gets = @ + 1], "get")
  ELSE transmitUSIMAuth(c, [r EXCEPT !.body = c.body \o r.body])

Transmit(c, r) ==
  IF r.sw = "6Cxx" /\ ~c.corrected /\ c.gets = 0
  THEN Again([c EXCEPT !.corrected = TRUE], "auth")
  ELSE chaseGetResponse(c, r)

recoverAPDUStatus(c, r) ==
  CASE r.sw = "6Cxx" /\ ~c.fixed -> [c EXCEPT !.fixed = TRUE]
    [] r.sw = "61xx" /\ c.adapterGets < maxGetResponseAPDUs ->
         [c EXCEPT !.prefix = @ \o r.body, !.cmd = "get", !.adapterGets = @ + 1]
    [] OTHER -> Transmit(c, [r EXCEPT !.body = c.prefix \o r.body])

TransmitAPDU(c, r) == IF c.transport = "at" THEN recoverAPDUStatus(c, r) ELSE Transmit(c, r)

-----------------------------------------------------------------------------
(* The card (external).  A verdict is split into parts; the first may come *)
(* with the status, the others are fetched with GET RESPONSE.              *)

Verdict(app) ==
  {[i \in 1..n |-> <<v, i>>] : n \in 1..MaxChunks,
                               v \in {"mac"} \cup IF app \in card.seen THEN {"sync"} ELSE {"success"}}

StatusOf(parts) == IF parts = NoAnswer THEN "9000" ELSE "61xx"

\* The call after an answer, or after the error that took its place.
Answered(sw, body) ==
  IF sw = "error" THEN transmitUSIMAuth(call, [sw |-> "error", body |-> NoAnswer])
  ELSE TransmitAPDU(call, [sw |-> sw, body |-> body])

\* The layers stopped asking before the card had given its last part.
GivenUp == card'.left # NoAnswer /\ call'.cmd # "get"

\* The answers to AUTHENTICATE: refused for its Le, busy, or a verdict whose
\* first part comes now or waits for GET RESPONSE.
Authenticates ==
  /\ call.cmd = "auth"
  /\ \/ \E sw \in {"6Cxx", "busy", "error"} :
          /\ call' = Answered(sw, NoAnswer)
          /\ UNCHANGED <<card, lost>>
     \/ \E parts \in Verdict(Head(call.apps)), given \in {0, 1}, answered \in BOOLEAN :
          LET left == SubSeq(parts, given + 1, Len(parts))
          IN /\ card' = [card EXCEPT !.left = left, !.parts = Len(parts), !.seen = @ \cup
                                       (IF parts[1][1] = "success" THEN {Head(call.apps)} ELSE {})]
             /\ call' = Answered(IF answered THEN StatusOf(left) ELSE "error", SubSeq(parts, 1, given))
             /\ lost' = (lost \/ ~answered \/ GivenUp)

GivesResponse ==
  /\ call.cmd = "get"
  /\ \E answered \in BOOLEAN :
       /\ card' = [card EXCEPT !.left = Tail(@)]
       /\ call' = Answered(IF answered THEN StatusOf(Tail(card.left)) ELSE "error",
                           <<Head(card.left)>>)
       /\ lost' = (lost \/ ~answered \/ GivenUp)

Exchange == call.pc = "exchange" /\ (Authenticates \/ GivesResponse) /\ UNCHANGED leaked

\* A new challenge: the card has seen none of it.
NewChallenge ==
  /\ call.pc = "idle"
  /\ card' = [card EXCEPT !.seen = {}, !.left = NoAnswer, !.parts = 0]
  /\ call' = Idle
  /\ UNCHANGED <<leaked, lost>>

\* A reset of the card closes its channels.
CardReset ==
  /\ call.pc = "idle"
  /\ card' = [card EXCEPT !.open = {}]
  /\ leaked' = {}
  /\ UNCHANGED <<call, lost>>

AkaNext ==
  \/ CalculateAKAWithPreference \/ calculateHostAKA \/ OpenLogicalChannelWithAIDFallback
  \/ CloseLogicalChannel \/ Exchange \/ NewChallenge \/ CardReset

AkaSpec == AkaInit /\ [][AkaNext]_akaVars

-----------------------------------------------------------------------------
(* Every channel a calculation opened is closed when it returns, whichever *)
(* way it returns; a channel stays open only when the answer to its CCHO   *)
(* was lost or its CCHC failed (aka.go, calculateAKAOnApp).                *)
ChannelsReturned == call.pc \in {"idle", "host", "open"} => card.open \subseteq leaked

(* The answer handed to the parser is the card's whole answer, its parts   *)
(* in order, whatever mixture of 6Cxx and 61xx the two layers chased       *)
(* (at.go, recoverAPDUStatus; apdu.go, chaseGetResponse).                  *)
AnswerWhole ==
  call.pc = "close" /\ call.result \in {"success", "sync", "mac"} =>
    call.body = [i \in 1..card.parts |-> <<call.result, i>>]

(* A synchronisation failure is reported only for a challenge the card had *)
(* authenticated before the call, unless an answer of the card was lost or *)
(* longer than the layers chase; and the one the host authenticator reports reaches the caller, never    *)
(* masked by a fallback (aka.go, calculateAKAOnApp; hostauth.go).          *)
SyncFailureGenuine ==
  call.pc = "idle" =>
    /\ call.result = "sync" /\ ~lost => call.stale # {}
    /\ call.hostSync => call.result = "sync"
=============================================================================

------------------------------ MODULE Entitlement ------------------------------
(* The emergency address update: one TS.43 entitlement exchange over HTTP,  *)
(* with HTTP Digest AKA below it (http_digest.go) and an EAP-AKA relay      *)
(* inside it (e911.go).  Updates run one after the other; the host gives    *)
(* each one the EAP state the last page brought.  A key set is a number, 0  *)
(* for none; an identity the server issued is the key set and the counter   *)
(* of the authentication that issued it; a pseudonym is issued with it.     *)
(* Updates without a supported provider, a page or an endpoint return at    *)
(* once and are left out.                                                   *)
EXTENDS Naturals
CONSTANTS maxEntitlementChallengeResponses,
          maxEntitlementHTTPDigestRetries,
          MaxKeys,      \* bound on the full authentications begun
          MaxCounter    \* bound on the fast reauthentications of one key set
VARIABLES held,         \* the EAPReauthenticationState the host keeps
          run,          \* the update that is running
          server,       \* what the server holds
          made          \* key sets made so far
entVars == <<held, run, server, made>>

NoId == <<0, 0>>
NoState == [id |-> NoId, pseudonym |-> FALSE, keys |-> 0, counter |-> 0]
Idle == [pc |-> "idle", attempt |-> 0, last |-> FALSE, rounds |-> 0, keys |-> 0, reauth |-> NoState, issued |-> NoId,
         updated |-> FALSE, sent |-> [kind |-> "none"], reply |-> [kind |-> "none"], refused |-> FALSE]

EntInit ==
  /\ held = NoState /\ run = Idle /\ made = 0
  /\ server = [id |-> NoId, keys |-> 0, counter |-> 0, presented |-> "permanent"]

Usable(state) == state.id # NoId /\ state.keys # 0

-----------------------------------------------------------------------------
(* The end of an update: a page with or without EAP state, the carrier's    *)
(* own page, or the error that a challenge was not answered.                *)
End == run' = Idle
websheetWithEAPReauthenticationState ==
  held' = IF run.updated THEN run.reauth ELSE held
StartEmergencyAddressUpdate ==
  /\ run.pc = "idle"
  /\ run' = [Idle EXCEPT !.pc = "send", !.reauth = held, !.keys = IF Usable(held) THEN held.keys ELSE 0,
                         !.sent = [kind |-> "begin"]]
  /\ UNCHANGED <<held, server, made>>

-----------------------------------------------------------------------------
(* The server.  It takes the answer in, unless the request is lost, and     *)
(* sends a page, a challenge of its own choice, or an error.                *)
Took(answer) ==
  CASE answer.kind = "identity" -> [server EXCEPT !.presented = answer.who]
    [] answer.kind = "res" -> [server EXCEPT !.keys = answer.keys, !.id = answer.next, !.counter = 0]
    [] answer.kind = "reauthenticated" -> [server EXCEPT !.id = answer.next, !.counter = answer.counter]
    [] OTHER -> server

(* The key set of a challenge depends on the identity the client gave last; *)
(* a server that was given a reauthentication identity asks for another     *)
(* before it challenges.                                                    *)
EapRequests(s, answer) ==
  {[kind |-> "identity", ask |-> a] : a \in {"permanent", "fullauth", "any"}}
  \cup {[kind |-> "challenge", keys |-> made + 1, identity |-> s.presented, next |-> n, bidding |-> b] :
          n \in {NoId, <<made + 1, 0>>}, b \in BOOLEAN}
  \cup {[kind |-> "reauthentication", keys |-> s.keys, counter |-> s.counter + 1, next |-> n] :
          n \in IF answer.kind = "identity" /\ answer.who = "reauth" /\ answer.id = s.id /\ s.id # NoId /\ s.counter < MaxCounter
                THEN {NoId, <<s.keys, s.counter + 1>>} ELSE {}}
  \cup {[kind |-> "notification", protected |-> p] : p \in BOOLEAN}
  \cup {[kind |-> k] : k \in {"aka", "kdf", "terminal", "unknown"}}

Replies(s, answer) ==
  {[kind |-> "page"], [kind |-> "nothing", required |-> TRUE], [kind |-> "nothing", required |-> FALSE], [kind |-> "error"]}
  \cup {[kind |-> "unauthorized", aka |-> a, stale |-> st] : a \in BOOLEAN, st \in BOOLEAN}
  \cup {r \in EapRequests(s, answer) : r.kind = "challenge" => made < MaxKeys /\ s.presented # "reauth"}

doEntitlement ==
  /\ run.pc = "send"
  /\ \E lost \in BOOLEAN :
       LET s == IF lost THEN server ELSE Took(run.sent) IN
       \E r \in IF lost THEN {[kind |-> "error"]} ELSE Replies(s, run.sent) :
         /\ server' = IF r.kind = "unauthorized" THEN server ELSE s
         /\ made' = IF r.kind = "challenge" THEN made + 1 ELSE made
         /\ run' = [run EXCEPT !.pc = "got", !.reply = r]
  /\ UNCHANGED held

-----------------------------------------------------------------------------
(* An HTTP challenge, answered from the SIM.  An answer that reports a lost *)
(* synchronization or meets a stale nonce goes round the loop; any other is *)
(* sent once, and what comes back is final.                                 *)
DigestRetry == [run EXCEPT !.pc = "send", !.reply = [kind |-> "none"], !.attempt = run.attempt + 1]
doEntitlementWithHTTPDigest ==
  /\ run.pc = "got" /\ run.reply.kind = "unauthorized"
  /\ \/ /\ run.last \/ run.attempt >= maxEntitlementHTTPDigestRetries \/ ~run.reply.aka
        /\ End
     \/ /\ ~run.last /\ run.attempt < maxEntitlementHTTPDigestRetries /\ run.reply.aka
        /\ \/ run' = DigestRetry                              \* AUTS sent
           \/ End                                             \* the SIM failed
           \/ run' = IF run.reply.stale THEN DigestRetry
                     ELSE [run EXCEPT !.pc = "send", !.reply = [kind |-> "none"], !.last = TRUE]
  /\ UNCHANGED <<held, server, made>>

-----------------------------------------------------------------------------
(* A reply that got through. *)
Failed ==
  /\ run.pc = "got" /\ run.reply.kind \in {"error", "nothing"}
  /\ End /\ UNCHANGED <<held, server, made>>

websheetFromEntitlement ==
  /\ run.pc = "got" /\ run.reply.kind = "page"
  /\ End /\ websheetWithEAPReauthenticationState
  /\ UNCHANGED <<server, made>>

(* The answer to an EAP request goes out as a request of its own, with its  *)
(* own HTTP authentication.                                                 *)
Answer(answer, changed) ==
  run' = [changed EXCEPT !.pc = "send", !.sent = answer, !.reply = [kind |-> "none"], !.rounds = run.rounds + 1,
                         !.attempt = 0, !.last = FALSE]
ToAnswer(kind) ==
  run.pc = "got" /\ run.reply.kind = kind /\ run.rounds < maxEntitlementChallengeResponses

TooManyChallenges ==
  /\ run.pc = "got" /\ run.rounds >= maxEntitlementChallengeResponses
  /\ run.reply.kind \in {"identity", "challenge", "reauthentication", "notification", "aka", "kdf", "terminal", "unknown"}
  /\ End /\ UNCHANGED <<held, server, made>>

eapRelayRequestedIdentity(ask, state) ==
  IF ask = "any" /\ Usable(state) THEN "reauth"
  ELSE IF ask \in {"any", "fullauth"} /\ state.pseudonym THEN "pseudonym"
  ELSE "permanent"

buildEAPRelayIdentityAnswer ==
  /\ ToAnswer("identity")
  /\ LET who == eapRelayRequestedIdentity(run.reply.ask, run.reauth) IN
     Answer([kind |-> "identity", who |-> who, id |-> run.reauth.id], run)
  /\ UNCHANGED <<held, server, made>>

(* KDF negotiation, a notification that needs no key or finds one, the end  *)
(* of EAP, and a request of an unknown kind get an answer and change        *)
(* nothing; a protected notification without keys ends the update.          *)
buildEAPRelayNotificationAnswer ==
  /\ ToAnswer("notification")
  /\ IF run.reply.protected /\ run.keys = 0 THEN End ELSE Answer([kind |-> "ack"], run)
  /\ UNCHANGED <<held, server, made>>
buildEAPRelayControlAnswer ==
  /\ \E k \in {"kdf", "terminal", "unknown"} : ToAnswer(k)
  /\ Answer([kind |-> "ack"], run)
  /\ UNCHANGED <<held, server, made>>

buildEAPRelayReauthenticationAnswer ==
  /\ ToAnswer("reauthentication")
  /\ LET r == run.reply
         state == run.reauth
         next == [id |-> IF r.next = NoId THEN state.id ELSE r.next, pseudonym |-> state.pseudonym,
                  keys |-> state.keys, counter |-> r.counter]
     IN IF ~Usable(state) THEN Answer([kind |-> "ack"], run)               \* Client-Error
        ELSE IF r.keys # state.keys THEN End                               \* AT_MAC does not verify
        ELSE IF r.counter <= state.counter THEN Answer([kind |-> "too-small"], [run EXCEPT !.updated = TRUE])
        ELSE Answer([kind |-> "reauthenticated", next |-> r.next, counter |-> r.counter],
                    [run EXCEPT !.reauth = next, !.updated = TRUE, !.keys = state.keys])
  /\ UNCHANGED <<held, server, made>>

(* Full authentication.  The keys come from the SIM's result and the        *)
(* permanent identity; AT_MAC verifies when the server used the same one.   *)
eapReauthenticationStateFromFullAuth(state, keys, issued) ==
  [id |-> IF issued = NoId THEN state.id ELSE issued, pseudonym |-> state.pseudonym \/ issued # NoId, keys |-> keys, counter |-> 0]

buildEAPRelayAnswer ==
  LET r == run.reply
      issued == IF r.next = NoId THEN run.issued ELSE r.next
      state == eapReauthenticationStateFromFullAuth(run.reauth, r.keys, issued)
      gives == state.id # NoId
  IN IF r.bidding THEN Answer([kind |-> "reject"], run)
     ELSE Answer([kind |-> "res", keys |-> r.keys, next |-> r.next],
                 [run EXCEPT !.keys = r.keys, !.issued = issued, !.reauth = IF gives THEN state ELSE run.reauth,
                             !.updated = run.updated \/ gives])

buildEntitlementChallengeAnswer ==
  /\ ToAnswer("challenge") \/ ToAnswer("aka")
  /\ \/ End                                                   \* no SIM, or it failed
     \/ Answer([kind |-> "auts"], run)
     \/ run.reply.kind = "challenge" /\ Answer([kind |-> "reject"], run)
     \/ run.reply.kind = "aka" /\ Answer([kind |-> "ack"], run)
     \/ run.reply.kind = "challenge" /\ IF run.reply.identity # "permanent" THEN run' = [Idle EXCEPT !.refused = TRUE] ELSE buildEAPRelayAnswer
  /\ UNCHANGED <<held, server, made>>

Steps ==
  \/ doEntitlement \/ doEntitlementWithHTTPDigest \/ Failed \/ websheetFromEntitlement \/ TooManyChallenges
  \/ buildEAPRelayIdentityAnswer \/ buildEAPRelayNotificationAnswer \/ buildEAPRelayControlAnswer
  \/ buildEAPRelayReauthenticationAnswer \/ buildEntitlementChallengeAnswer
EntNext == StartEmergencyAddressUpdate \/ Steps
EntSpec == EntInit /\ [][EntNext]_entVars

-----------------------------------------------------------------------------
(* An update ends, whatever the server answers: the HTTP challenges of one *)
(* request and the EAP requests of one update are counted by different     *)
(* loops, and neither starts the other's count again without end.          *)
UpdateEnds == []<>(run.pc = "idle")

(* The EAP state the host keeps is one the server can use: when the server *)
(* still knows the identity, it holds the same keys and will use a counter *)
(* the client has not seen.  It holds across answers that were lost after  *)
(* the server had moved on.                                                *)
HeldStateFits ==
  held.id # NoId /\ held.id = server.id => held.keys = server.keys /\ held.counter <= server.counter

(* A genuine challenge is never refused: the keys that verify it are those *)
(* of the identity the client itself gave.                                 *)
GenuineChallengeAnswered == ~run.refused
=============================================================================

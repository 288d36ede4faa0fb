---------------------------- MODULE IkeEstablish ----------------------------
(***************************************************************************)
(* IKEPacketTunnelManager.EstablishTunnel (engine/swu/                     *)
(* ike_tunnel_manager.go): IKE_SA_INIT with its COOKIE round               *)
(* (ikev2/init.go), IKE_AUTH carrying EAP-AKA (ikev2/auth.go,              *)
(* eapaka/crypto.go), the fast re-authentication state that outlives the   *)
(* tunnel (eap_reauth.go), and the data plane put on top: a packet session *)
(* or kernel XFRM state (xfrm.go, kernel_session.go).                      *)
(*                                                                         *)
(* The ePDG and its AAA server are external: they follow the protocol, may *)
(* leave out rounds, repeat them or give up, and may come back from a      *)
(* backup.  A key set is named by the full authentication it comes from.   *)
(***************************************************************************)
EXTENDS Integers, FiniteSets, SequencesExt

CONSTANTS maxFullAuthEAPExchanges, maxAKAControlFollowups,
          MaxKeys,        \* bound on the full authentications
          MaxStarts,      \* bound on the calls of EstablishTunnel
          MaxRestores     \* bound on the returns of the AAA server to a backup

VARIABLES
  reauth,    \* m.Config.Reauthentication
  saved,     \* the snapshot in the EAPReauthenticationStore, NoState without one
  run,       \* the call of EstablishTunnel: where it is and its locals
  res,       \* what the call has opened: transport, ESP transport, XFRM state
  server,    \* AAA server: current re-authentication identity, keys, counter
  ssn,       \* the ePDG's side of this IKE SA
  keysMade,  \* history: full authentications started
  starts, restores,
  behind     \* history: the server's counter fell behind, and no full
             \* authentication without a refused counter has happened since
ikeVars == <<reauth, saved, run, res, server, ssn, keysMade, starts, restores, behind>>
Stored == <<reauth, saved, behind>>
Peer == <<server, keysMade>>
Bounds == <<starts, restores>>

Permanent == [kind |-> "permanent", of |-> 0]
Pseudonym(k) == [kind |-> "pseudonym", of |-> k]
ReauthID(k) == [kind |-> "reauth", of |-> k]
NoKeys == 0
\* EAPReauthenticationState{}; Identity, Pseudonym and Keys are 0 when empty.
NoState == [Identity |-> 0, Pseudonym |-> 0, Keys |-> NoKeys, Counter |-> 0,
            CounterOK |-> FALSE, Expired |-> FALSE]
\* What FullAuthResult collects for the EAPReauthenticationUpdate.
NoUpdate == [NextReauthID |-> 0, NextPseudonym |-> 0, Reauthenticated |-> FALSE,
             CounterTooSmall |-> FALSE, Counter |-> 0]
Message(kind) == [kind |-> kind]
Idle == [pc |-> "idle", cookie |-> FALSE,
         req |-> Message("none"), next |-> Message("none"), identity |-> Permanent,
         transcript |-> 0, keys |-> NoKeys, msk |-> <<0, 0>>, rounds |-> 0,
         follow |-> 0, auth |-> NoState, update |-> NoUpdate]
NoSession == [identity |-> Permanent, transcript |-> 0, msk |-> <<0, 0>>, done |-> FALSE]
Released == [transport |-> FALSE, esp |-> "none", xfrm |-> {}, orphans |-> {}]

IkeInit ==
  /\ reauth = NoState /\ saved = NoState /\ run = Idle /\ res = Released
  /\ server = [id |-> 0, keys |-> NoKeys, counter |-> 0] /\ ssn = NoSession
  /\ keysMade = 0 /\ starts = 0 /\ restores = 0 /\ behind = FALSE

ReauthenticationUsableAt(s) == ~s.Expired /\ s.Identity # 0 /\ s.Keys # NoKeys
PseudonymUsableAt(s) == ~s.Expired /\ s.Pseudonym # 0

\* What of the stored state this authentication may use.
authStateAt(s) ==
  IF ReauthenticationUsableAt(s) THEN s
  ELSE IF PseudonymUsableAt(s) THEN [NoState EXCEPT !.Pseudonym = s.Pseudonym]
  ELSE NoState

MutApplyUpdate(s, u, keys) ==
  [s EXCEPT !.Identity = IF u.NextReauthID # 0 THEN u.NextReauthID ELSE @,
            !.Pseudonym = IF u.NextPseudonym # 0 THEN u.NextPseudonym ELSE @,
            !.Keys = keys, !.Expired = FALSE,
            !.Counter = IF u.Reauthenticated THEN u.Counter ELSE @,
            !.CounterOK = TRUE]
\* The state after an authentication, and whether it replaces the old one.
ApplyUpdate(s, u, keys) ==
  LET id == IF u.NextReauthID # 0 THEN u.NextReauthID ELSE s.Identity
      ps == IF u.NextPseudonym # 0 THEN u.NextPseudonym ELSE s.Pseudonym
      counted == CASE u.Reauthenticated -> <<u.Counter, TRUE>>
                   [] ~u.Reauthenticated /\ u.CounterTooSmall -> <<s.Counter, s.CounterOK>>
                   [] OTHER -> <<0, TRUE>>
  IN  IF keys = NoKeys \/ (id = 0 /\ ps = 0) THEN s
      ELSE [Identity |-> id, Pseudonym |-> ps, Keys |-> keys, Expired |-> FALSE,
            Counter |-> IF id = 0 THEN 0 ELSE counted[1],
            CounterOK |-> id # 0 /\ counted[2]]

\* Every error return of EstablishTunnel: the deferred close of the transport.
Abandon(left) ==
  run' = Idle /\ ssn' = NoSession /\ res' = [left EXCEPT !.transport = FALSE]
Fail == Abandon(res) /\ UNCHANGED <<Stored, Peer, Bounds>>

\* After the checks of the configuration: the transport is opened.
EstablishTunnel ==
  /\ run.pc = "idle" /\ starts < MaxStarts
  /\ starts' = starts + 1
  /\ run' = [Idle EXCEPT !.pc = "init"]
  /\ res' = [Released EXCEPT !.transport = TRUE]
  /\ UNCHANGED <<Stored, ssn, Peer, restores>>

\* prepareNetworkEndpoints, childSPI, an exchange or the parsing of its answer
\* fails, or the answer carries an error notify (FirstNotifyError).
ExchangeFails == run.pc \in {"init", "wait"} /\ Fail

\* RunIKE_SA_INIT: one COOKIE may be asked for, a second one is an error.
runIKESAInitRequest ==
  /\ run.pc = "init"
  /\ \/ ~run.cookie /\ run' = [run EXCEPT !.cookie = TRUE] /\ UNCHANGED <<res, ssn>>
     \/ run.cookie /\ Abandon(res)
     \/ LET auth == authStateAt(reauth)
        IN  /\ run' = [run EXCEPT !.pc = "wait", !.req = Message("idi"),
                         !.auth = auth, !.keys = auth.Keys, !.cookie = FALSE,
                         !.msk = <<auth.Keys, auth.Counter>>]
            /\ UNCHANGED <<res, ssn>>
  /\ UNCHANGED <<Stored, Peer, Bounds>>

identityForEAPRequest(want, auth, newPseudonym) ==
  LET ps == IF newPseudonym # 0 THEN newPseudonym ELSE auth.Pseudonym
      full == IF ps # 0 THEN Pseudonym(ps) ELSE Permanent
  IN  CASE want = "full" -> full
        [] want = "any" -> IF auth.Identity # 0 THEN ReauthID(auth.Identity) ELSE full
        [] OTHER -> Permanent

-----------------------------------------------------------------------------
(* The ePDG's answers. *)

\* A full authentication starts: the challenge may carry a pseudonym and a
\* re-authentication identity for the next time.
Challenges(s) ==
  IF keysMade = MaxKeys THEN {Message("failure")}
  ELSE [kind : {"challenge"}, keys : {keysMade + 1}, identity : {s.identity},
        transcript : {s.transcript}, nextReauthID : {0, keysMade + 1},
        nextPseudonym : {0, keysMade + 1}]
IdentityRequests == [kind : {"identity"}, want : {"permanent", "full", "any"}]
Notification(s) == [kind |-> "notification", authenticated |-> s.done]
Success(child) == [kind |-> "success", child |-> child]
Continues == Challenges(ssn) \cup IdentityRequests \cup
  {Message("kdf"), Message("unsupported"), Message("failure"), Notification(ssn)}
Concludes(s) == {Success("none"), Success("ok"), Success("bad"), Notification(s)}

\* The ePDG's side once it has taken the request.
SessionAfter(req) ==
  CASE req.kind = "identity" ->
         [ssn EXCEPT !.identity = req.identity, !.transcript = @ + 1]
    [] req.kind = "response" -> [ssn EXCEPT !.done = TRUE, !.msk = <<req.keys, 0>>]
    [] req.kind = "reauth" ->
         [ssn EXCEPT !.done = TRUE, !.msk = <<server.keys, req.counter>>]
    [] OTHER -> ssn

\* The current re-authentication identity is re-authenticated, a stale identity
\* is asked again; an accepted subscriber gets new re-authentication state.
ServerReplies(req, reply) ==
  LET s == SessionAfter(req)
  IN  CASE req.kind \in {"idi", "kdf", "sync", "tooSmall"} ->
             reply \in Continues /\ UNCHANGED server
        [] req.kind = "identity" /\ req.identity = ReauthID(server.id) ->
             /\ server' = [server EXCEPT !.counter = @ + 1]
             /\ reply = [kind |-> "reauth", keys |-> server.keys,
                         counter |-> server.counter + 1]
        [] req.kind = "identity" /\ req.identity # ReauthID(server.id) ->
             /\ UNCHANGED server
             /\ \/ req.identity.kind # "reauth" /\ reply \in Challenges(s)
                \/ /\ req.identity.kind # "permanent"
                   /\ reply \in IdentityRequests /\ reply.want # "any"
        [] req.kind = "response" ->
             /\ server' = [id |-> req.id, keys |-> req.keys, counter |-> 0]
             /\ reply \in Concludes(s)
        [] req.kind = "reauth" ->
             /\ \E id \in {0, server.id} : server' = [server EXCEPT !.id = id]
             /\ reply \in Concludes(s)
        [] req.kind = "control" ->
             /\ reply \in IF ssn.done THEN Concludes(ssn) ELSE Continues
             /\ UNCHANGED server
        [] req.kind \in {"reject", "clientError"} ->
             reply = Message("failure") /\ UNCHANGED server
        [] req.kind = "auth" ->
             /\ reply \in [kind : {"final"}, child : {"none", "ok", "bad"}, msk : {ssn.msk}]
             /\ UNCHANGED server

Replies == Continues \cup Challenges(SessionAfter(run.req)) \cup Concludes([done |-> TRUE])
  \cup [kind : {"reauth"}, keys : {server.keys}, counter : {server.counter + 1}]
  \cup [kind : {"final"}, child : {"none", "ok", "bad"}, msk : {ssn.msk}]

\* cfg.Transport.ExchangeIKE: the answer arrives, or it is lost after the ePDG
\* has acted on the request.
ExchangeIKE(reply) ==
  /\ run.pc = "wait"
  /\ ServerReplies(run.req, reply)
  /\ keysMade' = IF reply.kind = "challenge" THEN reply.keys ELSE keysMade
  /\ \/ /\ run' = [run EXCEPT !.pc = "eap", !.next = reply]
        /\ ssn' = SessionAfter(run.req)
        /\ UNCHANGED res
     \/ Abandon(res)
  /\ UNCHANGED <<Stored, Bounds>>

-----------------------------------------------------------------------------
(* RunIKE_AUTH_Full and the routines it calls. *)

Received(kind) == run.pc = "eap" /\ run.next.kind = kind
Send(req, r) ==
  /\ run' = [r EXCEPT !.pc = "wait", !.req = req, !.next = Message("none")]
  /\ UNCHANGED <<Stored, res, ssn, Peer, Bounds>>

\* The loop of RunIKE_AUTH_Full: how often it may turn, and one turn of it.
TooMany == run.rounds >= maxFullAuthEAPExchanges
Turn == [run EXCEPT !.rounds = @ + 1, !.follow = 0]

MutIdentityExchange ==
  /\ Received("identity")
  /\ LET id == identityForEAPRequest(run.next.want, run.auth, run.update.NextPseudonym)
         r == IF run.req.kind = "idi" THEN run ELSE Turn
     IN  IF run.req.kind # "idi" /\ TooMany THEN Fail
         ELSE Send([kind |-> "identity", identity |-> id],
                   [r EXCEPT !.transcript = @ + 1])
\* An EAP identity request; the one that answers the first IKE_AUTH request is
\* served before the loop (RunIKE_AUTH_EAPIdentity).
runIKEAuthIdentityExchange ==
  /\ Received("identity")
  /\ LET id == identityForEAPRequest(run.next.want, run.auth, run.update.NextPseudonym)
         r == IF run.req.kind = "idi" THEN run ELSE Turn
     IN  IF run.req.kind # "idi" /\ TooMany THEN Fail
         ELSE Send([kind |-> "identity", identity |-> id],
                   [r EXCEPT !.identity = id, !.transcript = @ + 1])

\* The MAC and the AT_CHECKCODE of a challenge, under the keys the client derives.
ChallengeGenuine ==
  run.next.identity = run.identity /\ run.next.transcript = run.transcript
\* The MAC of a re-authentication request under the stored keys.
ReauthGenuine == run.next.keys = run.keys

\* BuildChallengeResponseFromProvider, by what the SIM answers: a response,
\* AUTS, Authentication-Reject (its own or against bidding down), or an error.
BuildChallengeResponse ==
  /\ Received("challenge")
  /\ \/ /\ ~TooMany /\ ChallengeGenuine
        /\ Send([kind |-> "response", keys |-> run.next.keys, id |-> run.next.nextReauthID],
                [Turn EXCEPT !.keys = run.next.keys, !.msk = <<run.next.keys, 0>>,
                   !.update.NextReauthID =
                     IF run.next.nextReauthID # 0 THEN run.next.nextReauthID ELSE @,
                   !.update.NextPseudonym =
                     IF run.next.nextPseudonym # 0 THEN run.next.nextPseudonym ELSE @])
     \/ ~TooMany /\ \E kind \in {"sync", "reject"} : Send(Message(kind), Turn)
     \/ Fail

\* ParseReauthenticationRequest and the two responses to it.
BuildReauthenticationResponse ==
  /\ Received("reauth")
  /\ CASE TooMany \/ (run.keys # NoKeys /\ ~ReauthGenuine) -> Fail
       [] ~TooMany /\ run.keys = NoKeys -> Send(Message("clientError"), Turn)
       [] OTHER ->
            IF run.auth.CounterOK /\ run.next.counter <= run.auth.Counter
            THEN Send(Message("tooSmall"),
                      [Turn EXCEPT !.update.CounterTooSmall = TRUE,
                                   !.update.Counter = run.next.counter])
            ELSE Send([kind |-> "reauth", counter |-> run.next.counter],
                      [Turn EXCEPT !.msk = <<run.keys, run.next.counter>>,
                                   !.update.Reauthenticated = TRUE,
                                   !.update.Counter = run.next.counter])

\* An AKA' challenge whose first AT_KDF is not the supported one.
BuildAKAPrimeKDFNegotiationResponse ==
  /\ Received("kdf")
  /\ IF TooMany THEN Fail ELSE Send(Message("kdf"), Turn) \/ Fail

buildAKAControlResponse ==
  /\ Received("notification") \/ Received("unsupported")
  /\ LET followup == run.req.kind \notin {"idi", "identity"}
         reply == Message(IF Received("notification") THEN "control" ELSE "clientError")
     IN  CASE Received("notification") /\ run.next.authenticated /\ run.keys = NoKeys -> Fail
           [] followup /\ run.follow = maxAKAControlFollowups -> Fail
           [] ~followup /\ TooMany -> Fail
           [] OTHER -> Send(reply, IF followup THEN [run EXCEPT !.follow = @ + 1] ELSE Turn)

\* updateReauthenticationState, once IKE_AUTH has given a CHILD_SA.
updateReauthenticationState ==
  /\ run' = [Idle EXCEPT !.pc = "setup"]
  /\ ssn' = NoSession
  /\ reauth' = ApplyUpdate(reauth, run.update, run.keys)
  /\ behind' = (behind /\ (run.update.CounterTooSmall \/ run.update.Reauthenticated
                             \/ run.update.NextReauthID = 0))
  /\ UNCHANGED <<saved, res, Peer, Bounds>>

\* EAP-Success: with the CHILD_SA in the same message, or before the AUTH
\* exchange; "bad" is a CHILD_SA parseChildSAResultWithNonces refuses.
EAPSuccess ==
  /\ Received("success")
  /\ CASE run.next.child = "ok" -> updateReauthenticationState
       [] run.next.child = "none" /\ ~TooMany /\ run.msk[1] # NoKeys ->
            Send(Message("auth"), Turn)
       [] OTHER -> Fail

\* The responder's AUTH is checked under the MSK before its CHILD_SA is read.
runIKEAuthEAPFinal ==
  /\ Received("final")
  /\ IF run.next.msk = run.msk /\ run.next.child = "ok"
     THEN updateReauthenticationState ELSE Fail

EAPFailure == Received("failure") /\ Fail

-----------------------------------------------------------------------------
(* The data plane.  The caller's configuration says which one; nothing     *)
(* before this point depends on it, so it is chosen by the first step here. *)

\* buildKernelXFRMCommands, those that have an undo.
Commands == <<"link", "stateOut", "stateIn", "policyOut", "policyIn">>
Installed(n) == {Commands[i] : i \in 1 .. n}
\* runIPUndo goes on when a command of it fails; `lost` is what stays behind.
Undone(lost) ==
  [res EXCEPT !.esp = "none", !.xfrm = lost, !.orphans = @ \cup lost]

\* establishKernelSession, error paths: KernelXFRMConfigFromIKE refuses the SA,
\* or a command fails and Apply undoes the ones before it; the close handler runs.
KernelFails ==
  /\ run.pc = "setup" /\ res.esp = "none"
  /\ \E n \in 0 .. Len(Commands) - 1 : \E lost \in SUBSET Installed(n) :
       Cardinality(lost) <= 1 /\ Abandon(Undone(lost))
  /\ UNCHANGED <<Stored, Peer, Bounds>>

establishKernelSession ==
  /\ run.pc = "setup" /\ res.esp = "none"
  /\ res' = [res EXCEPT !.xfrm = Installed(Len(Commands))]
  /\ run' = [run EXCEPT !.pc = "up"]
  /\ UNCHANGED <<Stored, ssn, Peer, Bounds>>

\* The ESP transport: the one the NAT-T socket shares, or one of its own.
espTransport ==
  /\ run.pc = "setup" /\ res.esp = "none"
  /\ \/ \E kind \in {"shared", "own"} :
          res' = [res EXCEPT !.esp = kind] /\ UNCHANGED <<run, ssn>>
     \/ Abandon(res)
  /\ UNCHANGED <<Stored, Peer, Bounds>>

\* NewIKELivenessState or the session factory fails: the ESP transport is closed.
SessionFails ==
  /\ run.pc = "setup" /\ res.esp # "none"
  /\ Abandon(Undone({}))
  /\ UNCHANGED <<Stored, Peer, Bounds>>

NewPacketSession ==
  /\ run.pc = "setup" /\ res.esp # "none"
  /\ run' = [run EXCEPT !.pc = "up"]
  /\ UNCHANGED <<Stored, res, ssn, Peer, Bounds>>

\* The session is closed: the close handler closes the transport, then the data
\* plane goes.
CloseTunnel ==
  /\ run.pc = "up"
  /\ \E lost \in SUBSET res.xfrm : Cardinality(lost) <= 1 /\ Abandon(Undone(lost))
  /\ UNCHANGED <<Stored, Peer, Bounds>>

\* The lifetime of the stored state runs out.
Expires ==
  /\ run.pc = "idle" /\ reauth.Keys # NoKeys /\ ~reauth.Expired
  /\ reauth' = [reauth EXCEPT !.Expired = TRUE]
  /\ UNCHANGED <<saved, behind, run, res, ssn, Peer, Bounds>>

\* EAPReauthenticationStateManager.Save: with a Lifetime the snapshot gets a new
\* expiry, whatever was left of the old one.
Save ==
  /\ run.pc \in {"idle", "up"}
  /\ \E renewed \in BOOLEAN :
       LET s == [reauth EXCEPT !.Expired = @ /\ ~renewed]
       IN  /\ ReauthenticationUsableAt(s) \/ PseudonymUsableAt(s)
           /\ saved' = s
  /\ UNCHANGED <<reauth, behind, run, res, ssn, Peer, Bounds>>

\* The process restarts and Load gives it the snapshot, unless that has expired,
\* was deleted or cannot be read.
Load ==
  /\ run.pc = "idle"
  /\ reauth' \in {saved, NoState}
  /\ UNCHANGED <<saved, behind, run, res, ssn, Peer, Bounds>>

\* The AAA server comes back with the counter of a backup.
ServerRestored ==
  /\ run.pc = "idle" /\ restores < MaxRestores /\ server.counter > 0
  /\ restores' = restores + 1 /\ behind' = TRUE
  /\ server' = [server EXCEPT !.counter = 0]
  /\ UNCHANGED <<reauth, saved, run, res, ssn, keysMade, starts>>

Proceeds ==
  \/ ExchangeFails \/ runIKESAInitRequest \/ \E reply \in Replies : ExchangeIKE(reply)
  \/ runIKEAuthIdentityExchange \/ BuildChallengeResponse
  \/ BuildReauthenticationResponse \/ BuildAKAPrimeKDFNegotiationResponse
  \/ buildAKAControlResponse \/ EAPSuccess \/ runIKEAuthEAPFinal \/ EAPFailure
  \/ KernelFails \/ establishKernelSession
  \/ espTransport \/ SessionFails \/ NewPacketSession
IkeNext == EstablishTunnel \/ Proceeds \/ CloseTunnel \/ Expires \/ Save \/ Load
           \/ ServerRestored
\* Every exchange ends: the transport has a timeout.
IkeSpec == IkeInit /\ [][IkeNext]_ikeVars

-----------------------------------------------------------------------------
\* A call of EstablishTunnel that failed, and a tunnel that was closed, leave no
\* transport, no ESP transport and no XFRM state, apart from what an `ip`
\* command refused to remove (the deferred close, runIPUndo).
EstablishReleases ==
  run.pc = "idle" => ~res.transport /\ res.esp = "none" /\ res.xfrm \subseteq res.orphans

\* Whatever rounds went before (identity requests of every kind, notifications,
\* KDF negotiation, a refused counter), the client derives a challenge's keys
\* from the identity the ePDG last received, computes AT_CHECKCODE over the
\* identity rounds the ePDG saw, and answers a re-authentication under the keys
\* the server stored: a genuine request is never refused (auth.go:314-387).
GenuineAccepted ==
  /\ Received("challenge") => ChallengeGenuine
  /\ Received("reauth") /\ run.keys # NoKeys => ReauthGenuine
  /\ Received("final") => run.next.msk = run.msk

\* The state kept for fast re-authentication fits the server's: same keys, and a
\* counter the server's next one exceeds.  A refused counter is the exception:
\* ApplyUpdate keeps the old counter with the new keys, and the server counts
\* from the start again, so the next re-authentication is refused as well.
StoredStateFits ==
  ReauthenticationUsableAt(reauth) /\ reauth.Identity = server.id =>
    reauth.Keys = server.keys /\ (behind \/ reauth.Counter <= server.counter)

\* EstablishTunnel returns, however many EAP rounds the ePDG asks for.
EstablishReturns == []<>(run.pc \in {"idle", "up"})
=============================================================================

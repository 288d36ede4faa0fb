----------------------------- MODULE MCServices -----------------------------
(***************************************************************************)
(* The components that talk to a server and have to end by themselves, on  *)
(* small instances: the SIP flow with its failover and the transport that  *)
(* sends one request, submission of an SMS with its retries, establishment *)
(* of the tunnel, the media relay, and the entitlement service.  The       *)
(* initial state picks the one that runs (focus).                          *)
(***************************************************************************)
EXTENDS SmsSubmit, Integers, Sequences

CONSTANTS NoCaller

VARIABLES
  focus,     \* the component that runs
  flow, flowQueue, net, lock, txn, call, ops, maint, packets,
  req,
  reauth, saved, ikeRun, res, ikeServer, ssn, keysMade, starts, restores,
  behind,
  relayMade, open, closed, remote, loop, mu, schedule, runner, caller,
  held, entRun, entServer, entMade

Flow == INSTANCE WireFlow WITH
  defaultSIPTimerT1 <- 1, defaultSIPTimerT2 <- 2, defaultSIPTimerT4 <- 5,
  Callers <- {"c1", "c2"}, Methods <- {"REGISTER", "INVITE", "ACK"},
  Resolved <- <<"a", "b">>, Codes <- {180, 200, 302, 503}, RedirectTo <- "c",
  Timeout <- 3, MaxRetransmits <- 1, maxSIPRedirectTargets <- 1,
  QueueCap <- 1, MaxOps <- 2, MaxMaint <- 1, MaxPackets <- 2,
  queue <- flowQueue
Direct == INSTANCE WireDirect WITH
  Resolved <- <<1, 2, 1, 3>>, RedirectTo <- 2,
  DirectCodes <- {200, 302, 404, 480, 503}, Timeout <- 8, MaxInterval <- 4,
  MaxRetransmits <- 2, maxSIPRedirectTargets <- 2
Ike == INSTANCE IkeEstablish WITH
  maxFullAuthEAPExchanges <- 3, maxAKAControlFollowups <- 1, MaxKeys <- 2,
  MaxStarts <- 3, MaxRestores <- 1, run <- ikeRun, server <- ikeServer
Relay == INSTANCE RtpRelay WITH
  Sockets <- {"client"}, Callers <- {"c1", "c2"},
  Directions <- {"sendrecv", "recvonly"}, MaxTargets <- 1, MaxSchedules <- 1,
  made <- relayMade
Ent == INSTANCE Entitlement WITH
  maxEntitlementChallengeResponses <- 2,
  maxEntitlementHTTPDigestRetries <- 2, MaxKeys <- 2, MaxCounter <- 1,
  run <- entRun, server <- entServer, made <- entMade

flowVars == <<flow, flowQueue, net, lock, txn, call, ops, maint, packets>>
directVars == <<req>>
ikeVars == <<reauth, saved, ikeRun, res, ikeServer, ssn, keysMade, starts,
              restores, behind>>
relayVars == <<relayMade, open, closed, remote, loop, mu, schedule, runner,
                caller>>
entVars == <<held, entRun, entServer, entMade>>
vars == <<focus, flowVars, directVars, smsVars, ikeVars, relayVars, entVars>>

Init ==
  /\ focus \in {"flow", "direct", "sms", "ike", "relay", "ent"}
  /\ Flow!FlowInit /\ Direct!DirectInit /\ SmsInit /\ Ike!IkeInit
  /\ Relay!RelayInit /\ Ent!EntInit
  /\ focus # "direct" => req = Direct!Start("ACK", FALSE)
  /\ focus # "flow" => ~ flow.stream

\* Only the component in focus steps.
FlowOnly == focus = "flow" /\ UNCHANGED <<focus, directVars, smsVars, ikeVars, relayVars, entVars>>
DirectOnly == focus = "direct" /\ UNCHANGED <<focus, flowVars, smsVars, ikeVars, relayVars, entVars>>
SmsOnly == focus = "sms" /\ UNCHANGED <<focus, flowVars, directVars, ikeVars, relayVars, entVars>>
IkeOnly == focus = "ike" /\ UNCHANGED <<focus, flowVars, directVars, smsVars, relayVars, entVars>>
RelayOnly == focus = "relay" /\ UNCHANGED <<focus, flowVars, directVars, smsVars, ikeVars, entVars>>
EntOnly == focus = "ent" /\ UNCHANGED <<focus, flowVars, directVars, smsVars, ikeVars, relayVars>>

Next ==
  \/ FlowOnly /\ Flow!FlowNext
  \/ DirectOnly /\ Direct!DirectNext
  \/ SmsOnly /\ SmsNext
  \/ IkeOnly /\ Ike!IkeNext
  \/ RelayOnly /\ Relay!RelayNext
  \/ EntOnly /\ Ent!EntNext

\* Fairness: goroutine g of the component that runs does what it can, sockets and
\* exchanges have deadlines, timers fire.  Servers and the network owe nothing.
Runs(g) ==
  \/ FlowOnly /\ (IF g = 1 THEN Flow!HolderRuns ELSE g <= 3 /\ Flow!Acquire(<<"c1", "c2">>[g - 1]))
  \/ DirectOnly /\ g = 1 /\ Direct!DirectRuns
  \/ /\ SmsOnly
     /\ \/ g = 1 /\ SenderRuns
        \/ g \in 2 .. 3 /\ ReplayerRuns(<<"worker", "host">>[g - 1])
        \/ g \in 4 .. 5 /\ BecomesDue(g - 3)
  \/ IkeOnly /\ g = 1 /\ Ike!Proceeds
  \/ /\ RelayOnly
     /\ \/ g <= 2 /\ Relay!CallerSteps(<<"c1", "c2">>[g])
        \/ g = 3 /\ Relay!LoopSteps("client")
        \/ g = 4 /\ Relay!SchedulerRuns(1)
  \/ EntOnly /\ g = 1 /\ Ent!Steps

Spec ==
  /\ Init /\ [][Next]_vars
  /\ \A g \in 1 .. 5 : WF_vars(Runs(g))
  /\ \A r \in Replayers : WF_replay(SmsOnly /\ Advances(r))

-----------------------------------------------------------------------------
\* A round trip returns the answer to its own request, a request a server is
\* already working on is not given to another (WireFlow), and one that is given up
\* was tried on every server (WireDirect).
AnswersOwnRequest ==
  Flow!AnswersOwnRequest /\ Flow!NoResendAfterProvisional /\ Direct!DirectTriesAll

\* A round trip of the flow, too, is given up only when every server was tried,
\* wherever in its list it started (WireFlow).
EveryTargetTried == Flow!EveryTargetTried

\* IkeEstablish: a failed or closed tunnel leaves nothing behind, and a genuine
\* request of the ePDG is accepted.
EstablishSound == Ike!EstablishReleases /\ Ike!GenuineAccepted

\* IkeEstablish and Entitlement: the EAP state kept for the next authentication is
\* one the server can use.
HeldStateFits == Ike!StoredStateFits /\ Ent!HeldStateFits

\* RtpRelay: hold and resume take effect with the next packet, and a closed relay
\* is quiet.
RelayObeys == Relay!HoldTakesEffect /\ Relay!ClosedRelayIsQuiet

=============================================================================

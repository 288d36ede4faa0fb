--------------------------- MODULE NattTransport ----------------------------
(***************************************************************************)
(* sharedNATTUDPConn of engine/swu/natt_shared_transport.go: one UDP socket *)
(* that carries IKE and ESP.  A goroutine demultiplexes what arrives into  *)
(* two bounded channels; IKE exchanges are serialised by ikeMu and take    *)
(* whatever IKE datagram is first in its channel.                          *)
(*                                                                         *)
(* The network is a set of datagrams on their way to the socket: it loses  *)
(* and reorders them.  The ePDG may send an IKE request of its own, which  *)
(* the transport cannot tell from an answer.  The pump is the thread that  *)
(* reads ESP, and it runs rekey exchanges between two reads.               *)
(***************************************************************************)
EXTENDS Integers, Sequences, FiniteSets

CONSTANTS Threads,    \* threads that run IKE exchanges
          Pump,       \* the one of them that reads ESP
          NoThread,
          IkeCap,     \* capacity of ikeCh: 16 in the code
          EspCap,     \* capacity of espCh: 256 in the code
          MaxIke,     \* bound on IKE exchanges
          MaxEsp,     \* bound on ESP datagrams of the ePDG
          MaxPushed   \* bound on IKE requests of the ePDG

ASSUME ThreadsAssumption == Pump \in Threads /\ NoThread \notin Threads
ASSUME CapsAssumption == IkeCap \in Nat \ {0} /\ EspCap \in Nat \ {0}
ASSUME NattBoundsAssumption == MaxIke \in Nat /\ MaxEsp \in Nat /\ MaxPushed \in Nat

VARIABLES
  conn,       \* "none" before ensureConn dials, "open", or "closed"
  failed,     \* failedCh is closed
  loop,       \* readLoop: "off", "read", "put" or "done"
  held,       \* the datagram readLoop is about to queue
  ikeCh,
  espCh,
  ikeMu,      \* holder of ikeMu
  exchange,   \* what each thread is doing
  request,    \* number of the request of each thread's exchange
  net,        \* datagrams on their way to the socket
  requests,   \* history: IKE exchanges started
  espSent,    \* history: ESP datagrams of the ePDG
  pushed,     \* history: IKE requests of the ePDG
  abandoned,  \* history: exchanges that ended without a datagram
  skewed      \* history: some exchange ended with another one's datagram

socketVars == <<conn, failed, loop, held, ikeCh, espCh>>
exchangeVars == <<ikeMu, exchange, request>>
peerVars == <<net, espSent, pushed>>
historyVars == <<requests, abandoned, skewed>>
nattVars == <<socketVars, exchangeVars, peerVars, historyVars>>

\* NAT keepalives and runts; readLoop drops both.
Noise == [kind |-> "noise", id |-> 0]

\* newSharedNATTTransport
NattInit ==
  /\ conn = "none" /\ failed = FALSE /\ loop = "off" /\ held = Noise
  /\ ikeCh = <<>> /\ espCh = <<>>
  /\ ikeMu = NoThread
  /\ exchange = [t \in Threads |-> "idle"] /\ request = [t \in Threads |-> 0]
  /\ net = {} /\ espSent = 0 /\ pushed = 0
  /\ requests = 0 /\ abandoned = 0 /\ skewed = FALSE

-----------------------------------------------------------------------------
(* The ePDG and the network.                                               *)

PeerSendsEsp ==
  /\ conn = "open" /\ espSent < MaxEsp
  /\ espSent' = espSent + 1
  /\ net' = net \cup {[kind |-> "esp", id |-> espSent + 1]}
  /\ UNCHANGED <<socketVars, exchangeVars, pushed, historyVars>>

PeerSendsIke ==
  /\ conn = "open" /\ pushed < MaxPushed
  /\ pushed' = pushed + 1
  /\ net' = net \cup {[kind |-> "ike", id |-> MaxIke + pushed + 1]}
  /\ UNCHANGED <<socketVars, exchangeVars, espSent, historyVars>>

NetworkLoses ==
  /\ \E d \in net : net' = net \ {d}
  /\ UNCHANGED <<socketVars, exchangeVars, espSent, pushed, historyVars>>

-----------------------------------------------------------------------------
(* readLoop.                                                               *)

LoopReads ==
  /\ loop = "read" /\ conn = "open"
  /\ \E d \in net \cup {Noise} :
       /\ net' = net \ {d}
       /\ held' = d
       /\ loop' = IF d = Noise THEN "read" ELSE "put"
  /\ UNCHANGED <<conn, failed, ikeCh, espCh, exchangeVars, espSent, pushed,
                 historyVars>>

LoopQueuesIke ==
  /\ loop = "put" /\ held.kind = "ike" /\ Len(ikeCh) < IkeCap
  /\ ikeCh' = Append(ikeCh, held)
  /\ loop' = "read" /\ held' = Noise
  /\ UNCHANGED <<conn, failed, espCh, exchangeVars, peerVars, historyVars>>

LoopQueuesEsp ==
  /\ loop = "put" /\ held.kind = "esp" /\ Len(espCh) < EspCap
  /\ espCh' = Append(espCh, held)
  /\ loop' = "read" /\ held' = Noise
  /\ UNCHANGED <<conn, failed, ikeCh, exchangeVars, peerVars, historyVars>>

\* A read error other than the one of a closed socket is final.
LoopFails ==
  /\ loop = "read" /\ conn = "open"
  /\ loop' = "done" /\ failed' = TRUE
  /\ UNCHANGED <<conn, held, ikeCh, espCh, exchangeVars, peerVars, historyVars>>

LoopStops ==
  /\ loop \in {"read", "put"} /\ conn = "closed"
  /\ loop' = "done" /\ held' = Noise
  /\ UNCHANGED <<conn, failed, ikeCh, espCh, exchangeVars, peerVars, historyVars>>

-----------------------------------------------------------------------------
(* exchangeIKE.                                                            *)

ExchangeStart(t) ==
  /\ exchange[t] = "idle" /\ requests < MaxIke
  /\ exchange' = [exchange EXCEPT ![t] = "lock"]
  /\ requests' = requests + 1
  /\ request' = [request EXCEPT ![t] = requests + 1]
  /\ UNCHANGED <<socketVars, ikeMu, peerVars, abandoned, skewed>>

\* ensureConn dials the socket and starts readLoop.
EnsureConn ==
  /\ conn # "closed"
  /\ conn' = "open"
  /\ loop' = IF conn = "none" THEN "read" ELSE loop

\* Mutant: exchanges are not serialised.
ExchangeWrites_Unserialised(t) ==
  /\ exchange[t] = "lock"
  /\ EnsureConn
  /\ exchange' = [exchange EXCEPT ![t] = "wait"]
  /\ net' = net \cup {[kind |-> "ike", id |-> request[t]]}
  /\ UNCHANGED <<ikeMu, request, failed, held, ikeCh, espCh, espSent, pushed,
                 historyVars>>

\* The request reaches the ePDG, which answers, or it is lost.
ExchangeWrites(t) ==
  /\ exchange[t] = "lock" /\ ikeMu = NoThread
  /\ EnsureConn
  /\ ikeMu' = t
  /\ exchange' = [exchange EXCEPT ![t] = "wait"]
  /\ \/ net' = net \cup {[kind |-> "ike", id |-> request[t]]}
     \/ UNCHANGED net
  /\ UNCHANGED <<request, failed, held, ikeCh, espCh, espSent, pushed,
                 historyVars>>

\* The transport is closed, or dialling or writing fails.
ExchangeRefused(t) ==
  /\ exchange[t] = "lock" /\ ikeMu = NoThread
  /\ exchange' = [exchange EXCEPT ![t] = "idle"]
  /\ request' = [request EXCEPT ![t] = 0]
  /\ UNCHANGED <<socketVars, ikeMu, peerVars, historyVars>>

ExchangeReturns(t) ==
  /\ exchange' = [exchange EXCEPT ![t] = "idle"]
  /\ request' = [request EXCEPT ![t] = 0]
  /\ ikeMu' = NoThread

\* The first IKE datagram in the channel is returned as the answer; the caller
\* rejects one whose message ID is not that of the request.
ExchangeTakes(t) ==
  /\ exchange[t] = "wait" /\ ikeCh # <<>>
  /\ ikeCh' = Tail(ikeCh)
  /\ skewed' = (skewed \/ Head(ikeCh).id # request[t])
  /\ ExchangeReturns(t)
  /\ UNCHANGED <<conn, failed, loop, held, espCh, peerVars, requests, abandoned>>

\* Mutant: responseTimer returns no timer.
ExchangeAbandoned_NoTimer(t) ==
  /\ exchange[t] = "wait"
  /\ failed \/ conn = "closed"
  /\ abandoned' = abandoned + 1
  /\ ExchangeReturns(t)
  /\ UNCHANGED <<socketVars, peerVars, requests, skewed>>

\* The timer fires or the context ends, or the socket has failed or been closed.
ExchangeAbandoned(t) ==
  /\ exchange[t] = "wait"
  /\ abandoned' = abandoned + 1
  /\ ExchangeReturns(t)
  /\ UNCHANGED <<socketVars, peerVars, requests, skewed>>

-----------------------------------------------------------------------------
(* readESP and close.                                                      *)

ReadEsp ==
  /\ exchange[Pump] = "idle" /\ EnsureConn
  /\ espCh # <<>>
  /\ espCh' = Tail(espCh)
  /\ UNCHANGED <<failed, held, ikeCh, exchangeVars, peerVars, historyVars>>

\* Before the first exchange readESP opens the socket, and waits.
ReadEspOpens ==
  /\ exchange[Pump] = "idle" /\ conn = "none" /\ EnsureConn
  /\ UNCHANGED <<failed, held, ikeCh, espCh, exchangeVars, peerVars, historyVars>>

\* readESP returns an error, and the pump ends.
ReadEspFails ==
  /\ exchange[Pump] = "idle" /\ (failed \/ conn = "closed")
  /\ exchange' = [exchange EXCEPT ![Pump] = "stopped"]
  /\ UNCHANGED <<socketVars, ikeMu, request, peerVars, historyVars>>

\* The pump's context ends.
ReadEspCancelled ==
  /\ exchange[Pump] = "idle" /\ ~failed /\ conn # "closed"
  /\ exchange' = [exchange EXCEPT ![Pump] = "stopped"]
  /\ UNCHANGED <<socketVars, ikeMu, request, peerVars, historyVars>>

CloseTransport ==
  /\ conn # "closed"
  /\ conn' = "closed"
  /\ UNCHANGED <<failed, loop, held, ikeCh, espCh, exchangeVars, peerVars,
                 historyVars>>

-----------------------------------------------------------------------------
Exchange(t) ==
  \/ ExchangeStart(t) \/ ExchangeWrites(t) \/ ExchangeRefused(t)
  \/ ExchangeTakes(t) \/ ExchangeAbandoned(t)

Loop == LoopReads \/ LoopQueuesIke \/ LoopQueuesEsp \/ LoopFails \/ LoopStops

NattNext ==
  \/ PeerSendsEsp \/ PeerSendsIke \/ NetworkLoses
  \/ Loop
  \/ \E t \in Threads : Exchange(t)
  \/ ReadEsp \/ ReadEspOpens \/ ReadEspFails \/ ReadEspCancelled
  \/ CloseTransport

NattSpec == NattInit /\ [][NattNext]_nattVars

\* Goroutines that can run do run, timers fire and ikeMu is given to a waiter when
\* it is free: what readLoop, the reader of ESP and an exchange do once they can.
LoopRuns == LoopQueuesIke \/ LoopQueuesEsp \/ LoopStops
ReadRuns == ReadEsp \/ ReadEspFails
ExchangeRuns(t) ==
  ExchangeWrites(t) \/ ExchangeRefused(t) \/ ExchangeTakes(t) \/ ExchangeAbandoned(t)

-----------------------------------------------------------------------------
(* Properties.                                                             *)

IkePending ==
  Cardinality({d \in net : d.kind = "ike"}) + Len(ikeCh)
    + (IF held.kind = "ike" THEN 1 ELSE 0)

\* An IKE datagram that no exchange is waiting for can only stem from an
\* exchange given up or from a request of the ePDG: exchangeIKE, which returns
\* the first datagram it finds, neither loses count nor leaves one behind.
StaleDatagramsAccounted ==
  IkePending <= abandoned + pushed 
                  + Cardinality({t \in Threads : exchange[t] = "wait"})

\* As long as no exchange was given up and the ePDG sent no request, every
\* exchange gets the answer to its own request.
AnswersMatch == skewed => abandoned + pushed > 0

\* Every exchange ends, even when espCh is full, its reader is the one that
\* waits for the answer, and the answer is behind the ESP datagram that
\* readLoop cannot queue.
ExchangesEnd == \A t \in Threads : []<>(exchange[t] \notin {"lock", "wait"})

\* Closing the transport ends readLoop and the pump.
CloseEndsReaders == []<>(conn = "closed" => loop \in {"off", "done"} /\ exchange[Pump] = "stopped")

\* Both together: an exchange gets its own answer unless something was left in
\* the channel, and what is left there is accounted for.
ExchangesMatched == AnswersMatch /\ StaleDatagramsAccounted
=============================================================================

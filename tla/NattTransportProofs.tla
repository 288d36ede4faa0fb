------------------------ MODULE NattTransportProofs -------------------------
(***************************************************************************)
(* Proof that an exchange over the shared NAT-T socket gets the answer to  *)
(* its own request unless something was left over, and that what is left   *)
(* over is accounted for, for every number of threads and every capacity.  *)
(***************************************************************************)
EXTENDS NattTransport, FiniteSetTheorems, TLAPS

IkeIn(S) == {d \in S : d.kind = "ike"}
Waiting == {t \in Threads : exchange[t] = "wait"}

\* The types the proofs need.
Wire == [kind : {"ike", "esp", "noise"}, id : Nat]
TransportType ==
  /\ held \in Wire /\ net \subseteq Wire /\ IsFiniteSet(net)
  /\ ikeCh \in Seq(Wire) /\ espCh \in Seq(Wire)
  /\ ikeMu \in Threads \cup {NoThread}
  /\ exchange \in [Threads -> {"idle", "lock", "wait", "stopped"}]
  /\ request \in [Threads -> 0 .. MaxIke]
  /\ requests \in 0 .. MaxIke /\ espSent \in 0 .. MaxEsp /\ pushed \in 0 .. MaxPushed
  /\ abandoned \in Nat /\ skewed \in BOOLEAN

\* readLoop holds a datagram only while it waits for room in a channel.
LoopInv == (conn = "none" => loop = "off") /\ (loop # "put" => held = Noise)

\* Whoever waits for an answer holds ikeMu.
MuInv == \A t \in Threads : exchange[t] = "wait" <=> ikeMu = t

\* As long as nothing was given up and the ePDG sent no request of its own, every
\* IKE datagram under way answers the exchange that waits.
Own(d) == ikeMu # NoThread /\ d.id = request[ikeMu]
OwnInv ==
  abandoned + pushed = 0 =>
    /\ ~ skewed
    /\ \A d \in net : d.kind = "ike" => Own(d)
    /\ \A i \in 1 .. Len(ikeCh) : Own(ikeCh[i])
    /\ held.kind = "ike" => Own(held)

\* The IKE datagrams under way, counted; one exchange at most waits.
Held == IF held.kind = "ike" THEN 1 ELSE 0
Holder == IF ikeMu = NoThread THEN 0 ELSE 1
Accounted == Cardinality(IkeIn(net)) + Len(ikeCh) + Held <= abandoned + pushed + Holder

NattInv == TransportType /\ LoopInv /\ MuInv /\ Accounted /\ OwnInv
-----------------------------------------------------------------------------
(* Counting.                                                               *)

\* A datagram that is sent adds one at most, and only when it is IKE; one that
\* leaves the network takes one away when it is.
LEMMA CountAdded ==
  ASSUME NEW S, IsFiniteSet(S), NEW d
  PROVE  /\ IsFiniteSet(S \cup {d}) /\ Cardinality(IkeIn(S)) \in Nat
         /\ Cardinality(IkeIn(S \cup {d})) \in Nat
         /\ Cardinality(IkeIn(S \cup {d})) <= Cardinality(IkeIn(S)) + 1
         /\ d.kind # "ike" => Cardinality(IkeIn(S \cup {d})) = Cardinality(IkeIn(S))
<1>1. IsFiniteSet(IkeIn(S)) /\ Cardinality(IkeIn(S)) \in Nat
  BY FS_Subset, FS_CardinalityType DEF IkeIn
<1>2. CASE d.kind = "ike"
  <2>1. IkeIn(S \cup {d}) = IkeIn(S) \cup {d}
    BY <1>2 DEF IkeIn
  <2>2. IsFiniteSet(IkeIn(S) \cup {d}) /\ IsFiniteSet(S \cup {d})
    BY <1>1, FS_AddElement
  <2>3. Cardinality(IkeIn(S) \cup {d}) \in Nat
    BY <2>2, FS_CardinalityType
  <2>4. Cardinality(IkeIn(S) \cup {d})
          = IF d \in IkeIn(S) THEN Cardinality(IkeIn(S)) ELSE Cardinality(IkeIn(S)) + 1
    BY <1>1, FS_AddElement
  <2> QED BY <1>1, <1>2, <2>1, <2>2, <2>3, <2>4
<1>3. CASE d.kind # "ike"
  <2>1. IkeIn(S \cup {d}) = IkeIn(S)
    BY <1>3 DEF IkeIn
  <2> QED BY <1>1, <1>3, <2>1, FS_AddElement
<1> QED BY <1>2, <1>3

LEMMA CountRemoved ==
  ASSUME NEW S, IsFiniteSet(S), NEW d
  PROVE  /\ IsFiniteSet(S \ {d}) /\ Cardinality(IkeIn(S)) \in Nat
         /\ Cardinality(IkeIn(S \ {d})) \in Nat
         /\ Cardinality(IkeIn(S \ {d})) <= Cardinality(IkeIn(S))
         /\ d \in S /\ d.kind = "ike" => Cardinality(IkeIn(S \ {d})) = Cardinality(IkeIn(S)) - 1
<1>1. IsFiniteSet(IkeIn(S)) /\ Cardinality(IkeIn(S)) \in Nat
  BY FS_Subset, FS_CardinalityType DEF IkeIn
<1>2. IkeIn(S \ {d}) = IkeIn(S) \ {d}
  BY DEF IkeIn
<1>3. d \in S /\ d.kind = "ike" => d \in IkeIn(S)
  BY DEF IkeIn
<1>4. IsFiniteSet(IkeIn(S) \ {d}) /\ Cardinality(IkeIn(S) \ {d}) \in Nat
  BY <1>1, FS_RemoveElement, FS_CardinalityType
<1>5. Cardinality(IkeIn(S) \ {d})
        = IF d \in IkeIn(S) THEN Cardinality(IkeIn(S)) - 1 ELSE Cardinality(IkeIn(S))
  BY <1>1, FS_RemoveElement
<1>6. IsFiniteSet(S \ {d})
  BY FS_RemoveElement
<1> QED BY <1>1, <1>2, <1>3, <1>4, <1>5, <1>6

\* ikeMu is held by the one exchange that waits.
LEMMA OneWaits ==
  ASSUME TransportType, MuInv
  PROVE  Cardinality(Waiting) = Holder
<1> USE ThreadsAssumption DEF TransportType, MuInv, Waiting
<1>1. CASE ikeMu = NoThread
  <2>1. Waiting = {}
    BY <1>1
  <2> QED BY <1>1, <2>1, FS_EmptySet DEF Holder
<1>2. CASE ikeMu # NoThread
  <2>1. Waiting = {ikeMu}
    BY <1>2
  <2> QED BY <1>2, <2>1, FS_Singleton DEF Holder
<1> QED BY <1>1, <1>2

-----------------------------------------------------------------------------
(* The invariant, conjunct by conjunct.                                    *)

\* Nothing is under way before the socket is opened.
LEMMA InitNatt == NattInit => NattInv
<1> SUFFICES ASSUME NattInit  PROVE NattInv
  OBVIOUS
<1> USE ThreadsAssumption, NattBoundsAssumption DEF NattInit
<1>1. TransportType
  <2>1. held \in Wire /\ net \subseteq Wire /\ IsFiniteSet(net)
    BY FS_EmptySet DEF Wire, Noise
  <2>2. ikeCh \in Seq(Wire) /\ espCh \in Seq(Wire)
    OBVIOUS
  <2>3. /\ exchange \in [Threads -> {"idle", "lock", "wait", "stopped"}]
        /\ request \in [Threads -> 0 .. MaxIke]
        /\ requests \in 0 .. MaxIke /\ espSent \in 0 .. MaxEsp /\ pushed \in 0 .. MaxPushed
    OBVIOUS
  <2> QED BY <2>1, <2>2, <2>3 DEF TransportType
<1>2. LoopInv /\ MuInv
  BY DEF LoopInv, MuInv
<1>3. Accounted
  <2>1. IkeIn(net) = {} /\ Len(ikeCh) = 0 /\ Held = 0
    BY DEF IkeIn, Held, Noise
  <2> QED BY <2>1, FS_EmptySet DEF Accounted, Holder
<1>4. OwnInv
  BY DEF OwnInv, Noise
<1> QED BY <1>1, <1>2, <1>3, <1>4 DEF NattInv

\* The counts are numbers.
LEMMA CountsType ==
  ASSUME TransportType
  PROVE  Cardinality(IkeIn(net)) \in Nat /\ Len(ikeCh) \in Nat
BY FS_Subset, FS_CardinalityType DEF TransportType, IkeIn

\* Every step keeps the types.
LEMMA TypeStep == NattInv /\ [NattNext]_nattVars => TransportType'
<1> SUFFICES ASSUME NattInv, [NattNext]_nattVars
             PROVE  TransportType'
  OBVIOUS
<1> USE ThreadsAssumption, NattBoundsAssumption DEF NattInv, TransportType, Wire, Noise
<1>1. CASE PeerSendsEsp
  <2> DEFINE d == [kind |-> "esp", id |-> espSent + 1]
  <2>1. d \in Wire
    OBVIOUS
  <2>2. net' = net \cup {d}
    BY <1>1 DEF PeerSendsEsp
  <2>3. net' \subseteq Wire /\ IsFiniteSet(net')
    BY <2>1, <2>2, FS_AddElement
  <2> HIDE DEF d
  <2> QED BY <1>1, <2>3 DEF PeerSendsEsp, socketVars, exchangeVars, historyVars
<1>2. CASE PeerSendsIke
  <2> DEFINE d == [kind |-> "ike", id |-> MaxIke + pushed + 1]
  <2>1. d \in Wire
    OBVIOUS
  <2>2. net' = net \cup {d}
    BY <1>2 DEF PeerSendsIke
  <2>3. net' \subseteq Wire /\ IsFiniteSet(net')
    BY <2>1, <2>2, FS_AddElement
  <2> HIDE DEF d
  <2> QED BY <1>2, <2>3 DEF PeerSendsIke, socketVars, exchangeVars, historyVars
<1>3. CASE NetworkLoses
  BY <1>3, FS_RemoveElement DEF NetworkLoses, socketVars, exchangeVars, historyVars
<1>4. CASE LoopReads
  BY <1>4, FS_RemoveElement DEF LoopReads, exchangeVars, historyVars
<1>5. CASE LoopQueuesIke
  BY <1>5 DEF LoopQueuesIke, exchangeVars, peerVars, historyVars
<1>6. CASE LoopQueuesEsp
  BY <1>6 DEF LoopQueuesEsp, exchangeVars, peerVars, historyVars
<1>7. CASE LoopFails
  BY <1>7 DEF LoopFails, exchangeVars, peerVars, historyVars
<1>8. CASE LoopStops
  BY <1>8 DEF LoopStops, exchangeVars, peerVars, historyVars
<1>9. CASE ReadEsp
  BY <1>9 DEF ReadEsp, EnsureConn, exchangeVars, peerVars, historyVars
<1>10. CASE ReadEspOpens
  BY <1>10 DEF ReadEspOpens, EnsureConn, exchangeVars, peerVars, historyVars
<1>11. CASE ReadEspFails
  BY <1>11 DEF ReadEspFails, socketVars, peerVars, historyVars
<1>12. CASE ReadEspCancelled
  BY <1>12 DEF ReadEspCancelled, socketVars, peerVars, historyVars
<1>13. CASE CloseTransport
  BY <1>13 DEF CloseTransport, exchangeVars, peerVars, historyVars
<1>14. ASSUME NEW t \in Threads, ExchangeStart(t)  PROVE TransportType'
  BY <1>14 DEF ExchangeStart, socketVars, peerVars
<1>15. ASSUME NEW t \in Threads, ExchangeWrites(t)  PROVE TransportType'
  <2> DEFINE d == [kind |-> "ike", id |-> request[t]]
  <2>1. d \in Wire
    OBVIOUS
  <2>2. net' = net \cup {d} \/ net' = net
    BY <1>15 DEF ExchangeWrites
  <2> HIDE DEF d
  <2>3. net' \subseteq Wire /\ IsFiniteSet(net')
    <3>1. IsFiniteSet(net \cup {d})
      BY FS_AddElement
    <3> QED BY <2>1, <2>2, <3>1
  <2> QED BY <1>15, <2>3 DEF ExchangeWrites, EnsureConn, historyVars
<1>16. ASSUME NEW t \in Threads, ExchangeRefused(t)  PROVE TransportType'
  BY <1>16 DEF ExchangeRefused, socketVars, peerVars, historyVars
<1>17. ASSUME NEW t \in Threads, ExchangeTakes(t)  PROVE TransportType'
  BY <1>17 DEF ExchangeTakes, ExchangeReturns, peerVars
<1>18. ASSUME NEW t \in Threads, ExchangeAbandoned(t)  PROVE TransportType'
  BY <1>18 DEF ExchangeAbandoned, ExchangeReturns, socketVars, peerVars
<1>19. CASE UNCHANGED nattVars
  BY <1>19 DEF nattVars, socketVars, exchangeVars, peerVars, historyVars
<1> QED BY <1>1, <1>2, <1>3, <1>4, <1>5, <1>6, <1>7, <1>8, <1>9, <1>10, <1>11, <1>12, <1>13,
        <1>14, <1>15, <1>16, <1>17, <1>18, <1>19 DEF NattNext, Loop, Exchange

\* readLoop lets go of what it has queued.
LEMMA LoopStep == NattInv /\ [NattNext]_nattVars => LoopInv'
<1> SUFFICES ASSUME NattInv, [NattNext]_nattVars
             PROVE  LoopInv'
  OBVIOUS
<1> USE DEF NattInv, LoopInv
<1>1. CASE PeerSendsEsp
  BY <1>1 DEF PeerSendsEsp, socketVars, exchangeVars, historyVars
<1>2. CASE PeerSendsIke
  BY <1>2 DEF PeerSendsIke, socketVars, exchangeVars, historyVars
<1>3. CASE NetworkLoses
  BY <1>3 DEF NetworkLoses, socketVars, exchangeVars, historyVars
<1>4. CASE LoopReads
  BY <1>4 DEF LoopReads, exchangeVars, historyVars
<1>5. CASE LoopQueuesIke
  BY <1>5 DEF LoopQueuesIke, exchangeVars, peerVars, historyVars
<1>6. CASE LoopQueuesEsp
  BY <1>6 DEF LoopQueuesEsp, exchangeVars, peerVars, historyVars
<1>7. CASE LoopFails
  BY <1>7 DEF LoopFails, exchangeVars, peerVars, historyVars
<1>8. CASE LoopStops
  BY <1>8 DEF LoopStops, exchangeVars, peerVars, historyVars
<1>9. CASE ReadEsp
  BY <1>9 DEF ReadEsp, EnsureConn, exchangeVars, peerVars, historyVars
<1>10. CASE ReadEspOpens
  BY <1>10 DEF ReadEspOpens, EnsureConn, exchangeVars, peerVars, historyVars
<1>11. CASE ReadEspFails
  BY <1>11 DEF ReadEspFails, socketVars, peerVars, historyVars
<1>12. CASE ReadEspCancelled
  BY <1>12 DEF ReadEspCancelled, socketVars, peerVars, historyVars
<1>13. CASE CloseTransport
  BY <1>13 DEF CloseTransport, exchangeVars, peerVars, historyVars
<1>14. ASSUME NEW t \in Threads, ExchangeStart(t)  PROVE LoopInv'
  BY <1>14 DEF ExchangeStart, socketVars, peerVars
<1>15. ASSUME NEW t \in Threads, ExchangeWrites(t)  PROVE LoopInv'
  BY <1>15 DEF ExchangeWrites, EnsureConn, historyVars
<1>16. ASSUME NEW t \in Threads, ExchangeRefused(t)  PROVE LoopInv'
  BY <1>16 DEF ExchangeRefused, socketVars, peerVars, historyVars
<1>17. ASSUME NEW t \in Threads, ExchangeTakes(t)  PROVE LoopInv'
  BY <1>17 DEF ExchangeTakes, ExchangeReturns, peerVars
<1>18. ASSUME NEW t \in Threads, ExchangeAbandoned(t)  PROVE LoopInv'
  BY <1>18 DEF ExchangeAbandoned, ExchangeReturns, socketVars, peerVars
<1>19. CASE UNCHANGED nattVars
  BY <1>19 DEF nattVars, socketVars, exchangeVars, peerVars, historyVars
<1> QED BY <1>1, <1>2, <1>3, <1>4, <1>5, <1>6, <1>7, <1>8, <1>9, <1>10, <1>11, <1>12, <1>13,
        <1>14, <1>15, <1>16, <1>17, <1>18, <1>19 DEF NattNext, Loop, Exchange

\* ikeMu is taken for one exchange and given back by it.
LEMMA MuStep == NattInv /\ [NattNext]_nattVars => MuInv'
<1> SUFFICES ASSUME NattInv, [NattNext]_nattVars
             PROVE  MuInv'
  OBVIOUS
<1> USE ThreadsAssumption DEF NattInv, TransportType, MuInv
<1>1. CASE PeerSendsEsp
  BY <1>1 DEF PeerSendsEsp, socketVars, exchangeVars, historyVars
<1>2. CASE PeerSendsIke
  BY <1>2 DEF PeerSendsIke, socketVars, exchangeVars, historyVars
<1>3. CASE NetworkLoses
  BY <1>3 DEF NetworkLoses, socketVars, exchangeVars, historyVars
<1>4. CASE LoopReads
  BY <1>4 DEF LoopReads, exchangeVars, historyVars
<1>5. CASE LoopQueuesIke
  BY <1>5 DEF LoopQueuesIke, exchangeVars, peerVars, historyVars
<1>6. CASE LoopQueuesEsp
  BY <1>6 DEF LoopQueuesEsp, exchangeVars, peerVars, historyVars
<1>7. CASE LoopFails
  BY <1>7 DEF LoopFails, exchangeVars, peerVars, historyVars
<1>8. CASE LoopStops
  BY <1>8 DEF LoopStops, exchangeVars, peerVars, historyVars
<1>9. CASE ReadEsp
  BY <1>9 DEF ReadEsp, EnsureConn, exchangeVars, peerVars, historyVars
<1>10. CASE ReadEspOpens
  BY <1>10 DEF ReadEspOpens, EnsureConn, exchangeVars, peerVars, historyVars
<1>11. CASE ReadEspFails
  BY <1>11 DEF ReadEspFails, socketVars, peerVars, historyVars
<1>12. CASE ReadEspCancelled
  BY <1>12 DEF ReadEspCancelled, socketVars, peerVars, historyVars
<1>13. CASE CloseTransport
  BY <1>13 DEF CloseTransport, exchangeVars, peerVars, historyVars
<1>14. ASSUME NEW t \in Threads, ExchangeStart(t)  PROVE MuInv'
  BY <1>14 DEF ExchangeStart, socketVars, peerVars
<1>15. ASSUME NEW t \in Threads, ExchangeWrites(t)  PROVE MuInv'
  BY <1>15 DEF ExchangeWrites, EnsureConn, historyVars
<1>16. ASSUME NEW t \in Threads, ExchangeRefused(t)  PROVE MuInv'
  BY <1>16 DEF ExchangeRefused, socketVars, peerVars, historyVars
<1>17. ASSUME NEW t \in Threads, ExchangeTakes(t)  PROVE MuInv'
  BY <1>17 DEF ExchangeTakes, ExchangeReturns, peerVars
<1>18. ASSUME NEW t \in Threads, ExchangeAbandoned(t)  PROVE MuInv'
  BY <1>18 DEF ExchangeAbandoned, ExchangeReturns, socketVars, peerVars
<1>19. CASE UNCHANGED nattVars
  BY <1>19 DEF nattVars, socketVars, exchangeVars, peerVars, historyVars
<1> QED BY <1>1, <1>2, <1>3, <1>4, <1>5, <1>6, <1>7, <1>8, <1>9, <1>10, <1>11, <1>12, <1>13,
        <1>14, <1>15, <1>16, <1>17, <1>18, <1>19 DEF NattNext, Loop, Exchange

\* Every datagram that comes under way is paid for.
LEMMA AccountStep == NattInv /\ [NattNext]_nattVars => Accounted'
<1> SUFFICES ASSUME NattInv, [NattNext]_nattVars
             PROVE  Accounted'
  OBVIOUS
<1> USE CountsType DEF NattInv, TransportType, Accounted, Held, Holder
<1>1. CASE PeerSendsEsp
  <2> DEFINE d == [kind |-> "esp", id |-> espSent + 1]
  <2>1. net' = net \cup {d} /\ d.kind # "ike"
    BY <1>1 DEF PeerSendsEsp
  <2> HIDE DEF d
  <2>2. Cardinality(IkeIn(net')) = Cardinality(IkeIn(net))
    BY <2>1, CountAdded
  <2> QED BY <1>1, <2>2 DEF PeerSendsEsp, socketVars, exchangeVars, historyVars
<1>2. CASE PeerSendsIke
  <2>1. PICK d : net' = net \cup {d}
    BY <1>2 DEF PeerSendsIke
  <2>2. Cardinality(IkeIn(net')) \in Nat /\ Cardinality(IkeIn(net')) <= Cardinality(IkeIn(net)) + 1
    BY <2>1, CountAdded
  <2>3. pushed' = pushed + 1 /\ UNCHANGED <<ikeCh, held, abandoned, ikeMu>>
    BY <1>2 DEF PeerSendsIke, socketVars, exchangeVars, historyVars
  <2>4. Holder' = Holder /\ Held' = Held
    BY <2>3
  <2>6. /\ abandoned \in Nat /\ pushed \in Nat /\ Held \in Nat /\ Holder \in Nat
        /\ Cardinality(IkeIn(net)) \in Nat /\ Len(ikeCh) \in Nat /\ Accounted
    OBVIOUS
  <2> HIDE DEF NattInv, TransportType, Held, Holder
  <2> QED BY <2>2, <2>3, <2>4, <2>6
<1>3. CASE NetworkLoses
  <2>1. PICK d \in net : net' = net \ {d}
    BY <1>3 DEF NetworkLoses
  <2>2. Cardinality(IkeIn(net')) \in Nat /\ Cardinality(IkeIn(net')) <= Cardinality(IkeIn(net))
    BY <2>1, CountRemoved
  <2>3. UNCHANGED <<ikeCh, held, abandoned, pushed, ikeMu>>
    BY <1>3 DEF NetworkLoses, socketVars, exchangeVars, historyVars
  <2>4. Holder' = Holder /\ Held' = Held
    BY <2>3
  <2>6. /\ abandoned \in Nat /\ pushed \in Nat /\ Held \in Nat /\ Holder \in Nat
        /\ Cardinality(IkeIn(net)) \in Nat /\ Len(ikeCh) \in Nat /\ Accounted
    OBVIOUS
  <2> HIDE DEF NattInv, TransportType, Held, Holder
  <2> QED BY <2>2, <2>3, <2>4, <2>6
<1>4. CASE LoopReads
  <2>1. PICK d \in net \cup {Noise} : net' = net \ {d} /\ held' = d
    BY <1>4 DEF LoopReads
  <2>2. held = Noise /\ UNCHANGED <<ikeCh, abandoned, pushed, ikeMu>>
    BY <1>4 DEF LoopReads, LoopInv, exchangeVars, historyVars
  <2>3. Cardinality(IkeIn(net')) \in Nat /\ Cardinality(IkeIn(net')) <= Cardinality(IkeIn(net))
    BY <2>1, CountRemoved
  <2>4. d.kind = "ike" => d \in net /\ Cardinality(IkeIn(net')) = Cardinality(IkeIn(net)) - 1
    <3>1. d.kind = "ike" => d \in net
      BY DEF Noise
    <3> QED BY <2>1, <3>1, CountRemoved
  <2>5. Holder' = Holder /\ Held = 0 /\ Held' = IF d.kind = "ike" THEN 1 ELSE 0
    BY <2>1, <2>2 DEF Noise
  <2>6. /\ abandoned \in Nat /\ pushed \in Nat /\ Held \in Nat /\ Holder \in Nat
        /\ Cardinality(IkeIn(net)) \in Nat /\ Len(ikeCh) \in Nat /\ Accounted
    OBVIOUS
  <2> HIDE DEF NattInv, TransportType, Held, Holder
  <2> QED BY <2>2, <2>3, <2>4, <2>5, <2>6
<1>5. CASE LoopQueuesIke
  <2>1. Len(ikeCh') = Len(ikeCh) + 1
    BY <1>5 DEF LoopQueuesIke
  <2>4. Held = 1 /\ Held' = 0 /\ UNCHANGED <<net, ikeMu, abandoned, pushed>>
    BY <1>5 DEF LoopQueuesIke, Noise, exchangeVars, peerVars, historyVars
  <2>6. Holder' = Holder
    BY <2>4
  <2>5. /\ abandoned \in Nat /\ pushed \in Nat /\ Held \in Nat /\ Holder \in Nat
        /\ Cardinality(IkeIn(net)) \in Nat /\ Len(ikeCh) \in Nat /\ Accounted
    OBVIOUS
  <2> HIDE DEF NattInv, TransportType, Held, Holder
  <2> QED BY <2>1, <2>4, <2>5, <2>6
<1>6. CASE LoopQueuesEsp
  BY <1>6 DEF LoopQueuesEsp, Noise, exchangeVars, peerVars, historyVars
<1>7. CASE LoopFails
  BY <1>7 DEF LoopFails, exchangeVars, peerVars, historyVars
<1>8. CASE LoopStops
  BY <1>8 DEF LoopStops, Noise, exchangeVars, peerVars, historyVars
<1>9. CASE ReadEsp
  BY <1>9 DEF ReadEsp, EnsureConn, exchangeVars, peerVars, historyVars
<1>10. CASE ReadEspOpens
  BY <1>10 DEF ReadEspOpens, EnsureConn, exchangeVars, peerVars, historyVars
<1>11. CASE ReadEspFails
  BY <1>11 DEF ReadEspFails, socketVars, peerVars, historyVars
<1>12. CASE ReadEspCancelled
  BY <1>12 DEF ReadEspCancelled, socketVars, peerVars, historyVars
<1>13. CASE CloseTransport
  BY <1>13 DEF CloseTransport, exchangeVars, peerVars, historyVars
<1>14. ASSUME NEW t \in Threads, ExchangeStart(t)  PROVE Accounted'
  BY <1>14 DEF ExchangeStart, socketVars, peerVars
<1>15. ASSUME NEW t \in Threads, ExchangeWrites(t)  PROVE Accounted'
  <2> DEFINE d == [kind |-> "ike", id |-> request[t]]
  <2>1. net' = net \/ net' = net \cup {d}
    BY <1>15 DEF ExchangeWrites
  <2> HIDE DEF d
  <2>2. Cardinality(IkeIn(net')) \in Nat /\ Cardinality(IkeIn(net')) <= Cardinality(IkeIn(net)) + 1
    <3>1. CASE net' = net
      BY <3>1
    <3>2. CASE net' = net \cup {d}
      BY <3>2, CountAdded
    <3> QED BY <2>1, <3>1, <3>2
  <2>3. ikeMu = NoThread /\ ikeMu' # NoThread /\ UNCHANGED <<ikeCh, held, abandoned, pushed>>
    BY <1>15, ThreadsAssumption DEF ExchangeWrites, historyVars
  <2>4. Holder = 0 /\ Holder' = 1 /\ Held' = Held
    BY <2>3
  <2>5. /\ abandoned \in Nat /\ pushed \in Nat /\ Held \in Nat /\ Holder \in Nat
        /\ Cardinality(IkeIn(net)) \in Nat /\ Len(ikeCh) \in Nat /\ Accounted
    OBVIOUS
  <2> HIDE DEF NattInv, TransportType, Held, Holder
  <2> QED BY <2>2, <2>3, <2>4, <2>5
<1>16. ASSUME NEW t \in Threads, ExchangeRefused(t)  PROVE Accounted'
  BY <1>16 DEF ExchangeRefused, socketVars, peerVars, historyVars
<1>17. ASSUME NEW t \in Threads, ExchangeTakes(t)  PROVE Accounted'
  <2>1. Len(ikeCh') = Len(ikeCh) - 1
    BY <1>17 DEF ExchangeTakes
  <2>2. ikeMu # NoThread /\ ikeMu' = NoThread /\ UNCHANGED <<net, held, abandoned, pushed>>
    BY <1>17, ThreadsAssumption DEF ExchangeTakes, ExchangeReturns, MuInv, peerVars
  <2>4. Holder = 1 /\ Holder' = 0 /\ Held' = Held
    BY <2>2
  <2>5. /\ abandoned \in Nat /\ pushed \in Nat /\ Held \in Nat /\ Holder \in Nat
        /\ Cardinality(IkeIn(net)) \in Nat /\ Len(ikeCh) \in Nat /\ Accounted
    OBVIOUS
  <2> HIDE DEF NattInv, TransportType, Held, Holder
  <2> QED BY <2>1, <2>2, <2>4, <2>5
<1>18. ASSUME NEW t \in Threads, ExchangeAbandoned(t)  PROVE Accounted'
  <2>1. ikeMu # NoThread /\ ikeMu' = NoThread /\ UNCHANGED <<net, ikeCh, held, pushed>>
    BY <1>18, ThreadsAssumption DEF ExchangeAbandoned, ExchangeReturns, MuInv, socketVars,
          peerVars
  <2>2. abandoned' = abandoned + 1
    BY <1>18 DEF ExchangeAbandoned
  <2>4. Holder = 1 /\ Holder' = 0 /\ Held' = Held
    BY <2>1
  <2>5. /\ abandoned \in Nat /\ pushed \in Nat /\ Held \in Nat /\ Holder \in Nat
        /\ Cardinality(IkeIn(net)) \in Nat /\ Len(ikeCh) \in Nat /\ Accounted
    OBVIOUS
  <2> HIDE DEF NattInv, TransportType, Held, Holder
  <2> QED BY <2>1, <2>2, <2>4, <2>5
<1>19. CASE UNCHANGED nattVars
  BY <1>19 DEF nattVars, socketVars, exchangeVars, peerVars, historyVars
<1> QED BY <1>1, <1>2, <1>3, <1>4, <1>5, <1>6, <1>7, <1>8, <1>9, <1>10, <1>11, <1>12, <1>13,
        <1>14, <1>15, <1>16, <1>17, <1>18, <1>19 DEF NattNext, Loop, Exchange

\* When the one exchange that waits has taken its answer nothing is left.
LEMMA NothingLeft ==
  ASSUME NEW S, IsFiniteSet(S), NEW ch \in Seq(Wire), NEW h,
         Cardinality(IkeIn(S)) + Len(ch) + (IF h.kind = "ike" THEN 1 ELSE 0) <= 0
  PROVE  (\A d \in S : d.kind # "ike") /\ ch = <<>> /\ h.kind # "ike"
<1>1. IsFiniteSet(IkeIn(S)) /\ Cardinality(IkeIn(S)) \in Nat
  BY FS_Subset, FS_CardinalityType DEF IkeIn
<1>2. Cardinality(IkeIn(S)) = 0 /\ Len(ch) = 0 /\ h.kind # "ike"
  BY <1>1
<1>3. IkeIn(S) = {}
  BY <1>1, <1>2, FS_EmptySet
<1> QED BY <1>2, <1>3 DEF IkeIn

\* An answer belongs to the exchange that waits.
LEMMA OwnStep == NattInv /\ [NattNext]_nattVars => OwnInv'
<1> SUFFICES ASSUME NattInv, [NattNext]_nattVars
             PROVE  OwnInv'
  OBVIOUS
<1> USE NattBoundsAssumption DEF NattInv, TransportType, OwnInv, Own, Noise
<1>1. CASE PeerSendsEsp
  BY <1>1 DEF PeerSendsEsp, socketVars, exchangeVars, historyVars
<1>2. CASE PeerSendsIke
  BY <1>2 DEF PeerSendsIke, socketVars, exchangeVars, historyVars
<1>3. CASE NetworkLoses
  BY <1>3 DEF NetworkLoses, socketVars, exchangeVars, historyVars
<1>4. CASE LoopReads
  BY <1>4 DEF LoopReads, exchangeVars, historyVars
<1>5. CASE LoopQueuesIke
  BY <1>5 DEF LoopQueuesIke, exchangeVars, peerVars, historyVars
<1>6. CASE LoopQueuesEsp
  BY <1>6 DEF LoopQueuesEsp, exchangeVars, peerVars, historyVars
<1>7. CASE LoopFails
  BY <1>7 DEF LoopFails, exchangeVars, peerVars, historyVars
<1>8. CASE LoopStops
  BY <1>8 DEF LoopStops, exchangeVars, peerVars, historyVars
<1>9. CASE ReadEsp
  BY <1>9 DEF ReadEsp, EnsureConn, exchangeVars, peerVars, historyVars
<1>10. CASE ReadEspOpens
  BY <1>10 DEF ReadEspOpens, EnsureConn, exchangeVars, peerVars, historyVars
<1>11. CASE ReadEspFails
  BY <1>11 DEF ReadEspFails, socketVars, peerVars, historyVars
<1>12. CASE ReadEspCancelled
  BY <1>12 DEF ReadEspCancelled, socketVars, peerVars, historyVars
<1>13. CASE CloseTransport
  BY <1>13 DEF CloseTransport, exchangeVars, peerVars, historyVars
<1>14. ASSUME NEW t \in Threads, ExchangeStart(t)  PROVE OwnInv'
  <2>1. ikeMu # t /\ UNCHANGED <<net, ikeCh, held, ikeMu, abandoned, pushed, skewed>>
    BY <1>14, ThreadsAssumption DEF ExchangeStart, MuInv, socketVars, peerVars
  <2>2. ikeMu # NoThread => request'[ikeMu] = request[ikeMu]
    BY <1>14, <2>1 DEF ExchangeStart
  <2> QED BY <2>1, <2>2
<1>15. ASSUME NEW t \in Threads, ExchangeWrites(t)  PROVE OwnInv'
  <2> SUFFICES ASSUME abandoned + pushed = 0
               PROVE  /\ ~ skewed
                      /\ \A d \in net' : d.kind = "ike" => d.id = request[t]
                      /\ ikeCh = <<>> /\ held.kind # "ike"
    BY <1>15, ThreadsAssumption DEF ExchangeWrites, historyVars
  <2>1. (\A d \in net : d.kind # "ike") /\ ikeCh = <<>> /\ held.kind # "ike"
    <3>1. Cardinality(IkeIn(net)) + Len(ikeCh) + (IF held.kind = "ike" THEN 1 ELSE 0) <= 0
      BY <1>15 DEF ExchangeWrites, Accounted, Held, Holder
    <3> QED BY <3>1, NothingLeft
  <2> QED BY <1>15, <2>1 DEF ExchangeWrites
<1>16. ASSUME NEW t \in Threads, ExchangeRefused(t)  PROVE OwnInv'
  BY <1>16 DEF ExchangeRefused, socketVars, peerVars, historyVars
<1>17. ASSUME NEW t \in Threads, ExchangeTakes(t)  PROVE OwnInv'
  <2> SUFFICES ASSUME abandoned' + pushed' = 0
               PROVE  /\ ~ skewed'
                      /\ \A d \in net' : d.kind # "ike"
                      /\ ikeCh' = <<>> /\ held'.kind # "ike"
    BY DEF OwnInv
  <2>1. ikeMu' = NoThread /\ abandoned + pushed = 0
    BY <1>17 DEF ExchangeTakes, ExchangeReturns, peerVars
  <2>2. TransportType' /\ Accounted'
    BY TypeStep, AccountStep
  <2>3. (\A d \in net' : d.kind # "ike") /\ ikeCh' = <<>> /\ held'.kind # "ike"
    <3>1. Cardinality(IkeIn(net')) + Len(ikeCh') + (IF held'.kind = "ike" THEN 1 ELSE 0) <= 0
      <4>0. Holder' = 0
        BY <2>1 DEF Holder
      <4>1. abandoned' + pushed' + Holder' = 0
        <5> HIDE DEF NattInv
        <5> QED BY <4>0
      <4>2. Cardinality(IkeIn(net')) + Len(ikeCh') + Held' <= 0
        BY <2>2, <4>1 DEF Accounted
      <4> QED BY <4>2 DEF Held
    <3> QED BY <2>2, <3>1, NothingLeft
  <2>4. ikeMu = t /\ Head(ikeCh).id = request[t]
    BY <1>17, <2>1 DEF ExchangeTakes, MuInv
  <2>5. ~ skewed'
    BY <1>17, <2>1, <2>4 DEF ExchangeTakes
  <2> QED BY <2>3, <2>5
<1>18. ASSUME NEW t \in Threads, ExchangeAbandoned(t)  PROVE OwnInv'
  BY <1>18 DEF ExchangeAbandoned, ExchangeReturns, socketVars, peerVars
<1>19. CASE UNCHANGED nattVars
  BY <1>19 DEF nattVars, socketVars, exchangeVars, peerVars, historyVars
<1> QED BY <1>1, <1>2, <1>3, <1>4, <1>5, <1>6, <1>7, <1>8, <1>9, <1>10, <1>11, <1>12, <1>13,
        <1>14, <1>15, <1>16, <1>17, <1>18, <1>19 DEF NattNext, Loop, Exchange

\* The invariant holds for the life of the transport.
LEMMA NattInvariance == NattSpec => []NattInv
<1>1. NattInv /\ [NattNext]_nattVars => NattInv'
  BY TypeStep, LoopStep, MuStep, AccountStep, OwnStep DEF NattInv
<1> QED BY <1>1, InitNatt, PTL DEF NattSpec

-----------------------------------------------------------------------------
\* Whatever the threads, the capacities of the channels and the network do: an
\* exchange ends with another one's datagram only after an exchange was given up or
\* the ePDG sent a request of its own, and an IKE datagram nobody waits for is one
\* of those.
THEOREM AnswersMatched == NattSpec => []ExchangesMatched
<1>1. NattInv => StaleDatagramsAccounted
  BY OneWaits DEF NattInv, Accounted, IkeIn, Held, Waiting, StaleDatagramsAccounted, IkePending
<1>2. NattInv => AnswersMatch
  BY DEF NattInv, TransportType, OwnInv, AnswersMatch
<1>3. NattInv => ExchangesMatched
  BY <1>1, <1>2 DEF ExchangesMatched
<1> QED BY <1>3, NattInvariance, PTL
=============================================================================

-------------------------- MODULE MaintenanceProofs --------------------------
(***************************************************************************)
(* Proofs about what keeps a tunnel alive.  The packet pump: what holds when*)
(* Wait returns, and that its two workers never rekey twice for the same due*)
(* time.  The liveness timers: a driver that sleeps until NextDue keeps their*)
(* promises for every interval, timeout and probe budget.                  *)
(***************************************************************************)
EXTENDS PacketPump, IkeLiveness, TLAPS

-----------------------------------------------------------------------------
(* The packet pump.                                                        *)

\* A worker that rekeys holds maintenanceMu; it took the lock when the timer had
\* expired, and until the host rekeys nobody else sets the timer back.
RekeyInv ==
  /\ \A w \in Workers : pc[w] = "rekey" => maintenance = w
  /\ hostRekeys = 0 => host = Never
  /\ hostRekeys = 0 =>
       \A w \in Workers : pc[w] = "rekey" => at[w] >= establishedAt + (Lifetime - LeadTime)

\* What closeOnContext and Close have closed stays closed.
CloseInv ==
  /\ \A c \in Closers : closing[c] # "idle" => cancelled
  /\ \A c \in Closers : closing[c] \in {"session", "delete", "wait", "done"} => device = "closed"
  /\ \A c \in Closers : closing[c] \in {"delete", "wait", "done"} => session # "open"
  /\ done => closing["watcher"] = "wait" /\ \A w \in Workers : pc[w] = "stopped"

PumpInv == PumpTypeOK /\ RekeyInv /\ CloseInv
-----------------------------------------------------------------------------
(* The invariant, conjunct by conjunct.                                    *)

\* The pump starts just after the session was established.
LEMMA InitPump == PumpInit => PumpInv
<1> SUFFICES ASSUME PumpInit  PROVE PumpInv
  OBVIOUS
<1> USE PolicyAssumption, PumpBoundsAssumption DEF PumpInit
<1>1. PumpTypeOK
  <2>1. /\ pc \in [Workers -> Places] /\ at \in [Workers -> 0 .. clock]
        /\ closing \in [Closers -> {"idle", "device", "session", "delete", "wait", "done"}]
    BY DEF Places
  <2>2. /\ clock \in 0 .. MaxClock /\ establishedAt \in 0 .. clock
        /\ host \in 0 .. clock \cup {Never} /\ hostRekeys \in 0 .. MaxHostRekeys
    OBVIOUS
  <2>3. cancelled \in BOOLEAN /\ done \in BOOLEAN /\ err \in Errors
    BY DEF Errors
  <2> QED BY <2>1, <2>2, <2>3 DEF PumpTypeOK
<1>2. RekeyInv /\ CloseInv
  BY DEF RekeyInv, CloseInv, Workers, Closers
<1> QED BY <1>1, <1>2 DEF PumpInv

\* Every step keeps the types; a rekey is recorded with a time that has passed.
LEMMA PumpTypeStep == PumpInv /\ [PumpNext]_pumpVars => PumpTypeOK'
<1> SUFFICES ASSUME PumpInv, [PumpNext]_pumpVars
             PROVE  PumpTypeOK'
  OBVIOUS
<1> USE PolicyAssumption, PumpBoundsAssumption DEF PumpInv, PumpTypeOK, Places, Errors,
        Workers, Closers, Nobody, Never
<1>1. CASE ClockTicks
  BY <1>1 DEF ClockTicks, stopVars, workVars, hostVars
<1>2. CASE HostRekeyStarts
  BY <1>2 DEF HostRekeyStarts, timerVars, stopVars, workVars
<1>3. CASE HostRekeyEnds
  BY <1>3 DEF HostRekeyEnds, RecordRekeyAt, stopVars, workVars
<1>4. CASE CloseReturns
  BY <1>4 DEF CloseReturns, timerVars, workVars, hostVars
<1>5. CASE WaitGroup
  BY <1>5 DEF WaitGroup, timerVars, workVars, hostVars
<1>6. ASSUME NEW c \in Closers, CloseStarts(c)  PROVE PumpTypeOK'
  BY <1>6 DEF CloseStarts, timerVars, workVars, hostVars
<1>7. ASSUME NEW c \in Closers, CloseDevice(c)  PROVE PumpTypeOK'
  BY <1>7 DEF CloseDevice, timerVars, workVars, hostVars
<1>8. ASSUME NEW c \in Closers, CloseSession(c)  PROVE PumpTypeOK'
  BY <1>8 DEF CloseSession, timerVars, workVars, hostVars
<1>9. ASSUME NEW c \in Closers, CloseSessionDone(c)  PROVE PumpTypeOK'
  BY <1>9 DEF CloseSessionDone, timerVars, workVars, hostVars
<1>10. ASSUME NEW w \in Workers, ReadPacket(w)  PROVE PumpTypeOK'
  BY <1>10 DEF ReadPacket, Goto, timerVars, stopVars, hostVars
<1>11. ASSUME NEW w \in Workers, ReadStops(w)  PROVE PumpTypeOK'
  BY <1>11 DEF ReadStops, Goto, StopNormally, timerVars, hostVars
<1>12. ASSUME NEW w \in Workers, ReadFails(w)  PROVE PumpTypeOK'
  BY <1>12 DEF ReadFails, Goto, StopWithError, RecordError, SourceError, timerVars, hostVars
<1>13. ASSUME NEW w \in Workers, WritePacket(w)  PROVE PumpTypeOK'
  BY <1>13 DEF WritePacket, Goto, timerVars, stopVars, hostVars
<1>14. ASSUME NEW w \in Workers, WriteStops(w)  PROVE PumpTypeOK'
  BY <1>14 DEF WriteStops, Goto, StopNormally, timerVars, hostVars
<1>15. ASSUME NEW w \in Workers, WriteFails(w)  PROVE PumpTypeOK'
  BY <1>15 DEF WriteFails, Goto, StopWithError, RecordError, SinkError, timerVars, hostVars
<1>16. ASSUME NEW w \in Workers, CheckDue(w)  PROVE PumpTypeOK'
  BY <1>16 DEF CheckDue, Goto, AfterRekey, timerVars, stopVars, hostVars
<1>17. ASSUME NEW w \in Workers, LockMaintenance(w)  PROVE PumpTypeOK'
  BY <1>17 DEF LockMaintenance, Goto, AfterRekey, RekeyIsDue, timerVars, stopVars, hostVars
<1>18. ASSUME NEW w \in Workers, RekeySucceeds(w)  PROVE PumpTypeOK'
  BY <1>18 DEF RekeySucceeds, Goto, AfterRekey, RecordRekeyAt, Unlock, stopVars, hostVars
<1>19. ASSUME NEW w \in Workers, RekeyFails(w)  PROVE PumpTypeOK'
  BY <1>19 DEF RekeyFails, Goto, RecordError, Unlock, timerVars, hostVars
<1>20. CASE UNCHANGED pumpVars
  BY <1>20 DEF pumpVars, timerVars, stopVars, workVars, hostVars
<1> QED BY <1>1, <1>2, <1>3, <1>4, <1>5, <1>6, <1>7, <1>8, <1>9, <1>10, <1>11, <1>12, <1>13,
        <1>14, <1>15, <1>16, <1>17, <1>18, <1>19, <1>20 DEF PumpNext, HostRekey, Close, Work

\* The lock keeps the other worker from moving the timer under a rekey.
LEMMA PumpRekeyStep == PumpInv /\ [PumpNext]_pumpVars => RekeyInv'
<1> SUFFICES ASSUME PumpInv, [PumpNext]_pumpVars
             PROVE  RekeyInv'
  OBVIOUS
<1> USE PolicyAssumption, PumpBoundsAssumption DEF PumpInv, PumpTypeOK, RekeyInv, Workers,
        Nobody, Never
<1>1. CASE ClockTicks
  BY <1>1 DEF ClockTicks, stopVars, workVars, hostVars
<1>2. CASE HostRekeyStarts
  BY <1>2 DEF HostRekeyStarts, timerVars, stopVars, workVars
<1>3. CASE HostRekeyEnds
  BY <1>3 DEF HostRekeyEnds, RecordRekeyAt, stopVars, workVars
<1>4. CASE CloseReturns
  BY <1>4 DEF CloseReturns, timerVars, workVars, hostVars
<1>5. CASE WaitGroup
  BY <1>5 DEF WaitGroup, timerVars, workVars, hostVars
<1>6. ASSUME NEW c \in Closers, CloseStarts(c)  PROVE RekeyInv'
  BY <1>6 DEF CloseStarts, timerVars, workVars, hostVars
<1>7. ASSUME NEW c \in Closers, CloseDevice(c)  PROVE RekeyInv'
  BY <1>7 DEF CloseDevice, timerVars, workVars, hostVars
<1>8. ASSUME NEW c \in Closers, CloseSession(c)  PROVE RekeyInv'
  BY <1>8 DEF CloseSession, timerVars, workVars, hostVars
<1>9. ASSUME NEW c \in Closers, CloseSessionDone(c)  PROVE RekeyInv'
  BY <1>9 DEF CloseSessionDone, timerVars, workVars, hostVars
<1>10. ASSUME NEW w \in Workers, ReadPacket(w)  PROVE RekeyInv'
  BY <1>10 DEF ReadPacket, Goto, timerVars, stopVars, hostVars
<1>11. ASSUME NEW w \in Workers, ReadStops(w)  PROVE RekeyInv'
  BY <1>11 DEF ReadStops, Goto, StopNormally, timerVars, hostVars
<1>12. ASSUME NEW w \in Workers, ReadFails(w)  PROVE RekeyInv'
  BY <1>12 DEF ReadFails, Goto, StopWithError, RecordError, SourceError, timerVars, hostVars
<1>13. ASSUME NEW w \in Workers, WritePacket(w)  PROVE RekeyInv'
  BY <1>13 DEF WritePacket, Goto, timerVars, stopVars, hostVars
<1>14. ASSUME NEW w \in Workers, WriteStops(w)  PROVE RekeyInv'
  BY <1>14 DEF WriteStops, Goto, StopNormally, timerVars, hostVars
<1>15. ASSUME NEW w \in Workers, WriteFails(w)  PROVE RekeyInv'
  BY <1>15 DEF WriteFails, Goto, StopWithError, RecordError, SinkError, timerVars, hostVars
<1>16. ASSUME NEW w \in Workers, CheckDue(w)  PROVE RekeyInv'
  BY <1>16 DEF CheckDue, Goto, AfterRekey, timerVars, stopVars, hostVars
<1>17. ASSUME NEW w \in Workers, LockMaintenance(w)  PROVE RekeyInv'
  BY <1>17 DEF LockMaintenance, Goto, AfterRekey, RekeyIsDue, timerVars, stopVars, hostVars
<1>18. ASSUME NEW w \in Workers, RekeySucceeds(w)  PROVE RekeyInv'
  BY <1>18 DEF RekeySucceeds, Goto, AfterRekey, RecordRekeyAt, Unlock, stopVars, hostVars
<1>19. ASSUME NEW w \in Workers, RekeyFails(w)  PROVE RekeyInv'
  BY <1>19 DEF RekeyFails, Goto, RecordError, Unlock, timerVars, hostVars
<1>20. CASE UNCHANGED pumpVars
  BY <1>20 DEF pumpVars, timerVars, stopVars, workVars, hostVars
<1> QED BY <1>1, <1>2, <1>3, <1>4, <1>5, <1>6, <1>7, <1>8, <1>9, <1>10, <1>11, <1>12, <1>13,
        <1>14, <1>15, <1>16, <1>17, <1>18, <1>19, <1>20 DEF PumpNext, HostRekey, Close, Work

\* What is closed stays closed, and a worker that stopped does not come back.
LEMMA PumpCloseStep == PumpInv /\ [PumpNext]_pumpVars => CloseInv'
<1> SUFFICES ASSUME PumpInv, [PumpNext]_pumpVars
             PROVE  CloseInv'
  OBVIOUS
<1> USE DEF PumpInv, PumpTypeOK, CloseInv, Workers, Closers
<1>1. CASE ClockTicks
  BY <1>1 DEF ClockTicks, stopVars, workVars, hostVars
<1>2. CASE HostRekeyStarts
  BY <1>2 DEF HostRekeyStarts, timerVars, stopVars, workVars
<1>3. CASE HostRekeyEnds
  BY <1>3 DEF HostRekeyEnds, RecordRekeyAt, stopVars, workVars
<1>4. CASE CloseReturns
  BY <1>4 DEF CloseReturns, timerVars, workVars, hostVars
<1>5. CASE WaitGroup
  BY <1>5 DEF WaitGroup, timerVars, workVars, hostVars
<1>6. ASSUME NEW c \in Closers, CloseStarts(c)  PROVE CloseInv'
  BY <1>6 DEF CloseStarts, timerVars, workVars, hostVars
<1>7. ASSUME NEW c \in Closers, CloseDevice(c)  PROVE CloseInv'
  BY <1>7 DEF CloseDevice, timerVars, workVars, hostVars
<1>8. ASSUME NEW c \in Closers, CloseSession(c)  PROVE CloseInv'
  BY <1>8 DEF CloseSession, timerVars, workVars, hostVars
<1>9. ASSUME NEW c \in Closers, CloseSessionDone(c)  PROVE CloseInv'
  BY <1>9 DEF CloseSessionDone, timerVars, workVars, hostVars
<1>10. ASSUME NEW w \in Workers, ReadPacket(w)  PROVE CloseInv'
  BY <1>10 DEF ReadPacket, Goto, timerVars, stopVars, hostVars
<1>11. ASSUME NEW w \in Workers, ReadStops(w)  PROVE CloseInv'
  BY <1>11 DEF ReadStops, Goto, StopNormally, timerVars, hostVars
<1>12. ASSUME NEW w \in Workers, ReadFails(w)  PROVE CloseInv'
  BY <1>12 DEF ReadFails, Goto, StopWithError, RecordError, SourceError, timerVars, hostVars
<1>13. ASSUME NEW w \in Workers, WritePacket(w)  PROVE CloseInv'
  BY <1>13 DEF WritePacket, Goto, timerVars, stopVars, hostVars
<1>14. ASSUME NEW w \in Workers, WriteStops(w)  PROVE CloseInv'
  BY <1>14 DEF WriteStops, Goto, StopNormally, timerVars, hostVars
<1>15. ASSUME NEW w \in Workers, WriteFails(w)  PROVE CloseInv'
  BY <1>15 DEF WriteFails, Goto, StopWithError, RecordError, SinkError, timerVars, hostVars
<1>16. ASSUME NEW w \in Workers, CheckDue(w)  PROVE CloseInv'
  BY <1>16 DEF CheckDue, Goto, AfterRekey, timerVars, stopVars, hostVars
<1>17. ASSUME NEW w \in Workers, LockMaintenance(w)  PROVE CloseInv'
  BY <1>17 DEF LockMaintenance, Goto, AfterRekey, RekeyIsDue, timerVars, stopVars, hostVars
<1>18. ASSUME NEW w \in Workers, RekeySucceeds(w)  PROVE CloseInv'
  BY <1>18 DEF RekeySucceeds, Goto, AfterRekey, RecordRekeyAt, Unlock, stopVars, hostVars
<1>19. ASSUME NEW w \in Workers, RekeyFails(w)  PROVE CloseInv'
  BY <1>19 DEF RekeyFails, Goto, RecordError, Unlock, timerVars, hostVars
<1>20. CASE UNCHANGED pumpVars
  BY <1>20 DEF pumpVars, timerVars, stopVars, workVars, hostVars
<1> QED BY <1>1, <1>2, <1>3, <1>4, <1>5, <1>6, <1>7, <1>8, <1>9, <1>10, <1>11, <1>12, <1>13,
        <1>14, <1>15, <1>16, <1>17, <1>18, <1>19, <1>20 DEF PumpNext, HostRekey, Close, Work

\* The invariant holds for the life of the pump.
LEMMA PumpInvariance == PumpSpec => []PumpInv
<1>1. PumpInv /\ [PumpNext]_pumpVars => PumpInv'
  BY PumpTypeStep, PumpRekeyStep, PumpCloseStep DEF PumpInv
<1> QED BY <1>1, InitPump, PTL DEF PumpSpec

-----------------------------------------------------------------------------
\* When Wait returns both workers have stopped, the device is closed, the session
\* at least closing, and the context has ended.
THEOREM WaitMeansClosed == PumpSpec => []DoneMeansClosed
<1>1. PumpInv => DoneMeansClosed
  BY DEF PumpInv, CloseInv, DoneMeansClosed, Closers
<1> QED BY <1>1, PumpInvariance, PTL

\* Two successive rekeys of the pump are at least Lifetime - LeadTime apart, until
\* the host rekeys itself, although both workers see the timer expire.
THEOREM RekeysApart == PumpSpec => OneRekeyPerPeriod
<1> DEFINE Apart == hostRekeys > 0 \/ establishedAt' = establishedAt
                      \/ establishedAt' >= establishedAt + (Lifetime - LeadTime)
<1>1. PumpInv /\ [PumpNext]_pumpVars => [Apart]_pumpVars
  <2> SUFFICES ASSUME PumpInv, PumpNext  PROVE Apart
    BY DEF pumpVars
  <2> USE DEF PumpInv, PumpTypeOK, RekeyInv
  <2>1. CASE ClockTicks \/ CloseReturns \/ WaitGroup
    BY <2>1 DEF ClockTicks, CloseReturns, WaitGroup, timerVars
  <2>2. CASE HostRekey
    BY <2>2 DEF HostRekey, HostRekeyStarts, HostRekeyEnds, timerVars
  <2>3. ASSUME NEW c \in Closers, Close(c)  PROVE Apart
    BY <2>3 DEF Close, CloseStarts, CloseDevice, CloseSession, CloseSessionDone, timerVars
  <2>4. ASSUME NEW w \in Workers, RekeySucceeds(w)  PROVE Apart
    BY <2>4 DEF RekeySucceeds, RecordRekeyAt
  <2>5. ASSUME NEW w \in Workers, Work(w), ~ RekeySucceeds(w)  PROVE Apart
    BY <2>5 DEF Work, ReadPacket, ReadStops, ReadFails, WritePacket, WriteStops, WriteFails,
                CheckDue, LockMaintenance, RekeyFails, StopNormally, StopWithError, timerVars
  <2> QED BY <2>1, <2>2, <2>3, <2>4, <2>5 DEF PumpNext
<1> QED BY <1>1, PumpInvariance, PTL DEF PumpSpec, OneRekeyPerPeriod
-----------------------------------------------------------------------------
(* The liveness timers.                                                    *)

\* A probe is counted when its exchange fails and again when its deadline passes.
\* While one is outstanding, 2k or 2k + 1 are therefore counted, k full timeouts
\* after the interval.
Counted(k) ==
  /\ missedDPDProbes = IF probing THEN 2 * k ELSE 2 * k + 1
  /\ lastDPDProbe = lastInbound + DPDInterval + k * DPDTimeout

ProbeInv ==
  /\ lastInbound <= now /\ lastDPDProbe <= lastOutbound /\ lastOutbound <= now
  /\ outstandingDPD \/ probing => DPDEnabled
  /\ dead => outstandingDPD /\ ~ probing
  /\ ~ outstandingDPD => missedDPDProbes = 0 /\ lastDPDProbe <= lastInbound
  /\ outstandingDPD /\ ~ dead => missedDPDProbes < MaxMissedDPDProbes /\ \E k \in Nat : Counted(k)

\* The driver is never late, and sleeps neither past the next probe nor past the
\* next keepalive.
DueInv ==
  /\ DPDEnabled /\ ~ dead => now <= DPDDue /\ wake <= DPDDue
  /\ dead => wake <= now \/ wake <= DPDDue
  /\ KeepaliveEnabled /\ DPDTimeout <= KeepaliveInterval => wake <= now \/ wake <= KeepaliveDue

LiveInv == LiveTypeOK /\ ProbeInv /\ DueInv /\ DeadOnlyAfterSilence
-----------------------------------------------------------------------------
(* Arithmetic.                                                             *)

\* One more timeout.
LEMMA OneMore ==
  ASSUME NEW k \in Nat, NEW t \in Nat
  PROVE  k * t \in Nat /\ (k + 1) * t = k * t + t
OBVIOUS

\* More timeouts take longer.
LEMMA Longer ==
  ASSUME NEW a \in Nat, NEW b \in Nat, NEW t \in Nat, a <= b
  PROVE  a * t \in Nat /\ b * t \in Nat /\ a * t <= b * t
OBVIOUS

\* A deadline no longer than the keepalive interval, after a probe that was sent no
\* later than the last packet.
LEMMA Sooner ==
  ASSUME NEW due \in Nat, NEW time \in Nat, NEW probe \in Nat, NEW sent \in Nat,
         NEW t \in Nat, NEW interval \in Nat,
         due = time \/ due <= probe + t, probe <= sent, t <= interval
  PROVE  due <= time \/ due <= sent + interval
OBVIOUS

-----------------------------------------------------------------------------
(* The instant Advance returns.                                            *)

\* After a probe was sent the driver wakes at its deadline, whatever the keepalive.
LEMMA WakeAfterProbe ==
  ASSUME LiveTypeOK, SendDPD, DPDEnabled, UNCHANGED now
  PROVE  NextDue' = now + DPDTimeout
BY ConfigAssumption DEF LiveTypeOK, SendDPD, NextDue, DPDDue, KeepaliveDue, Greater, Lesser

\* In general it wakes now, or no later than the next probe and, unless a probe is
\* outstanding, than the next keepalive.
LEMMA WakeBounds ==
  ASSUME now' \in Nat, lastInbound' \in Nat, lastOutbound' \in Nat, lastDPDProbe' \in Nat,
         outstandingDPD' \in BOOLEAN
  PROVE  /\ NextDue' \in Nat
         /\ DPDEnabled => NextDue' = now' \/ NextDue' <= DPDDue'
         /\ KeepaliveEnabled /\ ~ outstandingDPD' => NextDue' = now' \/ NextDue' <= KeepaliveDue'
         /\ outstandingDPD' /\ DPDEnabled =>
              NextDue' = now' \/ NextDue' <= lastDPDProbe' + DPDTimeout
BY ConfigAssumption DEF NextDue, DPDDue, KeepaliveDue, Greater, Lesser

-----------------------------------------------------------------------------
(* The invariant.                                                          *)

\* A session starts with the peer just heard.
LEMMA InitLive == LiveInit => LiveInv
<1> SUFFICES ASSUME LiveInit  PROVE LiveInv
  OBVIOUS
<1> USE ConfigAssumption DEF LiveInit
<1>1. LiveTypeOK
  <2>1. missedDPDProbes \in 0 .. MaxMissedDPDProbes
    OBVIOUS
  <2> QED BY <2>1 DEF LiveTypeOK
<1>2. ProbeInv
  BY DEF ProbeInv
<1>3. DueInv
  BY DEF DueInv, DPDDue, KeepaliveDue
<1>4. DeadOnlyAfterSilence
  BY DEF DeadOnlyAfterSilence
<1> QED BY <1>1, <1>2, <1>3, <1>4 DEF LiveInv

\* A probe is sent at the very moment it is due: the first one when the interval is
\* over, the next one a timeout after the last.
LEMMA FirstProbeStep ==
  ASSUME LiveInv, Advance, AdvanceFirstProbe
  PROVE  LiveInv'
<1> USE ConfigAssumption DEF LiveInv, AdvanceFirstProbe, SendDPD, DPDDueNow
<1>1. now' = now /\ wake' = now + DPDTimeout
  BY WakeAfterProbe DEF Advance
<1>2. LiveTypeOK'
  BY <1>1 DEF LiveTypeOK
<1>3. now = lastInbound + DPDInterval
  BY DEF LiveTypeOK, DueInv, DPDDue
<1>4. Counted(0)'
  BY <1>1, <1>3 DEF Counted, LiveTypeOK, ProbeInv
<1>5. ProbeInv'
  BY <1>1, <1>4 DEF ProbeInv, LiveTypeOK
<1>6. DueInv'
  BY <1>1 DEF DueInv, DPDDue, KeepaliveDue, LiveTypeOK
<1>7. DeadOnlyAfterSilence'
  BY DEF DeadOnlyAfterSilence, LiveTypeOK
<1> QED BY <1>2, <1>5, <1>6, <1>7

LEMMA RetryProbeStep ==
  ASSUME LiveInv, Advance, AdvanceRetryProbe
  PROVE  LiveInv'
<1> USE ConfigAssumption DEF LiveInv, AdvanceRetryProbe, SendDPD, DPDDueNow
<1>1. now' = now /\ wake' = now + DPDTimeout /\ ~ probing
  BY WakeAfterProbe DEF Advance
<1>2. LiveTypeOK'
  BY <1>1 DEF LiveTypeOK
<1>3. now = lastDPDProbe + DPDTimeout
  BY DEF LiveTypeOK, DueInv, DPDDue
<1>4. PICK k \in Nat : Counted(k)
  BY DEF ProbeInv
<1>5. Counted(k + 1)'
  BY <1>1, <1>3, <1>4, OneMore DEF Counted, LiveTypeOK
<1>6. \E n \in Nat : Counted(n)'
  BY <1>5
<1>7. ProbeInv'
  BY <1>1, <1>6 DEF ProbeInv, LiveTypeOK
<1>8. DueInv'
  BY <1>1 DEF DueInv, DPDDue, KeepaliveDue, LiveTypeOK
<1>9. DeadOnlyAfterSilence'
  BY DEF DeadOnlyAfterSilence, LiveTypeOK
<1> QED BY <1>2, <1>7, <1>8, <1>9

\* A deadline that passes with the budget exhausted: 2k + 2 are counted by then.
LEMMA DeclareDeadStep ==
  ASSUME LiveInv, Advance, AdvanceDeclareDead
  PROVE  LiveInv'
<1> USE ConfigAssumption DEF LiveInv, AdvanceDeclareDead, DPDDueNow
<1>1. now' = now /\ wake' = NextDue' /\ ~ probing
  BY DEF Advance
<1>2. missedDPDProbes < MaxMissedDPDProbes
  BY DEF ProbeInv
<1>3. wake' \in Nat /\ (wake' = now \/ wake' <= lastDPDProbe + DPDTimeout)
  BY <1>1, WakeBounds DEF LiveTypeOK
<1>4. LiveTypeOK'
  BY <1>1, <1>2, <1>3 DEF LiveTypeOK
<1>5. ProbeInv'
  BY <1>1 DEF ProbeInv
<1>6. now = lastDPDProbe + DPDTimeout
  BY DEF LiveTypeOK, DueInv, DPDDue
<1>7. DueInv'
  BY <1>1, <1>3, <1>6 DEF DueInv, DPDDue, LiveTypeOK
<1>8. PICK k \in Nat : Counted(k)
  BY DEF ProbeInv
<1>9. (MaxMissedDPDProbes \div 2) \in Nat /\ MaxMissedDPDProbes \div 2 <= k + 1
  BY <1>1, <1>2, <1>8 DEF Counted, LiveTypeOK
<1>10. now - lastInbound = DPDInterval + (k + 1) * DPDTimeout
  BY <1>6, <1>8, OneMore DEF Counted, LiveTypeOK
<1>11. DeadOnlyAfterSilence'
  BY <1>1, <1>9, <1>10, Longer DEF DeadOnlyAfterSilence, LiveTypeOK
<1> QED BY <1>4, <1>5, <1>7, <1>11

\* Neither changes what is counted.
LEMMA KeepaliveStep ==
  ASSUME LiveInv, Advance, AdvanceKeepalive \/ AdvanceNoAction
  PROVE  LiveInv'
<1> USE ConfigAssumption DEF LiveInv, AdvanceKeepalive, AdvanceNoAction, DPDDueNow
<1>1. now' = now /\ wake' = NextDue' /\ ~ probing
  BY DEF Advance
<1>2. /\ UNCHANGED <<lastInbound, lastDPDProbe, outstandingDPD, missedDPDProbes, dead, probing>>
      /\ lastOutbound' = now \/ lastOutbound' = lastOutbound
  OBVIOUS
<1>3. lastOutbound' \in Nat /\ lastOutbound <= lastOutbound' /\ lastOutbound' <= now
  BY <1>2 DEF LiveTypeOK, ProbeInv
<1>4. /\ wake' \in Nat
      /\ DPDEnabled => wake' = now \/ wake' <= DPDDue'
      /\ KeepaliveEnabled /\ ~ outstandingDPD => wake' = now \/ wake' <= KeepaliveDue'
      /\ outstandingDPD /\ DPDEnabled => wake' = now \/ wake' <= lastDPDProbe + DPDTimeout
  BY <1>1, <1>2, <1>3, WakeBounds DEF LiveTypeOK
<1>5. LiveTypeOK'
  BY <1>1, <1>2, <1>3, <1>4 DEF LiveTypeOK
<1>6. ProbeInv'
  BY <1>1, <1>2, <1>3 DEF ProbeInv, LiveTypeOK, Counted
<1>7. DueInv'
  <2>1. DPDEnabled /\ ~ dead => now <= DPDDue' /\ wake' <= DPDDue'
    BY <1>2, <1>4 DEF DPDDue, DueInv, LiveTypeOK
  <2>2. dead => wake' <= now \/ wake' <= DPDDue'
    BY <1>2, <1>4 DEF DPDDue, ProbeInv, LiveTypeOK
  <2>3. KeepaliveEnabled /\ DPDTimeout <= KeepaliveInterval => wake' <= now \/ wake' <= KeepaliveDue'
    <3>1. CASE outstandingDPD
      <4>1. DPDEnabled /\ lastDPDProbe <= lastOutbound
        BY <3>1 DEF ProbeInv
      <4>2. wake' = now \/ wake' <= lastDPDProbe + DPDTimeout
        BY <1>4, <3>1, <4>1
      <4>3. KeepaliveDue' = lastOutbound' + KeepaliveInterval
        BY DEF KeepaliveDue
      <4>4. /\ wake' \in Nat /\ now \in Nat /\ lastDPDProbe \in Nat /\ lastOutbound' \in Nat
            /\ lastDPDProbe <= lastOutbound'
        BY <1>3, <1>4, <4>1 DEF LiveTypeOK
      <4> QED BY <4>2, <4>3, <4>4, Sooner
    <3>2. CASE ~ outstandingDPD
      BY <1>4, <3>2
    <3> QED BY <3>1, <3>2
  <2> QED BY <1>1, <1>2, <2>1, <2>2, <2>3 DEF DueInv
<1>8. DeadOnlyAfterSilence'
  BY <1>1, <1>2 DEF DeadOnlyAfterSilence
<1> QED BY <1>5, <1>6, <1>7, <1>8

\* A failed exchange is counted while its probe is outstanding: 2k + 1.
LEMMA FailedProbeStep ==
  ASSUME LiveInv, probing, probing' = FALSE, RecordFailure,
         UNCHANGED <<lastInbound, outstandingDPD, now, lastOutbound, lastDPDProbe, wake>>
  PROVE  LiveInv'
<1> USE ConfigAssumption DEF LiveInv
<1>1. ~ dead
  BY DEF ProbeInv
<1>2. CASE ~ outstandingDPD
  <2>1. UNCHANGED <<missedDPDProbes, dead>>
    BY <1>2 DEF RecordFailure
  <2>2. LiveTypeOK'
    BY <2>1 DEF LiveTypeOK
  <2>3. ProbeInv'
    BY <1>2, <2>1 DEF ProbeInv, LiveTypeOK
  <2>4. DueInv'
    BY <2>1 DEF DueInv, DPDDue, KeepaliveDue
  <2> QED BY <1>1, <2>1, <2>2, <2>3, <2>4 DEF DeadOnlyAfterSilence
<1>3. CASE outstandingDPD
  <2>1. /\ missedDPDProbes' = missedDPDProbes + 1
        /\ dead' = (missedDPDProbes + 1 >= MaxMissedDPDProbes)
    BY <1>1, <1>3 DEF RecordFailure
  <2>2. PICK k \in Nat : Counted(k)
    BY <1>1, <1>3 DEF ProbeInv
  <2>3. Counted(k)'
    BY <2>1, <2>2 DEF Counted, LiveTypeOK
  <2>4. missedDPDProbes < MaxMissedDPDProbes
    BY <1>1, <1>3 DEF ProbeInv
  <2>5. LiveTypeOK'
    <3>1. missedDPDProbes' \in 0 .. MaxMissedDPDProbes
      BY <2>1, <2>4 DEF LiveTypeOK
    <3>2. dead' \in BOOLEAN
      BY <2>1
    <3> QED BY <3>1, <3>2 DEF LiveTypeOK
  <2>6. ProbeInv'
    <3>1. ~ dead' => missedDPDProbes' < MaxMissedDPDProbes
      <4>1. dead' <=> missedDPDProbes + 1 >= MaxMissedDPDProbes
        BY <2>1
      <4>2. missedDPDProbes \in Nat
        BY DEF LiveTypeOK
      <4> QED BY <2>1, <4>1, <4>2
    <3>2. \E n \in Nat : Counted(n)'
      BY <2>3
    <3> QED BY <1>3, <3>1, <3>2 DEF ProbeInv
  <2>7. DueInv'
    BY <1>1, <1>3, <2>1, <2>5 DEF DueInv, DPDDue, KeepaliveDue, ProbeInv, LiveTypeOK
  <2>8. DeadOnlyAfterSilence'
    <3> SUFFICES ASSUME missedDPDProbes + 1 >= MaxMissedDPDProbes
                 PROVE  now - lastInbound >= DPDInterval + (MaxMissedDPDProbes \div 2) * DPDTimeout
      BY <2>1 DEF DeadOnlyAfterSilence
    <3>1. MaxMissedDPDProbes \div 2 \in Nat /\ MaxMissedDPDProbes \div 2 <= k
      BY <2>2, <2>4 DEF Counted, LiveTypeOK
    <3>2. now - lastInbound >= DPDInterval + k * DPDTimeout
      BY <2>2, OneMore DEF Counted, ProbeInv, LiveTypeOK
    <3> QED BY <3>1, <3>2, Longer DEF LiveTypeOK
  <2> QED BY <2>5, <2>6, <2>7, <2>8
<1> QED BY <1>2, <1>3 DEF LiveTypeOK

\* An answer or a packet of the peer starts the interval again.
LEMMA InboundStep ==
  ASSUME LiveInv, NEW t, t = now \/ (t = lastDPDProbe /\ probing), RecordInbound(t),
         UNCHANGED <<now, lastOutbound, lastDPDProbe, wake>>,
         probing' \in BOOLEAN, probing' => probing
  PROVE  LiveInv'
<1> USE ConfigAssumption DEF LiveInv, RecordInbound
<1>1. /\ lastInbound' \in Nat /\ lastInbound <= lastInbound' /\ lastDPDProbe <= lastInbound'
      /\ lastInbound' <= now
  BY DEF Greater, LiveTypeOK, ProbeInv
<1>2. LiveTypeOK'
  <2>1. missedDPDProbes' \in 0 .. MaxMissedDPDProbes
    OBVIOUS
  <2> QED BY <1>1, <2>1 DEF LiveTypeOK
<1>3. ProbeInv'
  BY <1>1 DEF ProbeInv, LiveTypeOK
<1>4. DueInv'
  <2>1. ASSUME DPDEnabled  PROVE now <= DPDDue' /\ wake <= DPDDue'
    <3>1. DPDDue' = lastInbound' + DPDInterval
      BY DEF DPDDue
    <3>2. CASE dead
      BY <1>1, <2>1, <3>1, <3>2 DEF DueInv, DPDDue, LiveTypeOK, ProbeInv, Greater
    <3>3. CASE ~ dead
      BY <1>1, <2>1, <3>1, <3>3 DEF DueInv, DPDDue, LiveTypeOK, ProbeInv
    <3> QED BY <3>2, <3>3
  <2> QED BY <2>1 DEF DueInv, KeepaliveDue
<1>5. DeadOnlyAfterSilence'
  BY DEF DeadOnlyAfterSilence
<1> QED BY <1>2, <1>3, <1>4, <1>5

\* Time passes no further than the driver sleeps or the exchange lasts.
LEMMA TickStep ==
  ASSUME LiveInv, Tick
  PROVE  LiveInv'
<1> USE ConfigAssumption DEF LiveInv, Tick
<1>1. LiveTypeOK'
  BY DEF LiveTypeOK
<1>2. ProbeInv'
  BY DEF ProbeInv, LiveTypeOK, Counted
<1>3. DueInv'
  BY DEF DueInv, DPDDue, KeepaliveDue, LiveTypeOK, ProbeInv
<1>4. DeadOnlyAfterSilence'
  BY DEF DeadOnlyAfterSilence, LiveTypeOK
<1> QED BY <1>1, <1>2, <1>3, <1>4

\* Traffic of our own only delays the keepalive.
LEMMA OutboundStep ==
  ASSUME LiveInv, Outbound
  PROVE  LiveInv'
<1> USE ConfigAssumption DEF LiveInv, Outbound
<1>1. LiveTypeOK'
  BY DEF LiveTypeOK
<1>2. ProbeInv'
  BY DEF ProbeInv, LiveTypeOK, Counted
<1>3. DueInv'
  BY DEF DueInv, DPDDue, KeepaliveDue, LiveTypeOK
<1>4. DeadOnlyAfterSilence'
  BY DEF DeadOnlyAfterSilence
<1> QED BY <1>1, <1>2, <1>3, <1>4

\* The invariant holds for the life of the IKE SA.
LEMMA LiveInvariance == LiveSpec => []LiveInv
<1>1. LiveInv /\ [LiveNext]_timersVars => LiveInv'
  <2> SUFFICES ASSUME LiveInv, [LiveNext]_timersVars  PROVE LiveInv'
    OBVIOUS
  <2>1. CASE Advance
    BY <2>1, FirstProbeStep, RetryProbeStep, DeclareDeadStep, KeepaliveStep DEF Advance
  <2>2. CASE ProbeReturns(TRUE)
    BY <2>2, InboundStep DEF ProbeReturns
  <2>3. CASE ProbeReturns(FALSE)
    BY <2>3, FailedProbeStep DEF ProbeReturns
  <2>4. CASE Inbound
    <3>1. probing' = probing /\ probing' \in BOOLEAN
      BY <2>4 DEF Inbound, LiveInv, LiveTypeOK
    <3> QED BY <2>4, <3>1, InboundStep DEF Inbound
  <2>5. CASE Outbound
    BY <2>5, OutboundStep
  <2>6. CASE Tick
    BY <2>6, TickStep
  <2>7. CASE UNCHANGED timersVars
    BY <2>7 DEF timersVars, LiveInv, LiveTypeOK, ProbeInv, Counted, DueInv, DPDDue, KeepaliveDue,
                DeadOnlyAfterSilence
  <2> QED BY <2>1, <2>2, <2>3, <2>4, <2>5, <2>6, <2>7 DEF LiveNext
<1> QED BY <1>1, InitLive, PTL DEF LiveSpec

-----------------------------------------------------------------------------
\* For every interval, timeout and probe budget: a driver that sleeps until NextDue
\* declares a silent peer dead no later than the interval and half the budget of
\* timeouts (rounded up) after it was last heard, never earlier than half of it
\* (rounded down), and keeps the NAT mapping warm in between.
THEOREM LivenessTimers == LiveSpec => []TimersKept
<1>1. LiveInv => SilenceDetected
  <2> SUFFICES ASSUME LiveInv, DPDEnabled, ~ dead
               PROVE  now - lastInbound <= DPDInterval
                                           + ((MaxMissedDPDProbes + 1) \div 2) * DPDTimeout
    BY DEF SilenceDetected
  <2> USE ConfigAssumption DEF LiveInv
  <2> DEFINE half == (MaxMissedDPDProbes + 1) \div 2
  <2>1. half \in Nat
    OBVIOUS
  <2>2. CASE ~ outstandingDPD
    <3>1. half * DPDTimeout \in Nat
      BY <2>1
    <3> QED BY <2>2, <3>1 DEF DueInv, DPDDue, LiveTypeOK
  <2>3. CASE outstandingDPD
    <3>1. PICK k \in Nat : Counted(k)
      BY <2>3 DEF ProbeInv
    <3>2. k + 1 <= half
      BY <2>3, <3>1 DEF Counted, ProbeInv, LiveTypeOK
    <3>3. now - lastInbound <= DPDInterval + (k + 1) * DPDTimeout
      BY <2>3, <3>1, OneMore DEF Counted, DueInv, DPDDue, LiveTypeOK
    <3>4. (k + 1) * DPDTimeout <= half * DPDTimeout /\ half * DPDTimeout \in Nat
          /\ (k + 1) * DPDTimeout \in Nat
      BY <2>1, <3>2, Longer
    <3> QED BY <3>3, <3>4 DEF LiveTypeOK
  <2> QED BY <2>2, <2>3 DEF LiveTypeOK
<1>2. LiveInv => MappingKeptWarm
  BY ConfigAssumption DEF LiveInv, LiveTypeOK, DueInv, KeepaliveDue, MappingKeptWarm
<1>3. LiveInv => TimersKept
  BY <1>1, <1>2 DEF LiveInv, TimersKept
<1> QED BY <1>3, LiveInvariance, PTL
=============================================================================

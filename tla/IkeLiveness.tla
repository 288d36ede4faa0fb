---------------------------- MODULE IkeLiveness -----------------------------
(***************************************************************************)
(* Dead peer detection and NAT keepalives of the IKE SA: IKELivenessState  *)
(* of engine/swu/ike_liveness.go, driven the way                           *)
(* PacketSession.AdvanceIKELiveness drives it.  One driver calls Advance,  *)
(* runs the decision it gets (a DPD probe is a blocking exchange) and      *)
(* sleeps until the NextDue of that decision; ESP traffic is recorded by   *)
(* other goroutines in the meantime.  Time is a counter of ticks.          *)
(***************************************************************************)
EXTENDS Integers

CONSTANTS KeepaliveInterval,   \* IKELivenessConfig, after normalisation
          DPDInterval,
          DPDTimeout,
          MaxMissedDPDProbes,
          KeepaliveEnabled,    \* not DisableKeepalive
          DPDEnabled,          \* not DisableDPD
          MaxTime              \* bound on the clock

\* What normalizeIKELivenessConfig accepts; zero values have been replaced by
\* the defaults (20 s, 60 s, 15 s, 3 probes).
ASSUME ConfigAssumption ==
  /\ KeepaliveInterval \in Nat \ {0}
  /\ DPDInterval \in Nat \ {0}
  /\ DPDTimeout \in Nat \ {0}
  /\ MaxMissedDPDProbes \in Nat \ {0}
  /\ KeepaliveEnabled \in BOOLEAN
  /\ DPDEnabled \in BOOLEAN
  /\ DPDEnabled => DPDTimeout <= DPDInterval
  /\ MaxTime \in Nat

VARIABLES
  now,             \* the clock
  lastInbound,     \* fields of IKELivenessState
  lastOutbound,
  lastDPDProbe,
  outstandingDPD,
  missedDPDProbes,
  dead,
  probing,         \* the driver is inside dpdHandler
  wake             \* NextDue of the driver's last decision

timersVars == <<now, lastInbound, lastOutbound, lastDPDProbe, outstandingDPD,
          missedDPDProbes, dead, probing, wake>>

LiveTypeOK ==
  /\ now \in Nat /\ lastInbound \in Nat /\ lastOutbound \in Nat
  /\ lastDPDProbe \in Nat /\ wake \in Nat
  /\ missedDPDProbes \in 0 .. MaxMissedDPDProbes
  /\ outstandingDPD \in BOOLEAN /\ dead \in BOOLEAN /\ probing \in BOOLEAN

LiveInit ==
  /\ now = 0 /\ lastInbound = 0 /\ lastOutbound = 0 /\ lastDPDProbe = 0
  /\ outstandingDPD = FALSE /\ missedDPDProbes = 0 /\ dead = FALSE
  /\ probing = FALSE /\ wake = 0

Lesser(a, b) == IF a < b THEN a ELSE b
Greater(a, b) == IF a < b THEN b ELSE a

-----------------------------------------------------------------------------
(* nextDue: the instant at which Advance has something to do again.        *)

DPDDue == IF outstandingDPD THEN lastDPDProbe + DPDTimeout
                            ELSE lastInbound + DPDInterval

KeepaliveDue == lastOutbound + KeepaliveInterval

NextDue ==
  LET keepalive == KeepaliveEnabled /\ ~ outstandingDPD
  IN  CASE DPDEnabled /\ keepalive   -> Greater(now, Lesser(DPDDue, KeepaliveDue))
        [] DPDEnabled /\ ~ keepalive -> Greater(now, DPDDue)
        [] ~ DPDEnabled /\ keepalive -> Greater(now, KeepaliveDue)
        [] OTHER                     -> now

-----------------------------------------------------------------------------
(* Advance.                                                                *)

SendDPD ==
  /\ outstandingDPD' = TRUE
  /\ lastDPDProbe' = now
  /\ lastOutbound' = now
  /\ probing' = TRUE
  /\ UNCHANGED <<lastInbound, dead>>

DPDDueNow == DPDEnabled /\ ~ dead /\ now >= DPDDue

\* The interval since the peer was last heard has passed: first probe.
AdvanceFirstProbe ==
  /\ DPDDueNow /\ ~ outstandingDPD
  /\ SendDPD
  /\ UNCHANGED missedDPDProbes

\* Mutant: a probe that timed out is not counted when the next one is sent.
AdvanceRetryProbe_NotCounted ==
  /\ DPDDueNow /\ outstandingDPD
  /\ missedDPDProbes + 1 < MaxMissedDPDProbes
  /\ UNCHANGED missedDPDProbes
  /\ SendDPD

\* A probe timed out and the budget is not exhausted: send the next one.
AdvanceRetryProbe ==
  /\ DPDDueNow /\ outstandingDPD
  /\ missedDPDProbes + 1 < MaxMissedDPDProbes
  /\ missedDPDProbes' = missedDPDProbes + 1
  /\ SendDPD

\* A probe timed out and the budget is exhausted: IKELivenessDeclareDead.
AdvanceDeclareDead ==
  /\ DPDDueNow /\ outstandingDPD
  /\ missedDPDProbes + 1 >= MaxMissedDPDProbes
  /\ missedDPDProbes' = missedDPDProbes + 1
  /\ dead' = TRUE
  /\ UNCHANGED <<lastInbound, lastOutbound, lastDPDProbe, outstandingDPD,
                 probing>>

AdvanceKeepalive ==
  /\ ~ dead /\ ~ DPDDueNow
  /\ KeepaliveEnabled /\ now >= KeepaliveDue
  /\ lastOutbound' = now
  /\ UNCHANGED <<lastInbound, lastDPDProbe, outstandingDPD, missedDPDProbes,
                 dead, probing>>

AdvanceNoAction ==
  /\ dead \/ (~ DPDDueNow /\ ~ (KeepaliveEnabled /\ now >= KeepaliveDue))
  /\ UNCHANGED <<lastInbound, lastOutbound, lastDPDProbe, outstandingDPD,
                 missedDPDProbes, dead, probing>>

\* AdvanceIKELiveness up to the point where the state lock is released.
Advance ==
  /\ ~ probing /\ now >= wake
  /\ \/ AdvanceFirstProbe
     \/ AdvanceRetryProbe
     \/ AdvanceDeclareDead
     \/ AdvanceKeepalive
     \/ AdvanceNoAction
  /\ UNCHANGED now
  /\ wake' = NextDue'

-----------------------------------------------------------------------------
(* Events recorded from outside.                                           *)

RecordInbound(at) ==
  /\ lastInbound' = Greater(lastInbound, at)
  /\ outstandingDPD' = FALSE
  /\ missedDPDProbes' = 0
  /\ dead' = FALSE

\* RecordLivenessResult(at, false): the probe is counted as missed, and stays
\* outstanding.
RecordFailure ==
  IF ~ outstandingDPD \/ dead
  THEN UNCHANGED <<missedDPDProbes, dead>>
  ELSE /\ missedDPDProbes' = missedDPDProbes + 1
       /\ dead' = (missedDPDProbes + 1 >= MaxMissedDPDProbes)

\* dpdHandler returns; the result is recorded with the time of the probe.
ProbeReturns(ok) ==
  /\ probing
  /\ probing' = FALSE
  /\ \/ ok /\ RecordInbound(lastDPDProbe)
     \/ /\ ~ ok /\ RecordFailure
        /\ UNCHANGED <<lastInbound, outstandingDPD>>
  /\ UNCHANGED <<now, lastOutbound, lastDPDProbe, wake>>

\* ReceiveESPPacket accepted a packet, or RecordIKELivenessInbound was called.
Inbound ==
  /\ RecordInbound(now)
  /\ UNCHANGED <<now, lastOutbound, lastDPDProbe, probing, wake>>

\* SendInnerPacket sent a packet, or RecordIKELivenessOutbound was called.
Outbound ==
  /\ lastOutbound < now
  /\ lastOutbound' = now
  /\ UNCHANGED <<now, lastInbound, lastDPDProbe, outstandingDPD,
                 missedDPDProbes, dead, probing, wake>>

\* Time passes.  The driver is punctual: it calls Advance when its sleep is
\* over, unless it has been told the peer is dead; and an exchange has ended
\* when the probe's deadline comes.
Tick ==
  /\ now < MaxTime
  /\ probing => now < lastDPDProbe + DPDTimeout
  /\ ~ probing => dead \/ now < wake
  /\ now' = now + 1
  /\ UNCHANGED <<lastInbound, lastOutbound, lastDPDProbe, outstandingDPD,
                 missedDPDProbes, dead, probing, wake>>

LiveNext == Advance \/ (\E ok \in BOOLEAN : ProbeReturns(ok))
          \/ Inbound \/ Outbound \/ Tick

LiveSpec == LiveInit /\ [][LiveNext]_timersVars

-----------------------------------------------------------------------------
(* Properties.                                                             *)

\* A peer is declared dead only after a silence that contains the DPD interval
\* and, because a probe can be counted once when its exchange fails and once
\* when its deadline passes, half of the probe budget in timeouts.
DeadOnlyAfterSilence ==
  dead => now - lastInbound >= DPDInterval
                               + (MaxMissedDPDProbes \div 2) * DPDTimeout

\* A driver that sleeps until NextDue notices a silent peer: while the peer is
\* thought alive no silence is longer than the interval and the timeouts of
\* half of the probe budget (rounded up), the same double count seen from above.
SilenceDetected ==
  DPDEnabled /\ ~ dead =>
    now - lastInbound <= DPDInterval
                         + ((MaxMissedDPDProbes + 1) \div 2) * DPDTimeout

\* A driver that sleeps until NextDue keeps the NAT mapping warm: between two
\* of its calls the line is never idle for longer than the keepalive interval,
\* although nextDue ignores the keepalive while a probe is outstanding.
MappingKeptWarm ==
  KeepaliveEnabled /\ DPDTimeout <= KeepaliveInterval /\ ~ dead /\ now < wake
    => now - lastOutbound < KeepaliveInterval

\* All three together: a silent peer is declared dead in time and not too early,
\* and until then the NAT mapping is kept.
TimersKept == SilenceDetected /\ DeadOnlyAfterSilence /\ MappingKeptWarm
=============================================================================

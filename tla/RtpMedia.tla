------------------------------ MODULE RtpMedia ------------------------------
(***************************************************************************)
(* The algorithms of the media relay: RTP reception statistics and their   *)
(* diagnosis (rtp_stream_stats.go, rtp_relay.go), telephone events         *)
(* (rtp_dtmf.go) and the SDES negotiation of SRTP keys (srtp_media.go,     *)
(* srtp_sdes_relay.go), all of runtimehost/voicehost.                      *)
(*                                                                         *)
(* SeqModulus stands for 2^16, MaxSamples for 65535.  Keys, crypto suites  *)
(* and signals are model values; a status is its rank.                     *)
(***************************************************************************)
EXTENDS Integers, Sequences, SequencesExt, FiniteSets

CONSTANTS SeqModulus, MaxSamples,
          defaultRTPDiagnosisMinExpectedPackets,
          DefaultRTPDTMFPayloadType, DefaultRTPDTMFClockRate

Half == SeqModulus \div 2

-----------------------------------------------------------------------------
(* Reception statistics of one SSRC.                                       *)

extendRTPSequence(maxSeq, seq) ==
  LET cycles == (maxSeq \div SeqModulus) * SeqModulus
      maxLow == maxSeq % SeqModulus
  IN cycles + seq +
     CASE seq < maxLow /\ maxLow - seq > Half -> SeqModulus
       [] seq > maxLow /\ seq - maxLow > Half /\ cycles >= SeqModulus -> -SeqModulus
       [] OTHER -> 0

\* fraction of 256, as in an RTCP report block.
rtpRelayFractionLost(lost, expected) ==
  IF lost = 0 \/ expected = 0 THEN 0
  ELSE LET f == (lost * 256) \div expected IN IF f > 255 THEN 255 ELSE f

newRTPStreamStatsState(seq) ==
  [base |-> seq, max |-> seq, seen |-> {seq}, packets |-> 1, expected |-> 1, lost |-> 0,
   duplicates |-> 0, outOfOrder |-> 0, fraction |-> 0]

recalculateLoss(s) ==
  LET expected == s.max - s.base + 1
      lost == IF expected > s.packets THEN expected - s.packets ELSE 0
  IN [s EXCEPT !.expected = expected, !.lost = lost,
               !.fraction = rtpRelayFractionLost(lost, expected)]

observe(s, low) ==
  LET seq == extendRTPSequence(s.max, low) IN
  IF seq \in s.seen THEN [s EXCEPT !.duplicates = @ + 1]
  ELSE LET t == [s EXCEPT !.seen = @ \cup {seq}, !.packets = @ + 1]
       IN recalculateLoss(IF seq > s.max THEN [t EXCEPT !.max = seq]
                          ELSE [t EXCEPT !.outOfOrder = @ + 1])

\* ObserveRTPPacket over the packets of a stream, given by the number each
\* would have without wrap-around.
Observed(stream) ==
  FoldLeft(LAMBDA s, n : observe(s, n % SeqModulus),
           newRTPStreamStatsState(stream[1] % SeqModulus), Tail(stream))

(* What a receiver that knew the unwrapped numbers would report, provided  *)
(* no packet precedes the first one received or is Half of the number      *)
(* space away from the highest.                                            *)
LossOf(stream) ==
  LET got == {stream[i] : i \in 1 .. Len(stream)}
      top(i) == CHOOSE m \in {stream[j] : j \in 1 .. i} : \A j \in 1 .. i : stream[j] <= m
      n == Len(stream)
  IN [packets |-> Cardinality(got),
      lost |-> Cardinality((stream[1] .. top(n)) \ got),
      duplicates |-> n - Cardinality(got),
      outOfOrder |-> Cardinality({i \in 2 .. n : stream[i] < top(i - 1)
                                  /\ \A j \in 1 .. i - 1 : stream[j] # stream[i]})]

-----------------------------------------------------------------------------
(* Diagnosis.  A status is its rank: 0 unknown, 1 ok, 2 warning,           *)
(* 3 critical.                                                             *)

Level(value, warning, critical) ==
  IF value >= critical THEN 3 ELSE IF value >= warning THEN 2 ELSE 1

normalizeRTPStreamDiagnosisConfig(cfg) ==
  LET dflt(x, d) == IF x <= 0 THEN d ELSE x
      lossW == dflt(cfg.lossW, 13)   lossC == dflt(cfg.lossC, 26)
      jitW == dflt(cfg.jitW, 30)     jitC == dflt(cfg.jitC, 100)
      rttW == dflt(cfg.rttW, 300)    rttC == dflt(cfg.rttC, 800)
      atLeast(c, w) == IF c < w THEN w ELSE c
  IN [cfg EXCEPT !.min = dflt(@, defaultRTPDiagnosisMinExpectedPackets),
                 !.lossW = lossW, !.lossC = atLeast(lossC, lossW),
                 !.jitW = jitW, !.jitC = atLeast(jitC, jitW),
                 !.rttW = rttW, !.rttC = atLeast(rttC, rttW),
                 !.grace = IF cfg.keepalive > 0 /\ cfg.grace <= 0 THEN cfg.keepalive ELSE @]

diagnoseRTPStreamLoss(s, cfg) ==
  IF s.packets = 0 \/ s.expected < cfg.min THEN 0 ELSE Level(s.fraction, cfg.lossW, cfg.lossC)
diagnoseRTPStreamJitter(s, cfg) ==
  IF s.packets < 2 THEN 0 ELSE Level(s.jitter, cfg.jitW, cfg.jitC)
diagnoseRTPStreamRTCPKeepalive(s, cfg) ==
  LET stale == IF cfg.keepalive > 0 THEN cfg.keepalive + cfg.grace ELSE 0 IN
  CASE ~s.report -> IF cfg.require /\ s.packets > 0 /\ s.expected >= cfg.min THEN 2 ELSE 0
    [] s.report /\ stale <= 0 -> IF cfg.require THEN 1 ELSE 0
    [] s.report /\ stale > 0 -> IF s.delay >= 2 * stale THEN 3
                                ELSE IF s.delay > stale THEN 2 ELSE 1

\* Diagnose of a stream and addMetric: the worst of the three, and what is
\* at fault.
Metrics(m) == [status |-> CHOOSE x \in {m[r] : r \in DOMAIN m} : \A r \in DOMAIN m : m[r] <= x,
               reasons |-> {r \in DOMAIN m : m[r] >= 2}]
DiagnoseStream(s, cfg0) ==
  LET cfg == normalizeRTPStreamDiagnosisConfig(cfg0) IN
  Metrics([packet_loss |-> diagnoseRTPStreamLoss(s, cfg),
           jitter |-> diagnoseRTPStreamJitter(s, cfg),
           rtcp_keepalive |-> diagnoseRTPStreamRTCPKeepalive(s, cfg)])

\* Diagnose of a remote reception report, with the recovery it asks for.
rtpRelayRTCPReportAction(loss, jitter, rtt) ==
  CASE loss < 2 /\ jitter < 2 /\ rtt < 2 -> "none"
    [] loss = 3 \/ rtt = 3 -> "recover_media_path"
    [] loss # 3 /\ rtt # 3 /\ jitter = 3 -> "increase_jitter_buffer"
    [] loss = 2 /\ jitter # 3 /\ rtt # 3 -> "reduce_bitrate"
    [] loss < 2 /\ jitter = 2 /\ rtt # 3 -> "increase_jitter_buffer"
    [] OTHER -> "monitor"
DiagnoseReport(r, cfg0) ==
  LET cfg == normalizeRTPStreamDiagnosisConfig(cfg0)
      loss == Level(r.fraction, cfg.lossW, cfg.lossC)
      jitter == Level(r.jitter, cfg.jitW, cfg.jitC)
      rtt == IF r.rtt <= 0 THEN 0 ELSE Level(r.rtt, cfg.rttW, cfg.rttC)
      m == Metrics([packet_loss |-> loss, jitter |-> jitter, round_trip_time |-> rtt])
  IN [status |-> m.status, reasons |-> m.reasons,
      action |-> rtpRelayRTCPReportAction(loss, jitter, rtt)]

\* rtcpReportRoundTripTimeLocked: only a report that names the sender report
\* last seen in the other direction gives a round trip.
rtcpReportRoundTripTime(report, timing, now) ==
  IF report.lsr = 0 \/ timing.lsr # report.lsr \/ now - timing.at <= report.delay THEN 0
  ELSE now - timing.at - report.delay

-----------------------------------------------------------------------------
(* Telephone events.                                                       *)

rtpDTMFSamplesForDuration(ms, clock) ==
  LET n == (ms * clock) \div 1000 IN
  IF ms <= 0 \/ n > MaxSamples THEN -1 ELSE IF n <= 0 THEN 1 ELSE n

\* BuildRTPDTMFSequence, without signal and volume: the durations so far,
\* every step, then the end packets with the whole duration.
BuildRTPDTMFSequence(total, step, ends) ==
  LET steps == IF total <= step THEN 1 ELSE (total - 1) \div step IN
  [i \in 1 .. steps + ends |->
     [marker |-> i = 1, end |-> i > steps,
      duration |-> IF i > steps \/ total < i * step THEN total ELSE i * step, offset |-> i - 1]]

\* buildGeneratedRTPDTMFSequence: where the next event of the direction goes on.
AfterEvent(state, packets, total) ==
  [seq |-> (state.seq + Len(packets)) % SeqModulus, timestamp |-> state.timestamp + total]

Lowest(S) == CHOOSE x \in S : \A y \in S : x <= y

\* chooseRTPDTMFTargetPayload and preferredRTPDTMFPayload: the payload type
\* kept, else the lowest with the source's clock, else the lowest.
chooseRTPDTMFTargetPayload(source, clock, targets) ==
  LET same == {p \in DOMAIN targets : targets[p] = clock} IN
  CASE DOMAIN targets = {} -> [ok |-> FALSE, payload |-> source, clock |-> clock]
    [] source \in DOMAIN targets -> [ok |-> TRUE, payload |-> source, clock |-> targets[source]]
    [] source \notin DOMAIN targets /\ same # {} ->
         [ok |-> TRUE, payload |-> Lowest(same), clock |-> clock]
    [] OTHER -> LET p == Lowest(DOMAIN targets) IN [ok |-> TRUE, payload |-> p, clock |-> targets[p]]
preferredRTPDTMFPayload(payloads, clock) ==
  IF DefaultRTPDTMFPayloadType \in DOMAIN payloads
     /\ (clock <= 0 \/ payloads[DefaultRTPDTMFPayloadType] = clock)
  THEN DefaultRTPDTMFPayloadType
  ELSE LET same == {p \in DOMAIN payloads : clock > 0 => payloads[p] = clock}
       IN IF same # {} THEN Lowest(same) ELSE Lowest(DOMAIN payloads)

scaleRTPDTMFDuration(duration, source, target) ==
  IF duration = 0 \/ source = target THEN duration
  ELSE LET n == (duration * target + (source \div 2)) \div source
       IN IF n = 0 THEN 1 ELSE IF n > MaxSamples THEN MaxSamples ELSE n

\* RewriteRTPDTMFPayloadType of an event packet that crosses the relay.
RewriteRTPDTMFPayloadType(packet, sources, targets) ==
  LET to == chooseRTPDTMFTargetPayload(packet.payload, sources[packet.payload], targets) IN
  IF packet.payload \notin DOMAIN sources \/ ~to.ok THEN packet
  ELSE [packet EXCEPT !.payload = to.payload,
          !.duration = scaleRTPDTMFDuration(@, sources[packet.payload], to.clock)]

-----------------------------------------------------------------------------
(* SDES.  A crypto attribute is its suite and its key; a bad one does not  *)
(* parse (ValidateSDPCryptoAttribute, ParseSDPCryptoInlineKeyParams).      *)

\* SelectSDPCryptoAttribute: by preference, then by order of the offer,
\* passing over what does not parse.  0 when there is none.
SelectSDPCryptoAttribute(crypto, preferred) ==
  LET fits(p) == {i \in 1 .. Len(crypto) : crypto[i].suite = preferred[p] /\ crypto[i].ok}
      wanted == {p \in 1 .. Len(preferred) : fits(p) # {}}
  IN IF wanted = {} THEN 0 ELSE Lowest(fits(Lowest(wanted)))

\* newOutboundSDESRelayNegotiation and newInboundSDESRelayNegotiation from the
\* offer, then RewriteClientAnswer or RewriteIMSAnswer from the answer: the
\* offer passed on and the answer passed back carry the relay's own keys, and
\* NewSRTPMediaSession gets one key for each use.
Negotiation(offer, answer, preferred) ==
  LET o == SelectSDPCryptoAttribute(offer, preferred)
      suite == IF o = 0 THEN "none" ELSE offer[o].suite
      a == IF o = 0 THEN 0 ELSE SelectSDPCryptoAttribute(answer, <<suite>>)
  IN IF o = 0 \/ a = 0 THEN [ok |-> FALSE]
     ELSE [ok |-> TRUE, suite |-> suite,
           forwardedOffer |-> [suite |-> suite, key |-> "relayToAnswerer"],
           forwardedAnswer |-> [suite |-> suite, key |-> "relayToOfferer"],
           offererUnprotect |-> offer[o].key, offererProtect |-> "relayToOfferer",
           answererUnprotect |-> answer[a].key, answererProtect |-> "relayToAnswerer"]

-----------------------------------------------------------------------------
(* Every stream whose packets are out of order by less than half the       *)
(* number space, and none before the first, is reported with the packets,  *)
(* losses, duplicates and reorderings it had, across sequence wrap-around. *)
LossExact(stream) ==
  LET s == Observed(stream)  r == LossOf(stream) IN
  /\ s.packets = r.packets /\ s.lost = r.lost /\ s.duplicates = r.duplicates
  /\ s.outOfOrder = r.outOfOrder

(* A telephone event is marked once, numbered without gap, never shrinks,  *)
(* ends with the whole duration in every end packet; and the next event of *)
(* the same direction follows it in sequence and in time.                  *)
EventWellFormed(ms, stepMS, clock, ends) ==
  LET total == rtpDTMFSamplesForDuration(ms, clock)
      step == rtpDTMFSamplesForDuration(stepMS, clock)
      p == BuildRTPDTMFSequence(total, step, ends)
      next == AfterEvent([seq |-> 5, timestamp |-> 0], p, total)
  IN total > 0 /\ step > 0 =>
     /\ \A i \in 1 .. Len(p) : /\ p[i].marker = (i = 1) /\ p[i].offset = i - 1
                               /\ p[i].duration \in 1 .. total
                               /\ i < Len(p) => p[i].duration <= p[i + 1].duration
     /\ \A i \in Len(p) - ends + 1 .. Len(p) : p[i].end /\ p[i].duration = total
     /\ next.seq = (5 + p[Len(p)].offset + 1) % SeqModulus /\ next.timestamp = total

(* The two legs agree on keys after a successful SDES negotiation: what an *)
(* end sends under the key it announced is read with that key, what it is  *)
(* sent is protected with the key it was told, all under one suite that    *)
(* both ends named.                                                        *)
SdesKeysAgree(offer, answer, preferred) ==
  LET n == Negotiation(offer, answer, preferred) IN
  n.ok => /\ n.forwardedOffer.key = n.answererProtect /\ n.forwardedAnswer.key = n.offererProtect
          /\ n.offererProtect # n.answererProtect
          /\ \E i \in 1 .. Len(offer) :
               offer[i].suite = n.suite /\ offer[i].ok /\ offer[i].key = n.offererUnprotect
          /\ \E i \in 1 .. Len(answer) :
               answer[i].suite = n.suite /\ answer[i].ok /\ answer[i].key = n.answererUnprotect
          /\ \E p \in 1 .. Len(preferred) : preferred[p] = n.suite

(* A telephone event that crosses the relay keeps its length to within one *)
(* sample of the slower clock, under a payload type the other end accepts. *)
DtmfSurvives(packet, sources, targets) ==
  LET out == RewriteRTPDTMFPayloadType(packet, sources, targets)
      from == sources[packet.payload]
      to == targets[out.payload]
      diff == (out.duration * from) - (packet.duration * to)
  IN DOMAIN targets # {} =>
       /\ out.payload \in DOMAIN targets
       /\ out.duration < MaxSamples => diff <= from /\ -diff <= from
       /\ packet.duration > 0 => out.duration > 0

(* A generated event uses the lowest payload type of the wanted clock, the *)
(* default type first, and only one the far end named.                     *)
GeneratedPayload(payloads, clock) ==
  LET p == preferredRTPDTMFPayload(payloads, clock) IN
  /\ p \in DOMAIN payloads
  /\ (\E q \in DOMAIN payloads : payloads[q] = clock) => payloads[p] = clock

(* A round trip is measured exactly when the report answers the sender     *)
(* report last seen, and is then the time on the way there and back.       *)
RoundTripExact(lsr, last, there, held, back) ==
  rtcpReportRoundTripTime([lsr |-> lsr, delay |-> held], [lsr |-> last, at |-> 0],
                          there + held + back)
    = IF lsr # 0 /\ lsr = last THEN there + back ELSE 0

(* The loss of a received stream is diagnosed exactly when enough packets  *)
(* were due and the share that never came reaches the warning threshold,   *)
(* however the packets were ordered, repeated or wrapped.                  *)
StreamDiagnosed(stream, cfg) ==
  LET s == Observed(stream)
      r == LossOf(stream)
      c == normalizeRTPStreamDiagnosisConfig(cfg)
      due == r.packets + r.lost
      d == DiagnoseStream([packets |-> s.packets, expected |-> s.expected, fraction |-> s.fraction,
                           jitter |-> 0, report |-> FALSE, delay |-> 0], cfg)
  IN ("packet_loss" \in d.reasons) = (due >= c.min /\ r.lost * 256 >= c.lossW * due)

(* A worse measurement is never diagnosed better, a reason is named        *)
(* exactly when the status is at least a warning, and an action is asked   *)
(* for exactly then.                                                       *)
DiagnosisMonotone(r, worse, cfg) ==
  LET d == DiagnoseReport(r, cfg)  e == DiagnoseReport(worse, cfg) IN
  /\ (r.fraction <= worse.fraction /\ r.jitter <= worse.jitter /\ r.rtt <= worse.rtt)
       => d.status <= e.status
  /\ (d.reasons # {}) = (d.status >= 2) /\ (d.action = "none") = (d.status < 2)
=============================================================================

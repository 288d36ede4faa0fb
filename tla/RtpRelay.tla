------------------------------ MODULE RtpRelay ------------------------------
(***************************************************************************)
(* RTPRelaySession of runtimehost/voicehost/rtp_relay.go with the RTCP     *)
(* report schedule of rtcp_report_schedule.go: four sockets, a forwarding  *)
(* goroutine per socket, the scheduler goroutine, and the callers of the   *)
(* call agents, which re-describe the two remote ends, start and stop the  *)
(* schedule, send generated telephone events and close the relay.          *)
(*                                                                         *)
(* A remote end is what its last SDP said: a target (0 for a nil address)  *)
(* and a media direction.  Packets carry no data; what counts is where     *)
(* they go and under which description.                                    *)
(***************************************************************************)
EXTENDS Integers, FiniteSets

CONSTANTS Sockets,        \* "client", "ims", "clientRTCP" and "imsRTCP"
          Callers,        \* goroutines of the call agents
          NoCaller,
          Directions,     \* the media directions an SDP states
          MaxTargets,     \* bound on the addresses an SDP may name
          MaxSchedules    \* bound on StartRTCPReportSchedule calls

RtpLoops == {"client", "ims"}     \* a loop is named after the socket it reads
NoSchedule == 0

VARIABLES
  made,       \* how far newRTPRelaySession has got
  open,       \* the sockets that are open
  closed,     \* RTPRelaySession.closed
  remote,     \* the remote description of each leg
  loop,       \* the forwarding goroutines
  mu,         \* holder of rtcpReportScheduleMu
  schedule,   \* rtcpReportSchedule
  runner,     \* the scheduler goroutines ever started
  caller      \* the callers

relayVars == <<made, open, closed, remote, loop, mu, schedule, runner, caller>>

Idle == [op |-> "none", pc |-> "idle", sched |-> NoSchedule, leg |-> "ims"]

Stopped == [pc |-> "stopped", dst |-> 0, fresh |-> TRUE]
Reading == [pc |-> "read", dst |-> 0, fresh |-> TRUE]

RelayInit ==
  /\ made = "no" /\ open = {} /\ closed = FALSE
  /\ remote = [leg \in {"client", "ims"} |-> [target |-> 0, dir |-> ""]]
  /\ loop = [l \in Sockets |-> Stopped]
  /\ mu = NoCaller /\ schedule = NoSchedule
  /\ runner = [i \in 1 .. MaxSchedules |-> "none"]
  /\ caller = [c \in Callers |-> Idle]

Started == {i \in 1 .. MaxSchedules : runner[i] # "none"}
Cancelled(r) == IF r \in {"idle", "send"} THEN "cancelled" ELSE r
Return(c) == caller' = [caller EXCEPT ![c] = Idle]
At(c, pc) == caller' = [caller EXCEPT ![c].pc = pc]

\* resolveSDPEndpoint: port 0 and the unspecified address give no target; an
\* incomplete description is an error that leaves the relay as it was.
resolveSDPEndpoint(info) ==
  CASE info.port = 0 -> [ok |-> TRUE, target |-> 0]
    [] info.port < 0 \/ info.ip = "" -> [ok |-> FALSE, target |-> 0]
    [] info.ip = "unspecified" -> [ok |-> TRUE, target |-> 0]
    [] OTHER -> [ok |-> TRUE, target |-> info.port]

Infos == [port : -1 .. MaxTargets, ip : {"", "unspecified", "host"}, dir : Directions]
Descriptions == {[target |-> resolveSDPEndpoint(info).target, dir |-> info.dir] :
                 info \in {i \in Infos : resolveSDPEndpoint(i).ok}}

-----------------------------------------------------------------------------
(* Construction.                                                           *)

\* listenUDP four times: a failure closes the sockets opened before it.
newRTPRelaySession(c) ==
  /\ made = "no" /\ caller[c] = Idle
  /\ \/ /\ open' = Sockets /\ made' = "making"
        /\ loop' = [l \in Sockets |-> Reading]
        /\ caller' = [caller EXCEPT ![c] = [Idle EXCEPT !.op = "new", !.pc = "start"]]
     \/ /\ made' = "failed" /\ UNCHANGED <<open, loop, caller>>
  /\ UNCHANGED <<closed, remote, mu, schedule, runner>>

\* The end of the constructor: the first remote description, whose failure
\* closes the relay again, as the failure of the schedule does.
NewRTPRelaySession(c) ==
  /\ caller[c].op = "new" /\ caller[c].pc = "remote"
  /\ \/ /\ \E r \in Descriptions, leg \in RtpLoops : remote' = [remote EXCEPT ![leg] = r]
        /\ Return(c) /\ made' = "yes"
     \/ At(c, "close") /\ UNCHANGED <<made, remote>>
  /\ UNCHANGED <<open, closed, loop, mu, schedule, runner>>

-----------------------------------------------------------------------------
(* Remote descriptions.                                                    *)

\* SetIMSRemote and SetClientRemote: one critical section.  `fresh` records
\* which packets in flight were read before the change.
SetRemote(leg) ==
  /\ made = "yes"
  /\ \E r \in Descriptions \ {remote[leg]} : remote' = [remote EXCEPT ![leg] = r]
  /\ loop' = [l \in Sockets |-> IF loop[l].pc = "read" \/ loop[l].pc = "stopped"
                                THEN loop[l] ELSE [loop[l] EXCEPT !.fresh = FALSE]]
  /\ UNCHANGED <<made, open, closed, mu, schedule, runner, caller>>

normalizeSDPDirection(d) == IF d \in {"sendonly", "recvonly", "inactive"} THEN d ELSE "sendrecv"
sdpDirectionAllowsSend(d) == normalizeSDPDirection(d) \in {"sendrecv", "sendonly"}
sdpDirectionAllowsReceive(d) == normalizeSDPDirection(d) \in {"sendrecv", "recvonly"}

Other(leg) == IF leg = "client" THEN "ims" ELSE "client"

\* allowClientToIMSRTP and allowIMSToClientRTP.
MutAllow(leg) == sdpDirectionAllowsSend(remote[Other(leg)].dir)
                 /\ sdpDirectionAllowsReceive(remote[leg].dir)
AllowRTP(leg) ==
  sdpDirectionAllowsSend(remote[leg].dir) /\ sdpDirectionAllowsReceive(remote[Other(leg)].dir)

LegOf(l) == IF l \in {"client", "clientRTCP"} THEN "client" ELSE "ims"

-----------------------------------------------------------------------------
(* forwardLoop.                                                            *)

\* A packet arrives and its target is taken, in a critical section of its
\* own; without one the packet is dropped.
ReadPacket(l) ==
  /\ loop[l].pc = "read" /\ l \in open
  /\ remote[Other(LegOf(l))].target # 0
  /\ loop' = [loop EXCEPT ![l] = [pc |-> "gate", dst |-> remote[Other(LegOf(l))].target,
                                  fresh |-> TRUE]]
  /\ UNCHANGED <<made, open, closed, remote, mu, schedule, runner, caller>>

\* allow(), a second critical section, which RTCP is exempt from; then the
\* transform, inspection and remapping, which may drop the packet.
GatePacket(l) ==
  /\ loop[l].pc = "gate"
  /\ \/ /\ l \in RtpLoops => AllowRTP(l)
        /\ loop' = [loop EXCEPT ![l].pc = "write"]
     \/ loop' = [loop EXCEPT ![l] = Reading]
  /\ UNCHANGED <<made, open, closed, remote, mu, schedule, runner, caller>>

\* WriteToUDP; an error, as on a closed socket, only counts a drop.
WritePacket(l) ==
  /\ loop[l].pc = "write"
  /\ loop' = [loop EXCEPT ![l] = Reading]
  /\ UNCHANGED <<made, open, closed, remote, mu, schedule, runner, caller>>

\* A read error ends the loop: its socket was closed, or the read failed.
LoopEnds(l) ==
  /\ loop[l].pc = "read"
  /\ loop' = [loop EXCEPT ![l] = Stopped]
  /\ UNCHANGED <<made, open, closed, remote, mu, schedule, runner, caller>>

-----------------------------------------------------------------------------
(* The report schedule.                                                    *)

\* StartRTCPReportSchedule, up to the stop of the schedule it replaces.
StartRTCPReportSchedule(c) ==
  /\ \/ caller[c] = Idle /\ made = "yes"
     \/ caller[c].op = "new" /\ caller[c].pc = "start"
  /\ mu = NoCaller
  /\ LET op == IF caller[c] = Idle THEN "start" ELSE "new" IN
     IF closed
     THEN /\ caller' = [caller EXCEPT ![c] = IF op = "new" THEN [@ EXCEPT !.pc = "close"] ELSE Idle]
          /\ UNCHANGED <<mu, runner>>
     ELSE /\ mu' = c
          /\ caller' = [caller EXCEPT ![c].op = op, ![c].pc = "replace", ![c].sched = schedule]
          /\ runner' = IF schedule = NoSchedule THEN runner
                       ELSE [runner EXCEPT ![schedule] = Cancelled(@)]
  /\ UNCHANGED <<made, open, closed, remote, loop, schedule>>

\* The rest of it, once the old scheduler is done: nothing for a disabled
\* schedule, an error for an interval that is not positive, or a scheduler.
ScheduleReplaced(c) ==
  /\ caller[c].pc = "replace"
  /\ caller[c].sched # NoSchedule => runner[caller[c].sched] = "done"
  /\ mu' = NoCaller
  /\ LET next == IF caller[c].op = "new" THEN [caller[c] EXCEPT !.pc = "remote", !.sched = NoSchedule]
                 ELSE Idle
     IN \/ /\ schedule' = NoSchedule /\ runner' = runner
           /\ caller' = [caller EXCEPT ![c] = next]
        \/ /\ schedule' = NoSchedule /\ runner' = runner
           /\ caller' = [caller EXCEPT ![c] = IF next = Idle THEN Idle ELSE [next EXCEPT !.pc = "close"]]
        \/ /\ Cardinality(Started) < MaxSchedules
           /\ schedule' = Cardinality(Started) + 1
           \* the schedule of the constructor runs under the relay's own context
           /\ runner' = [runner EXCEPT ![schedule'] =
                           IF closed /\ caller[c].op = "new" THEN "cancelled" ELSE "idle"]
           /\ caller' = [caller EXCEPT ![c] = next]
  /\ UNCHANGED <<made, open, closed, remote, loop>>

\* StopRTCPReportSchedule, on its own or from Close.
StopRTCPReportSchedule(c) ==
  /\ (caller[c].op = "stop" /\ caller[c].pc = "idle") \/ caller[c].pc = "stopSchedule"
  /\ mu = NoCaller
  /\ schedule' = NoSchedule
  /\ runner' = IF schedule = NoSchedule THEN runner ELSE [runner EXCEPT ![schedule] = Cancelled(@)]
  /\ caller' = [caller EXCEPT ![c].pc = "waitSchedule", ![c].sched = schedule]
  /\ UNCHANGED <<made, open, closed, remote, loop, mu>>

BeginStop(c) ==
  /\ made = "yes" /\ caller[c] = Idle
  /\ caller' = [caller EXCEPT ![c].op = "stop"]
  /\ UNCHANGED <<made, open, closed, remote, loop, mu, schedule, runner>>

\* scheduler.stop waits for the goroutine.
ScheduleStopped(c) ==
  /\ caller[c].pc = "waitSchedule"
  /\ caller[c].sched # NoSchedule => runner[caller[c].sched] = "done"
  /\ IF caller[c].op = "stop" THEN Return(c)
     ELSE caller' = [caller EXCEPT ![c].pc = "sockets", ![c].sched = NoSchedule]
  /\ UNCHANGED <<made, open, closed, remote, loop, mu, schedule, runner>>

\* run: a tick sends reports in each scheduled direction (send, sendDirection
\* and SendRTCP).  An error ends the goroutine when the config says so.
SchedulerTicks(i) ==
  /\ runner[i] = "idle" /\ runner' = [runner EXCEPT ![i] = "send"]
  /\ UNCHANGED <<made, open, closed, remote, loop, mu, schedule, caller>>
SchedulerSent(i) ==
  /\ runner[i] = "send" /\ \E r \in {"idle", "done"} : runner' = [runner EXCEPT ![i] = r]
  /\ UNCHANGED <<made, open, closed, remote, loop, mu, schedule, caller>>
SchedulerEnds(i) ==
  /\ runner[i] = "cancelled" /\ runner' = [runner EXCEPT ![i] = "done"]
  /\ UNCHANGED <<made, open, closed, remote, loop, mu, schedule, caller>>

-----------------------------------------------------------------------------
(* Generated telephone events.                                             *)

\* SendRTPDTMF: the route and the direction are looked up once, then the
\* event's packets follow at their interval.
SendRTPDTMF(c, leg) ==
  /\ made = "yes" /\ caller[c] = Idle
  /\ remote[leg].target # 0 /\ AllowRTP(Other(leg))
  /\ caller' = [caller EXCEPT ![c] = [Idle EXCEPT !.op = "dtmf", !.pc = "packet", !.leg = leg]]
  /\ UNCHANGED <<made, open, closed, remote, loop, mu, schedule, runner>>

\* One packet, written to the socket of the leg; the call returns after the
\* last one, after a failure, as on a closed socket, and when its context ends.
DTMFPacket(c) ==
  /\ caller[c].pc = "packet"
  /\ \/ caller[c].leg \in open /\ UNCHANGED caller
     \/ Return(c)
  /\ UNCHANGED <<made, open, closed, remote, loop, mu, schedule, runner>>

-----------------------------------------------------------------------------
(* Close.                                                                  *)

\* The first Close marks the relay closed and cancels its context; another
\* one returns at once.
Close(c) ==
  /\ \/ made = "yes" /\ caller[c] = Idle
     \/ caller[c].pc = "close"
  /\ IF closed THEN Return(c) /\ UNCHANGED closed
     ELSE closed' = TRUE
          /\ caller' = [caller EXCEPT ![c] = [Idle EXCEPT !.op = "close", !.pc = "stopSchedule"]]
  /\ UNCHANGED <<made, open, remote, loop, mu, schedule, runner>>

CloseSockets(c) ==
  /\ caller[c].pc = "sockets"
  /\ open' = {} /\ At(c, "waitLoops")
  /\ UNCHANGED <<made, closed, remote, loop, mu, schedule, runner>>

CloseReturns(c) ==
  /\ caller[c].pc = "waitLoops"
  /\ \A l \in Sockets : loop[l].pc = "stopped"
  /\ At(c, "closed")
  /\ UNCHANGED <<made, open, closed, remote, loop, mu, schedule, runner>>

-----------------------------------------------------------------------------
CallerSteps(c) ==
  \/ ScheduleReplaced(c) \/ StopRTCPReportSchedule(c) \/ ScheduleStopped(c)
  \/ DTMFPacket(c) \/ CloseSockets(c) \/ CloseReturns(c)
  \/ caller[c].op = "new" /\ StartRTCPReportSchedule(c)
  \/ NewRTPRelaySession(c)
  \/ caller[c].pc = "close" /\ Close(c)

LoopSteps(l) == GatePacket(l) \/ WritePacket(l) \/ (l \notin open /\ LoopEnds(l))

RelayNext ==
  \/ \E c \in Callers :
       \/ newRTPRelaySession(c) \/ NewRTPRelaySession(c)
       \/ StartRTCPReportSchedule(c) \/ ScheduleReplaced(c)
       \/ BeginStop(c) \/ StopRTCPReportSchedule(c) \/ ScheduleStopped(c)
       \/ \E leg \in RtpLoops : SendRTPDTMF(c, leg)
       \/ DTMFPacket(c)
       \/ Close(c) \/ CloseSockets(c) \/ CloseReturns(c)
  \/ \E leg \in RtpLoops : SetRemote(leg)
  \/ \E l \in Sockets : ReadPacket(l) \/ GatePacket(l) \/ WritePacket(l) \/ LoopEnds(l)
  \/ \E i \in 1 .. MaxSchedules : SchedulerTicks(i) \/ SchedulerSent(i) \/ SchedulerEnds(i)

\* Runnable goroutines run; a mutex is handed to a waiter in turn; packets,
\* ticks and calls need not come.
SchedulerRuns(i) == SchedulerSent(i) \/ SchedulerEnds(i)
RelaySpec == RelayInit /\ [][RelayNext]_relayVars

-----------------------------------------------------------------------------
(* When the Close that closed the relay returns, nothing of the relay is   *)
(* left: every socket is closed, no forwarding goroutine runs, no schedule *)
(* is stored, and a scheduler that has not ended yet is cancelled and      *)
(* waited for by a StopRTCPReportSchedule that took it before Close could, *)
(* whatever schedules were being started and stopped meanwhile.            *)
ClosedRelayIsQuiet ==
  (\E c \in Callers : caller[c].pc = "closed") =>
    /\ open = {} /\ \A l \in Sockets : loop[l].pc = "stopped"
    /\ schedule = NoSchedule
    /\ \A i \in Started :
         \/ runner[i] = "done"
         \/ runner[i] = "cancelled"
            /\ \E c \in Callers : caller[c].op = "stop" /\ caller[c].sched = i

(* Hold and resume: an RTP packet read after the last change of the remote *)
(* descriptions is written only to the target now described, and only when *)
(* its source may send and its destination may receive.                    *)
HoldTakesEffect ==
  \A l \in RtpLoops \cap Sockets :
    loop[l].pc = "write" /\ loop[l].fresh =>
      /\ loop[l].dst = remote[Other(l)].target
      /\ remote[l].dir \notin {"recvonly", "inactive"}
      /\ remote[Other(l)].dir \notin {"sendonly", "inactive"}

(* A Close that began returns.                                             *)
RelayCloseReturns == \A c \in Callers : []<>(caller[c].op = "close" => caller[c].pc = "closed")
=============================================================================

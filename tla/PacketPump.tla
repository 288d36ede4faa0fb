----------------------------- MODULE PacketPump -----------------------------
(***************************************************************************)
(* PacketPump of engine/swu/packet_pump.go over a PacketSession and an     *)
(* inner packet device, with the CHILD_SA rekey timer of                   *)
(* engine/swu/packet_session.go.  Two workers copy packets, one in each     *)
(* direction, and run the rekey when it is due; a third goroutine closes   *)
(* device and session when the context ends; the host may close the pump.  *)
(*                                                                         *)
(* Packets carry no data here: a worker's read, its write and its rekey    *)
(* succeed, fail, or find that the pump is stopping.                       *)
(***************************************************************************)
EXTENDS Integers

CONSTANTS Lifetime, LeadTime,  \* ChildSARekeyPolicy
          MaxClock,             \* bound on the clock
          MaxHostRekeys        \* bound on TUNTunnelSession.RekeyChildSA calls

ASSUME PolicyAssumption ==
  Lifetime \in Nat \ {0} /\ LeadTime \in Nat /\ LeadTime < Lifetime
ASSUME PumpBoundsAssumption == MaxClock \in Nat /\ MaxHostRekeys \in Nat

Workers == {"dev", "esp"}
Closers == {"watcher", "host"}
Nobody == "nobody"
Never == -1

VARIABLES
  clock,
  establishedAt,  \* ChildSARekeyState.establishedAt
  cancelled,      \* the pump's context has ended
  device,         \* "open" or "closed"
  session,        \* "open", "closing" (the DELETE is out) or "closed"
  err,            \* PacketPump.err
  maintenance,    \* holder of maintenanceMu
  pc,             \* where each worker is
  at,             \* the time each worker took under maintenanceMu
  closing,        \* how far closeOnContext and the host's Close are
  host,           \* time at which the host's RekeyChildSA started, or Never
  hostRekeys,     \* history: RekeyChildSA calls of the host
  done            \* the done channel is closed

timerVars == <<clock, establishedAt>>
stopVars == <<cancelled, device, session, err, closing, done>>
workVars == <<maintenance, pc, at>>
hostVars == <<host, hostRekeys>>
pumpVars == <<timerVars, stopVars, workVars, hostVars>>

Places == {"read", "check", "lock", "rekey", "write", "stopped"}
Errors == {"none", "device", "session", "rekey"}

PumpTypeOK ==
  /\ clock \in 0 .. MaxClock /\ establishedAt \in 0 .. clock
  /\ cancelled \in BOOLEAN /\ device \in {"open", "closed"}
  /\ session \in {"open", "closing", "closed"}
  /\ err \in Errors /\ done \in BOOLEAN
  /\ maintenance \in Workers \cup {Nobody}
  /\ pc \in [Workers -> Places] /\ at \in [Workers -> 0 .. clock]
  /\ closing \in [Closers -> {"idle", "device", "session", "delete", "wait", "done"}]
  /\ host \in 0 .. clock \cup {Never} /\ hostRekeys \in 0 .. MaxHostRekeys

\* NewPacketPump and Start, just after the session was established.
PumpInit ==
  /\ clock = 0 /\ establishedAt = 0
  /\ cancelled = FALSE /\ device = "open" /\ session = "open" /\ err = "none"
  /\ maintenance = Nobody
  /\ pc = [w \in Workers |-> "read"] /\ at = [w \in Workers |-> 0]
  /\ closing = [c \in Closers |-> "idle"]
  /\ host = Never /\ hostRekeys = 0
  /\ done = FALSE

ClockTicks ==
  /\ clock < MaxClock
  /\ clock' = clock + 1
  /\ UNCHANGED <<establishedAt, stopVars, workVars, hostVars>>

\* NextChildSARekeyDue, which reports nothing once the session is closed.
RekeyIsDue == session = "open" /\ clock >= establishedAt + (Lifetime - LeadTime)

-----------------------------------------------------------------------------
(* How a worker ends.                                                      *)

Goto(w, place) == pc' = [pc EXCEPT ![w] = place]

\* recordError: the first error is kept and ends the context.
RecordError(e) ==
  /\ err' = IF err = "none" THEN e ELSE err
  /\ cancelled' = TRUE

\* isNormalStop, then requestStop.
StopNormally(w) ==
  /\ cancelled' = TRUE
  /\ Goto(w, "stopped")
  /\ UNCHANGED <<timerVars, device, session, err, closing, done, maintenance, at, hostVars>>

StopWithError(w, e) ==
  /\ RecordError(e)
  /\ Goto(w, "stopped")
  /\ UNCHANGED <<timerVars, device, session, closing, done,
                 maintenance, at, hostVars>>

\* The end that worker w reads from and the one it writes to.
SourceClosed(w) == IF w = "dev" THEN device = "closed" ELSE session # "open"
SinkClosed(w) == IF w = "dev" THEN session # "open" ELSE device = "closed"
SourceError(w) == IF w = "dev" THEN "device" ELSE "session"
SinkError(w) == IF w = "dev" THEN "session" ELSE "device"

-----------------------------------------------------------------------------
(* deviceToESP rekeys before it sends, espToDevice after it has written.   *)

ReadPacket(w) ==
  /\ pc[w] = "read" /\ ~SourceClosed(w)
  /\ Goto(w, IF w = "dev" THEN "check" ELSE "write")
  /\ UNCHANGED <<timerVars, stopVars, maintenance, at, hostVars>>

\* The source is closed or at its end, or the context is.
ReadStops(w) ==
  /\ pc[w] = "read"
  /\ StopNormally(w)

ReadFails(w) ==
  /\ pc[w] = "read" /\ ~cancelled /\ ~SourceClosed(w)
  /\ StopWithError(w, SourceError(w))

WritePacket(w) ==
  /\ pc[w] = "write" /\ ~SinkClosed(w)
  /\ Goto(w, IF w = "dev" THEN "read" ELSE "check")
  /\ UNCHANGED <<timerVars, stopVars, maintenance, at, hostVars>>

WriteStops(w) ==
  /\ pc[w] = "write" /\ (cancelled \/ SinkClosed(w))
  /\ StopNormally(w)

WriteFails(w) ==
  /\ pc[w] = "write" /\ ~cancelled /\ ~SinkClosed(w)
  /\ StopWithError(w, SinkError(w))

-----------------------------------------------------------------------------
(* runChildSARekeyDue.                                                     *)

AfterRekey(w) == IF w = "dev" THEN "write" ELSE "read"

CheckDue(w) ==
  /\ pc[w] = "check"
  /\ Goto(w, IF RekeyIsDue THEN "lock" ELSE AfterRekey(w))
  /\ UNCHANGED <<timerVars, stopVars, maintenance, at, hostVars>>

\* Mutant: a worker that waited for the lock does not look again.
LockMaintenance_NoRecheck(w) ==
  /\ pc[w] = "lock" /\ maintenance = Nobody
  /\ maintenance' = w /\ at' = [at EXCEPT ![w] = clock] /\ Goto(w, "rekey")
  /\ UNCHANGED <<timerVars, stopVars, hostVars>>

\* The lock is taken and the timer looked at again.
LockMaintenance(w) ==
  /\ pc[w] = "lock" /\ maintenance = Nobody
  /\ IF RekeyIsDue
       THEN maintenance' = w /\ at' = [at EXCEPT ![w] = clock] /\ Goto(w, "rekey")
       ELSE Goto(w, AfterRekey(w)) /\ UNCHANGED <<maintenance, at>>
  /\ UNCHANGED <<timerVars, stopVars, hostVars>>

Unlock(w) == maintenance' = IF maintenance = w THEN Nobody ELSE maintenance

RecordRekeyAt(time) ==
  establishedAt' = time

\* The exchange succeeds on a session that is still open.
RekeySucceeds(w) ==
  /\ pc[w] = "rekey" /\ session = "open"
  /\ RecordRekeyAt(at[w])
  /\ Unlock(w) /\ Goto(w, AfterRekey(w))
  /\ UNCHANGED <<clock, at, stopVars, hostVars>>

\* Mutant: the lock is kept on the error path.
RekeyFails_KeepsLock(w) ==
  /\ pc[w] = "rekey"
  /\ RecordError("rekey")
  /\ Goto(w, "stopped")
  /\ UNCHANGED <<timerVars, device, session, closing, done, maintenance,
                 at, hostVars>>

\* The exchange fails, or the context or the session ended meanwhile; either is
\* recorded as an error.
RekeyFails(w) ==
  /\ pc[w] = "rekey"
  /\ RecordError("rekey")
  /\ Unlock(w) /\ Goto(w, "stopped")
  /\ UNCHANGED <<timerVars, device, session, closing, done, at, hostVars>>

-----------------------------------------------------------------------------
(* A rekey of the host, which does not take maintenanceMu.                 *)

HostRekeyStarts ==
  /\ host = Never /\ hostRekeys < MaxHostRekeys /\ session = "open"
  /\ host' = clock /\ hostRekeys' = hostRekeys + 1
  /\ UNCHANGED <<timerVars, stopVars, workVars>>

HostRekeyEnds ==
  /\ host # Never
  /\ host' = Never
  /\ \/ session = "open" /\ RecordRekeyAt(host)
     \/ UNCHANGED establishedAt
  /\ UNCHANGED <<clock, stopVars, workVars, hostRekeys>>

-----------------------------------------------------------------------------
(* closeOnContext, Close, and the goroutine that closes done.              *)

\* closeOnContext waits for the end of the context, which Close brings about.
CloseStarts(c) ==
  /\ closing[c] = "idle" /\ (c = "watcher" => cancelled)
  /\ cancelled' = TRUE
  /\ closing' = [closing EXCEPT ![c] = "device"]
  /\ UNCHANGED <<timerVars, device, session, err, done, workVars,
                 hostVars>>

CloseDevice(c) ==
  /\ closing[c] = "device"
  /\ device' = "closed"
  /\ closing' = [closing EXCEPT ![c] = "session"]
  /\ UNCHANGED <<timerVars, cancelled, session, err, done, workVars,
                 hostVars>>

\* PacketSession.Close sends the DELETE unless another caller already closes.
CloseSession(c) ==
  /\ closing[c] = "session"
  /\ session' = IF session = "open" THEN "closing" ELSE session
  /\ closing' = [closing EXCEPT ![c] = IF session = "open" THEN "delete" ELSE "wait"]
  /\ UNCHANGED <<timerVars, cancelled, device, err, done, workVars,
                 hostVars>>

CloseSessionDone(c) ==
  /\ closing[c] = "delete"
  /\ session' = "closed"
  /\ closing' = [closing EXCEPT ![c] = "wait"]
  /\ UNCHANGED <<timerVars, cancelled, device, err, done, workVars,
                 hostVars>>

\* Close waits for done; closeOnContext is at its end.
CloseReturns ==
  /\ closing["host"] = "wait" /\ done
  /\ closing' = [closing EXCEPT !["host"] = "done"]
  /\ UNCHANGED <<timerVars, cancelled, device, session, err, done,
                 workVars, hostVars>>

\* Mutant: closeOnContext is not in the wait group.
WaitGroup_TwoWorkers ==
  /\ ~done /\ \A w \in Workers : pc[w] = "stopped"
  /\ done' = TRUE
  /\ UNCHANGED <<timerVars, cancelled, device, session, err, closing,
                 workVars, hostVars>>

WaitGroup ==
  /\ ~done /\ closing["watcher"] = "wait" /\ \A w \in Workers : pc[w] = "stopped"
  /\ done' = TRUE
  /\ UNCHANGED <<timerVars, cancelled, device, session, err, closing,
                 workVars, hostVars>>

-----------------------------------------------------------------------------
Work(w) ==
  \/ ReadPacket(w) \/ ReadStops(w) \/ ReadFails(w)
  \/ WritePacket(w) \/ WriteStops(w) \/ WriteFails(w)
  \/ CheckDue(w) \/ LockMaintenance(w) \/ RekeySucceeds(w) \/ RekeyFails(w)

HostRekey == HostRekeyStarts \/ HostRekeyEnds

Close(c) == CloseStarts(c) \/ CloseDevice(c) \/ CloseSession(c) \/ CloseSessionDone(c)

PumpNext ==
  \/ ClockTicks \/ HostRekey \/ CloseReturns \/ WaitGroup
  \/ \E c \in Closers : Close(c)
  \/ \E w \in Workers : Work(w)

PumpSpec == PumpInit /\ [][PumpNext]_pumpVars

\* A read ends once its source is closed, what does not wait for the network
\* goes on, exchanges end (they have a response timer), and the lock is given to
\* a waiter when it is free.  Neither a packet nor a stop of the host is ever bound to come.
WorkerRuns(w) ==
  \/ SourceClosed(w) /\ ReadStops(w)
  \/ WritePacket(w) \/ WriteStops(w) \/ CheckDue(w) \/ LockMaintenance(w) \/ RekeySucceeds(w) \/ RekeyFails(w)
WatcherRuns == Close("watcher") \/ WaitGroup
HostRuns == CloseReturns \/ (closing["host"] # "idle" /\ Close("host"))

-----------------------------------------------------------------------------
(* Properties.                                                             *)

\* The two workers never rekey for the same due time: until the host rekeys
\* itself, two successive rekeys are at least Lifetime - LeadTime apart,
\* although both workers see the timer expire.
OneRekeyPerPeriod ==
  [][hostRekeys > 0 \/ establishedAt' = establishedAt
     \/ establishedAt' >= establishedAt + (Lifetime - LeadTime)]_pumpVars

\* When Wait returns no goroutine of the pump runs any more, the device is
\* closed and the session at least closing: the context ended before.
DoneMeansClosed ==
  done => /\ \A w \in Workers : pc[w] = "stopped"
          /\ device = "closed" /\ session # "open" /\ cancelled

\* One direction that fails or ends takes the other one down, closes device and
\* session and lets Wait return, whatever the other worker was waiting for.
StopsTogether == []<>((\E w \in Workers : pc[w] = "stopped") => done)

\* Close returns.
CloseCompletes == []<>(closing["host"] \in {"idle", "done"})
=============================================================================

---------------------------- MODULE InboundWire ----------------------------
(***************************************************************************)
(* The UDP side of the inbound SIP server                                  *)
(* (voicehost/ims_inbound_wire.go).  Every datagram is handled by its own  *)
(* goroutine, so copies of a request run beside each other; what they      *)
(* share is the mutex-guarded tables of the server: cached transactions,   *)
(* reliable provisional responses waiting for a PRACK, and the goroutines  *)
(* that retransmit a response until it is acknowledged.                    *)
(*                                                                         *)
(* The requests are those of one call: an INVITE, its ACK, a PRACK per     *)
(* reliable provisional response, and a CANCEL; every other method is      *)
(* dispatched, answered and cached the way a CANCEL is.  What the agent    *)
(* answers is chosen freely.  Any entry may expire, but not while a        *)
(* goroutine is between looking a transaction up and writing its           *)
(* responses: the lifetimes are seconds, those steps are local.            *)
(***************************************************************************)
EXTENDS Naturals, Sequences, SequencesExt, FiniteSets, SipTransaction

CONSTANTS
    Workers,        \* goroutines that may run at a time
    RSeqs,          \* RSeq numbers the client may use, 1 .. n
    MaxHandled      \* bound on the executions of one request

VARIABLES
    cache,          \* s.transactions: the responses kept for a request, <<>> for none
    finalRetransmit, finalAcked,              \* s.inviteRetransmits, s.inviteFinalAcks
    relPending, relRetransmit, relAcked,      \* s.reliable1xxPending, ...Retransmit, ...Acks
    worker,
    handled,        \* executions of each request
    excused         \* requests that may be executed again, and GivenUp

wireTables == <<finalRetransmit, finalAcked, relPending, relRetransmit, relAcked>>
wireVars == <<cache, wireTables, worker, handled, excused>>

Prack(r) == <<"PRACK", r>>
Pracks == {Prack(r) : r \in RSeqs}
INVITE == <<"INVITE", 0>>
ACK == <<"ACK", 0>>
CANCEL == <<"CANCEL", 0>>
Requests == {INVITE, CANCEL} \cup Pracks
\* a provisional was not written, retransmitted to its deadline, or its PRACK forgotten
GivenUp == <<"180", 0>>

\* A response: its status and its RSeq (0: not reliable)
Response(code, rseq) == [code |-> code, rseq |-> rseq]
Finals == {200, 486}

Idle == [pc |-> "idle", req |-> ACK, todo |-> <<>>, kept |-> <<>>]

WireInit ==
    /\ cache = [r \in Requests |-> <<>>]
    /\ finalRetransmit = FALSE /\ finalAcked = FALSE
    /\ relPending = {} /\ relRetransmit = {} /\ relAcked = {}
    /\ worker = [w \in Workers |-> Idle]
    /\ handled = [r \in Requests |-> 0]
    /\ excused = {}

----------------------------------------------------------------------------
(* The transaction cache *)

\* The server transaction the cached responses stand for
transactionForRequest(req, responses) ==
    LET step(state, r) == AdvanceSIPServerTransaction(
            [Method |-> req[1], State |-> state, Event |-> "response", Code |-> r.code,
             Reliable |-> FALSE, Retransmission |-> FALSE, Last |-> 0,
             TimerConfig |-> [T1 |-> 1, T2 |-> 8, T4 |-> 0]]).NextState
    IN  FoldLeft(step, InitialSIPServerTransactionState(req[1]), responses)

MutStore(req, responses) ==
    IF Last(responses).code >= 300 THEN UNCHANGED cache
    ELSE cache' = [cache EXCEPT ![req] = responses]

storeTransactionForRequest(req, responses) ==
    cache' = [cache EXCEPT ![req] = responses]

\* The last response kept for the INVITE is provisional
hasPendingInviteTransactionForCancel ==
    cache[INVITE] # <<>> /\ Last(cache[INVITE]).code < 200

----------------------------------------------------------------------------
(* Datagrams *)

Unstored(req) ==
    \E w \in Workers : worker[w].req = req /\ worker[w].pc \in {"handle", "forward"}

\* handlePacket and the head of handleRequest: a cached transaction is
\* answered again, anything else is executed
handlePacket(w, req) ==
    /\ worker[w].pc = "idle"
    /\ IF cache[req] # <<>>
       THEN /\ worker' = [worker EXCEPT ![w] =
                  [Idle EXCEPT !.pc = "write", !.req = req, !.todo = cache[req]]]
            /\ UNCHANGED <<handled, excused>>
       ELSE /\ handled[req] < MaxHandled
            /\ worker' = [worker EXCEPT ![w] = [Idle EXCEPT !.pc = "handle", !.req = req]]
            /\ handled' = [handled EXCEPT ![req] = @ + 1]
            /\ excused' = IF Unstored(req) THEN excused \cup {req} ELSE excused
    /\ UNCHANGED <<cache, wireTables>>

\* The answer of a request other than INVITE is cached and then written
Answer(w, response) ==
    /\ storeTransactionForRequest(worker[w].req, <<response>>)
    /\ worker' = [worker EXCEPT ![w].pc = "write", ![w].todo = <<response>>]

\* stopInviteFinalRetransmission: the ACK is remembered even when nothing is
\* being retransmitted yet
stopInviteFinalRetransmission(w) ==
    /\ worker[w].pc = "idle"
    /\ finalAcked' = TRUE
    /\ finalRetransmit' = FALSE
    /\ UNCHANGED <<cache, worker, relPending, relRetransmit, relAcked, handled, excused>>

handlePrack(w, r) ==
    /\ worker[w].pc = "handle" /\ worker[w].req = Prack(r)
    /\ IF r \notin relPending
       THEN Answer(w, Response(481, 0)) /\ UNCHANGED wireTables
       ELSE /\ relAcked' = relAcked \cup {r}
            /\ relPending' = relPending \ {r}
            /\ relRetransmit' = relRetransmit \ {r}
            /\ worker' = [worker EXCEPT ![w].pc = "forward"]
            /\ UNCHANGED <<cache, finalRetransmit, finalAcked>>
    /\ UNCHANGED <<handled, excused>>

\* The agent's answer to an acknowledged PRACK and to a CANCEL of a pending
\* INVITE
ForwardAnswered(w) ==
    /\ \/ worker[w].pc = "forward"
       \/ /\ worker[w].pc = "handle" /\ worker[w].req = CANCEL
          /\ hasPendingInviteTransactionForCancel
    /\ \E code \in Finals : Answer(w, Response(code, 0))
    /\ UNCHANGED <<wireTables, handled, excused>>

CancelUnmatched(w) ==
    /\ worker[w].pc = "handle" /\ worker[w].req = CANCEL
    /\ ~hasPendingInviteTransactionForCancel
    /\ Answer(w, Response(481, 0))
    /\ UNCHANGED <<wireTables, handled, excused>>

----------------------------------------------------------------------------
(* INVITE *)

\* handleInvite caches and sends 100 Trying before anything else
handleInvite(w) ==
    /\ worker[w].pc = "handle" /\ worker[w].req = INVITE
    /\ storeTransactionForRequest(INVITE, <<Response(100, 0)>>)
    /\ worker' = [worker EXCEPT ![w].pc = "ringing", ![w].kept = <<Response(100, 0)>>]
    /\ UNCHANGED <<wireTables, handled, excused>>

\* A provisional of the client: cached, then written
Provisional(w, r) ==
    /\ worker[w].pc = "ringing"
    /\ Response(180, r) \notin Range(worker[w].kept)
    /\ LET kept == Append(worker[w].kept, Response(180, r))
       IN  /\ storeTransactionForRequest(INVITE, kept)
           /\ worker' = [worker EXCEPT ![w].pc = "emit", ![w].kept = kept]
    /\ UNCHANGED <<wireTables, handled, excused>>

startReliableProvisionalRetransmission(rseq) ==
    relRetransmit' = IF rseq # 0 /\ rseq \notin relAcked
                     THEN relRetransmit \cup {rseq} ELSE relRetransmit

\* The write starts the retransmission; a write that fails ends the handler's
\* wait with an error, and the INVITE is answered as failed
EmitProvisional(w) ==
    /\ worker[w].pc = "emit"
    /\ \/ /\ startReliableProvisionalRetransmission(Last(worker[w].kept).rseq)
          /\ worker' = [worker EXCEPT ![w].pc = "track"]
          /\ UNCHANGED excused
       \/ /\ worker' = [worker EXCEPT ![w].pc = "failing"]
          /\ excused' = excused \cup {GivenUp}
          /\ UNCHANGED relRetransmit
    /\ UNCHANGED <<cache, finalRetransmit, finalAcked, relPending, relAcked, handled>>

trackReliableProvisional(w) ==
    /\ worker[w].pc = "track"
    /\ relPending' = LET r == Last(worker[w].kept).rseq
                     IN  IF r # 0 /\ r \notin relAcked THEN relPending \cup {r} ELSE relPending
    /\ worker' = [worker EXCEPT ![w].pc = "ringing"]
    /\ UNCHANGED <<cache, finalRetransmit, finalAcked, relRetransmit, relAcked,
                   handled, excused>>

InviteFinal(w) ==
    /\ worker[w].pc \in {"ringing", "failing"}
    /\ \E code \in (IF worker[w].pc = "failing" THEN {486} ELSE Finals) :
          /\ storeTransactionForRequest(INVITE, Append(worker[w].kept, Response(code, 0)))
          /\ worker' = [worker EXCEPT ![w].pc = "write", ![w].kept = <<>>,
                                      ![w].todo = <<Response(code, 0)>>]
    /\ UNCHANGED <<wireTables, handled, excused>>

----------------------------------------------------------------------------
(* Writing responses *)

\* After the last response the goroutine is gone
Next1(w) ==
    worker' = [worker EXCEPT ![w] = IF Len(@.todo) = 1 THEN Idle
                                    ELSE [@ EXCEPT !.pc = "write", !.todo = Tail(@)]]

stopReliableProvisionalsForInvite ==
    /\ relAcked' = relAcked \cup relRetransmit
    /\ relRetransmit' = {}
    /\ relPending' = {}

\* writeResponse and afterPacketResponse
WriteResponse(w) ==
    /\ worker[w].pc = "write"
    /\ LET resp == Head(worker[w].todo)
       IN  IF worker[w].req = INVITE /\ resp.code >= 200
           THEN /\ stopReliableProvisionalsForInvite
                /\ worker' = [worker EXCEPT ![w].pc = "final"]
           ELSE /\ startReliableProvisionalRetransmission(resp.rseq)
                /\ Next1(w)
                /\ UNCHANGED <<relAcked, relPending>>
    /\ UNCHANGED <<cache, finalRetransmit, finalAcked, handled, excused>>

startInviteFinalRetransmission(w) ==
    /\ worker[w].pc = "final"
    /\ finalRetransmit' = (finalRetransmit \/ ~finalAcked)
    /\ Next1(w)
    /\ UNCHANGED <<cache, finalAcked, relPending, relRetransmit, relAcked, handled, excused>>

----------------------------------------------------------------------------
(* Time *)

Quiet == \A w \in Workers : worker[w].pc \in {"idle", "ringing", "forward"}

\* runWireResponseRetransmission returns at its deadline
RetransmissionDeadline ==
    /\ Quiet
    /\ \/ finalRetransmit /\ finalRetransmit' = FALSE /\ UNCHANGED <<relRetransmit, excused>>
       \/ \E r \in relRetransmit : /\ relRetransmit' = relRetransmit \ {r}
                                   /\ excused' = excused \cup {GivenUp}
                                   /\ UNCHANGED finalRetransmit
    /\ UNCHANGED <<cache, finalAcked, relPending, relAcked, worker, handled>>

\* pruneWireStateLocked forgets what has expired
pruneWireStateLocked ==
    /\ Quiet
    /\ \/ /\ \E req \in Requests : /\ cache[req] # <<>>
                                   /\ cache' = [cache EXCEPT ![req] = <<>>]
                                   /\ excused' = excused \cup {req}
          /\ UNCHANGED <<finalAcked, relPending, relAcked>>
       \/ /\ \/ finalAcked /\ finalAcked' = FALSE /\ UNCHANGED <<relPending, relAcked>>
             \/ \E r \in relPending : relPending' = relPending \ {r} /\ UNCHANGED <<finalAcked, relAcked>>
             \/ \E r \in relAcked : relAcked' = relAcked \ {r} /\ UNCHANGED <<finalAcked, relPending>>
          /\ excused' = IF relAcked' # relAcked THEN excused \cup {GivenUp} ELSE excused
          /\ UNCHANGED cache
    /\ UNCHANGED <<finalRetransmit, relRetransmit, worker, handled>>

WireNext ==
    \/ \E w \in Workers :
          \/ \E req \in Requests : handlePacket(w, req)
          \/ stopInviteFinalRetransmission(w)
          \/ \E r \in RSeqs : handlePrack(w, r)
          \/ ForwardAnswered(w) \/ CancelUnmatched(w)
          \/ handleInvite(w) \/ \E r \in RSeqs : Provisional(w, r)
          \/ EmitProvisional(w) \/ trackReliableProvisional(w) \/ InviteFinal(w)
          \/ WriteResponse(w) \/ startInviteFinalRetransmission(w)
    \/ RetransmissionDeadline \/ pruneWireStateLocked

WireSpec == WireInit /\ [][WireNext]_wireVars

----------------------------------------------------------------------------
(* Properties *)

\* Once its ACK or PRACK has arrived a response is not retransmitted: also when
\* the acknowledgement overtakes the goroutine that is about to start the
\* retransmission, and when a copy of the request is answered from the cache.
AckStopsRetransmission ==
    /\ finalAcked => ~finalRetransmit
    /\ relAcked \cap relRetransmit = {}

\* A reliable provisional is not retransmitted behind the final response of
\* its INVITE: whenever the final is being retransmitted and no goroutine is
\* still writing, the retransmissions of the provisionals have been stopped.
\* Excused are an INVITE executed twice, a provisional that could not be written
\* when it was due, and one retransmitted to its deadline or whose PRACK has
\* expired before the final: a copy of the INVITE may then write it from the
\* cache and start it again.
FinalEndsProvisionals ==
    /\ finalRetransmit /\ \A w \in Workers : worker[w].pc = "idle"
    /\ handled[INVITE] = 1 /\ GivenUp \notin excused
    => relRetransmit = {}

\* A request that arrives again is answered from the cache and not executed
\* again, unless the copy overtook the caching of the first answer or the
\* cached transaction had expired.
HandledOnce ==
    \A req \in Requests : handled[req] > 1 => req \in excused

\* A CANCEL matches the INVITE exactly while the server transaction that the
\* cached responses amount to is proceeding: what hasPendingInviteTransaction-
\* ForCancel reads off the last response agrees with the transaction machine.
CancelMatchesTransaction ==
    cache[INVITE] # <<>> =>
        (hasPendingInviteTransactionForCancel
         <=> transactionForRequest(INVITE, cache[INVITE]) = "proceeding")
============================================================================

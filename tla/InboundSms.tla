------------------------------ MODULE InboundSms ------------------------------
(***************************************************************************)
(* Incoming SIP MESSAGE requests (messaging/ims_inbound_sms.go): unwrapping *)
(* multipart and CPIM bodies down to the part that is handled, the RP layer *)
(* answers, and the reassembly of concatenated texts with its age limit    *)
(* and its limit on open sets.                                             *)
(*                                                                         *)
(* A document is [type, ok, body]: ok is FALSE for one that does not parse  *)
(* (or a text without content); body is a sequence of parts for multipart,  *)
(* a document for CPIM, an RPDU for 3GPP SMS.                               *)
(***************************************************************************)
EXTENDS Integers, Sequences, FiniteSets, SequencesExt, TLC

CONSTANTS Messages,          \* concatenated texts under way to this device
          Total,             \* parts of each of them
          Documents,         \* the MESSAGE bodies the network sends, a sequence
          smsConcatMaxSets,
          imsMultipartMaxDepth,
          MaxArrivals        \* bound: concatenated parts received

VARIABLES smsConcat,   \* open sets, the least recently updated first
          arrived,     \* history: arrivals of each part
          dispatched,  \* history: times a text was handed to the host
          mixed,       \* history: a text was handed over with another's part
          dropped,     \* history: texts that lost a part to age or eviction
          result       \* the answer to the last MESSAGE

vars == <<smsConcat, arrived, dispatched, mixed, dropped, result>>

Seqs == 1 .. Total

-----------------------------------------------------------------------------
(* Which part of a body is handled *)

Answer(code) == [code |-> code, leaf |-> "none", body |-> "none", wrapped |-> FALSE]

imsMultipartContentPriorities == <<"message/cpim", "application/vnd.3gpp.sms", "message/imdn+xml", "text/plain">>
imsMessageMultipartSupportedContentType(type) == type \in Range(imsMultipartContentPriorities)

(* The parts that are not multipart themselves, in order; an error at any  *)
(* level (no part, too deep) is an error of the whole body.                *)
RECURSIVE LeafParts(_, _)
LeafParts(parts, depth) ==
    LET sub(i) == LeafParts(parts[i].doc.body, depth + 1)
        flat(i) == IF parts[i].doc.type = "multipart" THEN sub(i).parts ELSE <<parts[i]>>
    IN IF \/ depth > imsMultipartMaxDepth \/ parts = <<>>
          \/ \E i \in DOMAIN parts : parts[i].doc.type = "multipart" /\ ~sub(i).ok
       THEN [ok |-> FALSE, parts |-> <<>>]
       ELSE [ok |-> TRUE, parts |-> FlattenSeq([i \in DOMAIN parts |-> flat(i)])]

(* The part "start" names, when its type is supported. *)
imsMessageMultipartStartPart(parts, start) ==
    LET named == SelectSeq(parts, LAMBDA p : start # "" /\ p.id = start) IN
    IF named # <<>> /\ imsMessageMultipartSupportedContentType(Head(named).doc.type) THEN <<Head(named)>> ELSE <<>>

ByPriority(parts) ==
    FlattenSeq([k \in DOMAIN imsMultipartContentPriorities |->
        SelectSeq(parts, LAMBDA p : p.doc.type = imsMultipartContentPriorities[k])])

RECURSIVE HandleIMSMessage(_)
handleIMSMultipartMessage(doc) ==
    LET leaves == LeafParts(doc.body, 0)
        chosen == imsMessageMultipartStartPart(leaves.parts, doc.start) \o ByPriority(leaves.parts)
    IN CASE ~leaves.ok -> Answer(400)
         [] leaves.ok /\ chosen = <<>> -> Answer(415)
         [] OTHER -> HandleIMSMessage(Head(chosen).doc)

handleIMSCPIMMessage(doc) ==
    IF ~doc.ok THEN Answer(400) ELSE [HandleIMSMessage(doc.body) EXCEPT !.wrapped = TRUE]

HandleIMSMessage(doc) ==
    CASE doc.type = "multipart" -> handleIMSMultipartMessage(doc)
      [] doc.type = "message/cpim" -> handleIMSCPIMMessage(doc)
      [] doc.type \in {"text/plain", "application/vnd.3gpp.sms", "message/imdn+xml"} ->
            [Answer(IF doc.ok THEN 200 ELSE 400) EXCEPT !.leaf = doc.type, !.body = doc.body]
      [] OTHER -> Answer(415)

Handled == [d \in DOMAIN Documents |-> HandleIMSMessage(Documents[d])]

-----------------------------------------------------------------------------
(* Concatenated texts *)

InboundInit ==
    /\ smsConcat = <<>>
    /\ arrived = [m \in Messages |-> [i \in Seqs |-> 0]]
    /\ dispatched = [m \in Messages |-> 0]
    /\ mixed = FALSE /\ dropped = {}
    /\ result = [code |-> 0, reply |-> "none"]

(* A set is found by sender, recipient, reference and total: c.key. *)
SetOf(sets, key) == SelectSeq(sets, LAMBDA s : s.key = key)
Without(sets, key) == SelectSeq(sets, LAMBDA s : s.key # key)
OwnersIn(sets) == UNION {{sets[i].parts[q] : q \in Seqs} \ {"none"} : i \in DOMAIN sets}

cleanupSMSConcatLocked(sets, expired) == SubSeq(sets, expired + 1, Len(sets))
evictOldestSMSConcatLocked(sets) == IF Len(sets) >= smsConcatMaxSets THEN Tail(sets) ELSE sets

validSMSConcatInfo(c) == c.total > 1 /\ c.seq >= 1 /\ c.seq <= c.total


collectSMSConcatPart(sets, c) ==
    LET known == SetOf(sets, c.key)
        rest == IF known = <<>> THEN evictOldestSMSConcatLocked(sets) ELSE Without(sets, c.key)
        old == IF known = <<>> THEN [q \in Seqs |-> "none"] ELSE Head(known).parts
        parts == IF old[c.seq] = "none" THEN [old EXCEPT ![c.seq] = c.msg] ELSE old
        ready == \A q \in Seqs : parts[q] # "none"
    IN [ready |-> ready, parts |-> parts,
        sets |-> IF ready THEN rest ELSE Append(rest, [key |-> c.key, parts |-> parts])]

(* RP-DATA with a DELIVER of a concatenated text.  Any of the oldest sets  *)
(* may have passed smsConcatTTL by now.                                    *)
ReceivePart(c, expired) ==
    LET kept == cleanupSMSConcatLocked(smsConcat, expired)
        got == collectSMSConcatPart(kept, c)
        aged == SubSeq(smsConcat, 1, expired)
        evicted == SelectSeq(kept, LAMBDA s : s.key # c.key /\ SetOf(got.sets, s.key) = <<>>)
        text == got.parts[1]
    IN /\ smsConcat' = got.sets
       /\ arrived' = [arrived EXCEPT ![c.msg][c.seq] = @ + 1]
       /\ dispatched' = IF got.ready THEN [dispatched EXCEPT ![text] = @ + 1] ELSE dispatched
       /\ mixed' = (mixed \/ (got.ready /\ \E q \in Seqs : got.parts[q] # text))
       /\ dropped' = dropped \cup OwnersIn(aged) \cup OwnersIn(evicted)
       /\ result' = [code |-> 200, reply |-> "RP-ACK"]

(* HandleIncomingSMS refuses a text without content and without header.    *)
HandleIncomingSMS(ok, refused) ==
    result' = IF ~ok THEN [code |-> 400, reply |-> refused]
              ELSE [code |-> 200, reply |-> IF refused = "none" THEN "none" ELSE "RP-ACK"]

(* A delivery report: one for an unknown part is accepted, a store that    *)
(* fails is not.                                                           *)
DeliveryReport(reply) ==
    \E code \in {200, 500} : result' = [code |-> code, reply |-> reply]

handleIMSRPData(rpdu, expired) ==
    CASE rpdu.tpdu = "concat" /\ validSMSConcatInfo(rpdu.part) -> ReceivePart(rpdu.part, expired)
      [] rpdu.tpdu \in {"deliver", "empty-text"} \/ (rpdu.tpdu = "concat" /\ ~validSMSConcatInfo(rpdu.part)) ->
            /\ HandleIncomingSMS(rpdu.tpdu # "empty-text", "RP-ERROR")
            /\ UNCHANGED <<smsConcat, arrived, dispatched, mixed, dropped>>
      [] rpdu.tpdu = "status-report" -> DeliveryReport("RP-ACK") /\ UNCHANGED <<smsConcat, arrived, dispatched, mixed, dropped>>
      [] OTHER -> /\ result' = [code |-> 400, reply |-> "RP-ERROR"]      \* no TPDU, malformed, or another type
                  /\ UNCHANGED <<smsConcat, arrived, dispatched, mixed, dropped>>

handleIMS3GPPSMS(rpdu, expired) ==
    CASE rpdu.kind = "RP-DATA" -> handleIMSRPData(rpdu, expired)
      [] rpdu.kind \in {"RP-ACK", "RP-ERROR"} /\ rpdu.tpdu # "bad" ->
            DeliveryReport("none") /\ UNCHANGED <<smsConcat, arrived, dispatched, mixed, dropped>>
      [] OTHER -> /\ result' = [code |-> 400, reply |-> "none"]
                  /\ UNCHANGED <<smsConcat, arrived, dispatched, mixed, dropped>>

Concat(d) == LET h == Handled[d] IN h.leaf = "application/vnd.3gpp.sms" /\ h.body.tpdu = "concat" /\ validSMSConcatInfo(h.body.part)
Arrivals == LET n[S \in SUBSET (Messages \X Seqs)] ==
                  IF S = {} THEN 0 ELSE LET x == CHOOSE x \in S : TRUE IN arrived[x[1]][x[2]] + n[S \ {x}]
            IN n[Messages \X Seqs]

Receive(d) ==
    LET h == Handled[d]
        rest == UNCHANGED <<smsConcat, arrived, dispatched, mixed, dropped>>
    IN CASE h.leaf = "application/vnd.3gpp.sms" ->
              /\ Concat(d) => Arrivals < MaxArrivals
              /\ \E expired \in IF Concat(d) THEN 0 .. Len(smsConcat) ELSE {0} : handleIMS3GPPSMS(h.body, expired)
         [] h.leaf = "text/plain" -> HandleIncomingSMS(h.code = 200, "none") /\ rest
         [] h.leaf = "message/imdn+xml" ->
              /\ IF h.code = 400 THEN result' = [code |-> 400, reply |-> "none"] ELSE DeliveryReport("none")
              /\ rest
         [] OTHER -> result' = [code |-> h.code, reply |-> "none"] /\ rest

InboundNext == \E d \in DOMAIN Documents : Receive(d)

InboundSpec == InboundInit /\ [][InboundNext]_vars

-----------------------------------------------------------------------------
(* Properties *)

=============================================================================

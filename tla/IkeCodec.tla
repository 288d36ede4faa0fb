------------------------------ MODULE IkeCodec ------------------------------
(***************************************************************************)
(* The encodings of engine/swu/ikev2: payload chains (types.go), the       *)
(* encrypted payload SK (sk.go) and its fragments (fragments.go), Notify   *)
(* and Delete (payloads.go), SA (sa.go), CP and traffic selectors          *)
(* (session_payloads.go).  The ciphers are symbolic: what is sealed under  *)
(* a key and a nonce is opened by these alone.                             *)
(***************************************************************************)
EXTENDS Octets

MaxLength == 65535
PayloadNoNext == 0
PayloadSK == 46
PayloadSKF == 53
ProtocolIKE == 1
ProtocolAH == 2
ProtocolESP == 3

-----------------------------------------------------------------------------
(* Payload chains.                                                         *)
isEncryptedPayload(type) == type \in {PayloadSK, PayloadSKF}
NextOf(ps, i) ==
  CASE isEncryptedPayload(ps[i].type) -> ps[i].next
    [] i < Len(ps) -> ps[i + 1].type
    [] OTHER -> PayloadNoNext
Linked(ps) == [i \in 1..Len(ps) |-> [ps[i] EXCEPT !.next = NextOf(ps, i)]]
MarshalPayloads(ps) ==
  IF \E i \in 1..Len(ps) : \/ isEncryptedPayload(ps[i].type) /\ i < Len(ps)
                           \/ Len(ps[i].body) + 4 > MaxLength
  THEN Fails
  ELSE << [first |-> IF ps = <<>> THEN PayloadNoNext ELSE ps[1].type,
           data |-> Joined([i \in 1..Len(ps) |->
                      <<NextOf(ps, i), IF ps[i].critical THEN 128 ELSE 0>>
                        \o Put16(Len(ps[i].body) + 4) \o ps[i].body])] >>

\* The chain is followed into the encrypted payload, and may leave octets over.
RECURSIVE MutParsePayloads(_, _)
MutParsePayloads(next, d) ==
  IF next = PayloadNoNext THEN << <<>> >>
  ELSE IF Len(d) < 4 \/ Get16(d, 3) \notin 4..Len(d) THEN Fails
  ELSE LET tail == MutParsePayloads(d[1], Rest(d, Get16(d, 3))) IN
       IF tail = Fails THEN Fails
       ELSE << << [type |-> next, next |-> d[1], critical |-> d[2] >= 128,
                   body |-> SubSeq(d, 5, Get16(d, 3))] >> \o tail[1] >>
RECURSIVE ParsePayloads(_, _)
ParsePayloads(next, d) ==
  IF next = PayloadNoNext THEN IF d = <<>> THEN << <<>> >> ELSE Fails
  ELSE IF Len(d) < 4 \/ Get16(d, 3) \notin 4..Len(d) THEN Fails
  ELSE LET tail == ParsePayloads(IF isEncryptedPayload(next) THEN PayloadNoNext ELSE d[1],
                                 Rest(d, Get16(d, 3))) IN
       IF tail = Fails THEN Fails
       ELSE << << [type |-> next, next |-> d[1], critical |-> d[2] >= 128,
                   body |-> SubSeq(d, 5, Get16(d, 3))] >> \o tail[1] >>

-----------------------------------------------------------------------------
(* The encrypted payload.                                                  *)
padIKEPlaintext(d, block) ==
  LET pad == (block - ((Len(d) + 1) % block)) % block
  IN d \o [i \in 1..pad |-> i] \o <<pad>>
unpadIKEPlaintext(d) ==
  IF d = <<>> THEN Fails ELSE IF Last(d) + 1 > Len(d) THEN Fails
  ELSE << SubSeq(d, 1, Len(d) - Last(d) - 1) >>

keysForDirection(keys, fromInitiator) ==
  IF fromInitiator THEN [e |-> keys.ei, a |-> keys.ai] ELSE [e |-> keys.er, a |-> keys.ar]
BlockSize(keys) == IF keys.cipher = "cbc" THEN 16 ELSE 1
ProtectMessage(header, keys, fromInitiator, inner, iv) ==
  LET k == keysForDirection(keys, fromInitiator)
      chain == MarshalPayloads(inner)
  IN IF chain = Fails \/ (inner = <<>> /\ header.exchange # "informational") THEN Fails
     ELSE LET h == [header EXCEPT !.next = chain[1].first]
              text == [key |-> k.e, iv |-> iv, plain |-> padIKEPlaintext(chain[1].data, BlockSize(keys))]
          IN << [header |-> h, iv |-> iv, text |-> text,
                 icv |-> [key |-> IF keys.cipher = "cbc" THEN k.a ELSE k.e, over |-> <<h, iv, text>>]] >>
UnprotectMessage(raw, keys, fromInitiator) ==
  LET k == keysForDirection(keys, fromInitiator)
      sealed == [key |-> IF keys.cipher = "cbc" THEN k.a ELSE k.e, over |-> <<raw.header, raw.iv, raw.text>>]
      plain == unpadIKEPlaintext(raw.text.plain)
  IN IF raw.icv # sealed \/ raw.text.key # k.e \/ raw.text.iv # raw.iv \/ plain = Fails
     THEN Fails ELSE ParsePayloads(raw.header.next, plain[1])

\* EncryptedFragment: number and total of a fragment, then its data.
FragmentValid(f) == f.number \in 1..f.total /\ f.data # <<>>
MarshalFragment(f) ==
  IF ~FragmentValid(f) THEN Fails ELSE << Put16(f.number) \o Put16(f.total) \o f.data >>
ParseEncryptedFragment(d) ==
  IF Len(d) <= 4 THEN Fails
  ELSE LET f == [number |-> Get16(d, 1), total |-> Get16(d, 3), data |-> Rest(d, 4)]
       IN IF FragmentValid(f) THEN <<f>> ELSE Fails

-----------------------------------------------------------------------------
(* Notify and Delete.                                                      *)
MarshalNotify(n) ==
  IF Len(n.spi) > 255 THEN Fails
  ELSE << <<n.protocol, Len(n.spi)>> \o Put16(n.type) \o n.spi \o n.data >>
ParseNotify(d) ==
  IF Len(d) < 4 THEN Fails ELSE IF Len(d) < 4 + d[2] THEN Fails
  ELSE << [protocol |-> d[1], type |-> Get16(d, 3), spi |-> SubSeq(d, 5, 4 + d[2]), data |-> Rest(d, 4 + d[2])] >>

validateDelete(x) ==
  CASE x.protocol = ProtocolIKE -> x.spis = <<>>
    [] x.protocol \in {ProtocolAH, ProtocolESP} ->
         x.spis # <<>> /\ Len(x.spis) <= MaxLength /\ \A i \in 1..Len(x.spis) : Len(x.spis[i]) = 4
    [] OTHER -> FALSE
MarshalDelete(x) ==
  IF ~validateDelete(x) THEN Fails
  ELSE << <<x.protocol, IF x.spis = <<>> THEN 0 ELSE Len(x.spis[1])>> \o Put16(Len(x.spis)) \o Joined(x.spis) >>
ParseDelete(d) ==
  IF Len(d) < 4 THEN Fails ELSE IF Len(d) # 4 + d[2] * Get16(d, 3) THEN Fails
  ELSE LET x == [protocol |-> d[1],
                 spis |-> [i \in 1..Get16(d, 3) |-> SubSeq(d, 5 + d[2] * (i - 1), 4 + d[2] * i)]]
       IN IF validateDelete(x) THEN <<x>> ELSE Fails

-----------------------------------------------------------------------------
(* Security associations.                                                  *)
marshalTransformAttributes(attrs) ==
  Joined([i \in 1..Len(attrs) |->
     IF Len(attrs[i].value) = 2 THEN Put16(attrs[i].type + 32768) \o attrs[i].value
     ELSE Put16(attrs[i].type) \o Put16(Len(attrs[i].value)) \o attrs[i].value])
parseTransformAttributes(data) ==
  Items(data, LAMBDA d :
    CASE Len(d) < 4 -> Fails
      [] Get16(d, 1) >= 32768 -> <<[type |-> Get16(d, 1) - 32768, value |-> SubSeq(d, 3, 4)], 4>>
      [] Len(d) < 4 + Get16(d, 3) -> Fails
      [] OTHER -> <<[type |-> Get16(d, 1), value |-> SubSeq(d, 5, 4 + Get16(d, 3))], 4 + Get16(d, 3)>>)

marshalTransform(t, more) ==
  LET attrs == marshalTransformAttributes(t.attrs)
  IN <<IF more THEN 3 ELSE 0, 0>> \o Put16(8 + Len(attrs)) \o <<t.type, 0>> \o Put16(t.id) \o attrs
\* The flag in front of an item: nothing may follow the one marked last.
FlagRight(d, length, more) == d[1] = more \/ (d[1] = 0 /\ length = Len(d))
parseTransform(d) ==
  IF Len(d) < 8 THEN Fails
  ELSE IF Get16(d, 3) \notin 8..Len(d) \/ ~FlagRight(d, Get16(d, 3), 3) THEN Fails
  ELSE LET attrs == parseTransformAttributes(SubSeq(d, 9, Get16(d, 3)))
       IN IF attrs = Fails THEN Fails
          ELSE <<[type |-> d[5], id |-> Get16(d, 7), attrs |-> attrs[1]], Get16(d, 3)>>

marshalProposal(p) ==
  <<p.number, p.protocol, Len(p.spi), Len(p.transforms)>> \o p.spi
    \o Joined([i \in 1..Len(p.transforms) |-> marshalTransform(p.transforms[i], i < Len(p.transforms))])
parseProposalBody(d) ==
  IF Len(d) < 4 + d[3] THEN Fails
  ELSE LET transforms == Items(Rest(d, 4 + d[3]), parseTransform)
       IN IF transforms = Fails \/ Len(transforms[1]) # d[4] THEN Fails
          ELSE << [number |-> d[1], protocol |-> d[2], spi |-> SubSeq(d, 5, 4 + d[3]),
                   transforms |-> transforms[1]] >>

MarshalSA(sa) ==
  IF sa = <<>> \/ \E i \in 1..Len(sa) : sa[i].transforms = <<>> THEN Fails
  ELSE << Joined([i \in 1..Len(sa) |->
            LET body == marshalProposal(sa[i])
            IN <<IF i < Len(sa) THEN 2 ELSE 0, 0>> \o Put16(Len(body) + 4) \o body]) >>
ParseSecurityAssociation(data) ==
  LET sa == Items(data, LAMBDA d :
              IF Len(d) < 4 THEN Fails
              ELSE IF Get16(d, 3) \notin 8..Len(d) \/ ~FlagRight(d, Get16(d, 3), 2) THEN Fails
              ELSE LET p == parseProposalBody(SubSeq(d, 5, Get16(d, 3)))
                   IN IF p = Fails THEN Fails ELSE <<p[1], Get16(d, 3)>>)
  IN IF sa = << <<>> >> THEN Fails ELSE sa

-----------------------------------------------------------------------------
(* Configuration and traffic selectors.                                    *)
MarshalConfiguration(c) ==
  IF c.type = 0 THEN Fails
  ELSE << <<c.type, 0, 0, 0>> \o Joined([i \in 1..Len(c.attrs) |->
            Put16(c.attrs[i].type) \o Put16(Len(c.attrs[i].value)) \o c.attrs[i].value]) >>
ParseConfiguration(data) ==
  IF Len(data) < 4 \/ data[1] = 0 THEN Fails
  ELSE LET attrs == Items(Rest(data, 4), LAMBDA d :
             IF Len(d) < 4 THEN Fails ELSE IF Len(d) < 4 + Get16(d, 3) THEN Fails
             ELSE <<[type |-> Get16(d, 1), value |-> SubSeq(d, 5, 4 + Get16(d, 3))], 4 + Get16(d, 3)>>)
       IN IF attrs = Fails THEN Fails ELSE << [type |-> data[1], attrs |-> attrs[1]] >>

AddrLen(type) == CASE type = 7 -> 4 [] type = 8 -> 16 [] OTHER -> 0
MarshalSelector(s) ==
  <<s.type, s.protocol>> \o Put16(8 + Len(s.start) + Len(s.end)) \o Put16(s.startPort) \o Put16(s.endPort)
    \o s.start \o s.end
parseTrafficSelector(d) ==
  IF Len(d) < 8 THEN Fails
  ELSE LET n == AddrLen(d[1]) IN
       IF n = 0 \/ Get16(d, 3) # 8 + 2 * n \/ Get16(d, 3) > Len(d) THEN Fails
       ELSE <<[type |-> d[1], protocol |-> d[2], startPort |-> Get16(d, 5), endPort |-> Get16(d, 7),
               start |-> SubSeq(d, 9, 8 + n), end |-> SubSeq(d, 9 + n, 8 + 2 * n)], 8 + 2 * n>>
MarshalSelectors(ss) ==
  IF Len(ss) \notin 1..255 \/ \E i \in 1..Len(ss) :
       AddrLen(ss[i].type) = 0 \/ {Len(ss[i].start), Len(ss[i].end)} # {AddrLen(ss[i].type)}
  THEN Fails
  ELSE << <<Len(ss), 0, 0, 0>> \o Joined([i \in 1..Len(ss) |-> MarshalSelector(ss[i])]) >>
ParseTrafficSelectors(d) ==
  IF Len(d) < 4 THEN Fails
  ELSE LET ss == Items(Rest(d, 4), parseTrafficSelector)
       IN IF ss = Fails THEN Fails ELSE IF Len(ss[1]) # d[1] THEN Fails ELSE ss

-----------------------------------------------------------------------------
(* What the encodings promise.                                             *)

ChainKept(ps) ==
  BackTo(MarshalPayloads(ps), LAMBDA w : ParsePayloads(w.first, w.data), Linked(ps))
PaddingKept(d, block) ==
  /\ Len(padIKEPlaintext(d, block)) % block = 0
  /\ unpadIKEPlaintext(padIKEPlaintext(d, block)) = <<d>>

\* An octet string cut short is not read as a shorter list of payloads.
CutRefused(ps, n) ==
  LET w == MarshalPayloads(ps)[1]
  IN n < Len(w.data) => ParsePayloads(w.first, SubSeq(w.data, 1, n)) = Fails

\* A sealed message opens to the payloads sealed in it, for the side and the keys
\* it was sealed with, and to nothing once a part of it has changed.
Altered(raw, part) ==
  CASE part = "none" -> raw
    [] part = "next" -> [raw EXCEPT !.header.next = PayloadNoNext]
    [] part = "id" -> [raw EXCEPT !.header.id = 1 - @]
    [] part = "iv" -> [raw EXCEPT !.iv = 1 - @]
SealOpens(header, keys, sender, reader, inner, part) ==
  LET raw == ProtectMessage(header, keys, sender, inner, 0)
      got == UnprotectMessage(Altered(raw[1], part), keys, reader)
  IN \/ raw = Fails
     \/ IF sender = reader /\ Altered(raw[1], part) = raw[1] THEN got = <<Linked(inner)>> ELSE got = Fails
=============================================================================

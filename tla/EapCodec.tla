------------------------------ MODULE EapCodec ------------------------------
(***************************************************************************)
(* EAP-AKA packets (engine/swu/eapaka): attributes and their padding, the  *)
(* values read out of them, AT_ENCR_DATA, AT_MAC, which is computed over   *)
(* the packet marshalled again rather than over the octets received, and   *)
(* the failure responses and how they are classified.  HMAC and AES-CBC    *)
(* are external: stand-ins that tell keys and contents apart.              *)
(***************************************************************************)
EXTENDS Octets

CodeRequest == 1
CodeResponse == 2
CodeSuccess == 3
CodeFailure == 4
TypeAKA == 23
TypeAKAPrime == 50
\* The subtypes and the attributes, by the numbers of eapaka.go.
Subtype == [challenge |-> 1, reject |-> 2, sync |-> 4, identity |-> 5, notification |-> 12, error |-> 14]
AT == [RAND |-> 1, AUTN |-> 2, RES |-> 3, AUTS |-> 4, PADDING |-> 6, PERMANENT |-> 10, MAC |-> 11,
       NOTIFICATION |-> 12, ANY |-> 13, IDENTITY |-> 14, VERSIONS |-> 15, SELECTED |-> 16, FULLAUTH |-> 17,
       COUNTER |-> 19, TOOSMALL |-> 20, NONCE |-> 21, ERROR |-> 22, KDFINPUT |-> 23, KDF |-> 24, IV |-> 129,
       ENCR |-> 130, PSEUDONYM |-> 132, REAUTHID |-> 133, CHECKCODE |-> 134, RESULT |-> 135, BIDDING |-> 136]

Zeros(n) == [i \in 1..n |-> 0]
requireZeroBytes(d) == \A i \in 1..Len(d) : d[i] = 0
paddingFor4(n) == (4 - (n % 4)) % 4
isAKAType(t) == t \in {0, TypeAKA, TypeAKAPrime}

-----------------------------------------------------------------------------
(* Attributes and packets.                                                 *)
MarshalAttribute(a) ==
  LET total == 2 + Len(a.data) + paddingFor4(2 + Len(a.data))
  IN IF total \notin 4..1020 THEN Fails
     ELSE << <<a.type, total \div 4>> \o a.data \o Zeros(total - 2 - Len(a.data)) >>
MarshalAttributes(as) ==
  IF \E i \in 1..Len(as) : MarshalAttribute(as[i]) = Fails THEN Fails
  ELSE << Joined([i \in 1..Len(as) |-> MarshalAttribute(as[i])[1]]) >>
firstAttribute(d) ==
  IF Len(d) < 4 THEN Fails
  ELSE IF 4 * d[2] \notin 4..Len(d) THEN Fails
  ELSE << [type |-> d[1], data |-> SubSeq(d, 3, 4 * d[2])], 4 * d[2] >>
ParseAttributes(d) == Items(d, firstAttribute)

FixedAttribute(t, v) == [type |-> t, data |-> <<0, 0>> \o v]
VariableAttribute(t, v) == [type |-> t, data |-> Put16(Len(v)) \o v]
RESAttribute(res) == [type |-> AT.RES, data |-> Put16(8 * Len(res)) \o res]
Uint16Attribute(t, n) == [type |-> t, data |-> Put16(n)]

MarshalPacket(p) ==
  LET as == MarshalAttributes(p.attrs)
      type == IF p.type = 0 THEN TypeAKA ELSE p.type
      body == IF p.data # <<>> THEN <<type>> \o p.data ELSE <<type, p.subtype, 0, 0>> \o as[1]
  IN CASE p.code \notin CodeRequest..CodeFailure -> Fails
       [] p.code \in {CodeSuccess, CodeFailure} -> << <<p.code, p.id, 0, 4>> >>
       [] p.code \in {CodeRequest, CodeResponse} ->
            IF (p.data = <<>> /\ as = Fails) \/ Len(body) + 4 > 65535 THEN Fails
            ELSE << <<p.code, p.id>> \o Put16(Len(body) + 4) \o body >>
NoPacket == [code |-> 0, id |-> 0, type |-> 0, subtype |-> 0, attrs |-> <<>>, data |-> <<>>]
ParsePacket(d) ==
  IF Len(d) < 4 THEN Fails
  ELSE LET length == Get16(d, 3)
           p == [NoPacket EXCEPT !.code = d[1], !.id = d[2]]
           as == ParseAttributes(SubSeq(d, 9, length))
       IN IF length \notin 4..Len(d) \/ d[1] \notin CodeRequest..CodeFailure THEN Fails
          ELSE IF d[1] \in {CodeSuccess, CodeFailure} THEN IF length = 4 THEN <<p>> ELSE Fails
          ELSE IF length < 8 THEN Fails
          ELSE IF d[5] \notin {TypeAKA, TypeAKAPrime}
               THEN << [p EXCEPT !.type = d[5], !.data = SubSeq(d, 6, length)] >>
          ELSE IF as = Fails THEN Fails
          ELSE << [p EXCEPT !.type = d[5], !.subtype = d[6], !.attrs = as[1]] >>

-----------------------------------------------------------------------------
(* The values of attributes.                                               *)
VariableValue(a) ==
  IF Len(a.data) < 2 THEN Fails
  ELSE LET n == Get16(a.data, 1) IN
       IF n > Len(a.data) - 2 THEN Fails
       ELSE IF requireZeroBytes(Rest(a.data, 2 + n)) THEN << SubSeq(a.data, 3, 2 + n) >> ELSE Fails
fixedValueExact(a, size) ==
  IF Len(a.data) \notin {2 + size, 2 + size + paddingFor4(4 + size)} THEN Fails
  ELSE IF a.data[1] = 0 /\ a.data[2] = 0 /\ requireZeroBytes(Rest(a.data, 2 + size))
       THEN << SubSeq(a.data, 3, 2 + size) >> ELSE Fails
fixed16Values(a) ==
  IF Len(a.data) < 18 \/ (Len(a.data) - 2) % 16 # 0 THEN Fails
  ELSE IF a.data[1] # 0 \/ a.data[2] # 0 THEN Fails
  ELSE << [i \in 1..((Len(a.data) - 2) \div 16) |-> SubSeq(a.data, 16 * i - 13, 16 * i + 2)] >>
directUint16Value(a) == IF Len(a.data) = 2 THEN << Get16(a.data, 1) >> ELSE Fails
VersionListValue(a) ==
  LET v == VariableValue(a) IN
  IF v = Fails THEN Fails
  ELSE IF v[1] = <<>> \/ Len(v[1]) % 2 # 0 THEN Fails
  ELSE << [i \in 1..(Len(v[1]) \div 2) |-> Get16(v[1], 2 * i - 1)] >>
BiddingValue(a) ==
  IF Len(a.data) # 2 THEN Fails
  ELSE IF a.data[1] \in {0, 128} /\ a.data[2] = 0 THEN << a.data[1] = 128 >> ELSE Fails
\* The length of AT_RES counts bits: the unused ones of the last octet are zero.
RESValue(a) ==
  IF Len(a.data) < 2 THEN Fails
  ELSE LET bits == Get16(a.data, 1)
           octets == (bits + 7) \div 8
           unused == (8 - (bits % 8)) % 8
       IN IF bits \notin 32..128 \/ Len(a.data) \notin {2 + octets, 2 + octets + paddingFor4(4 + octets)}
          THEN Fails
          ELSE IF a.data[2 + octets] % (2 ^ unused) = 0 /\ requireZeroBytes(Rest(a.data, 2 + octets))
               THEN << SubSeq(a.data, 3, 2 + octets) >> ELSE Fails
EncrDataValue(a) ==
  IF Len(a.data) < 2 THEN Fails
  ELSE IF a.data[1] = 0 /\ a.data[2] = 0 THEN << Rest(a.data, 2) >> ELSE Fails
KDFValue(a) ==
  IF Len(a.data) = 2 THEN << Get16(a.data, 1) >>
  ELSE IF Len(a.data) >= 4 /\ a.data[1] = 0 /\ a.data[2] = 0 THEN << Get16(a.data, 3) >> ELSE Fails
CheckcodeValue(a) ==
  IF Len(a.data) \notin {2, 22} THEN Fails
  ELSE IF a.data[1] = 0 /\ a.data[2] = 0 THEN << Rest(a.data, 2) >> ELSE Fails

ValidateAttribute(a) ==
  LET t == a.type IN
  CASE t \in {AT.RAND, AT.AUTN} -> fixed16Values(a) # Fails
    [] t = AT.RES -> RESValue(a) # Fails
    [] t = AT.AUTS -> fixedValueExact(a, 14) # Fails
    [] t = AT.PADDING -> Len(a.data) \in {2, 6, 10} /\ requireZeroBytes(a.data)
    [] t \in {AT.PERMANENT, AT.ANY, AT.FULLAUTH} -> fixedValueExact(a, 0) # Fails
    [] t \in {AT.MAC, AT.NONCE, AT.IV} -> fixedValueExact(a, 16) # Fails
    [] t \in {AT.NOTIFICATION, AT.SELECTED, AT.COUNTER, AT.ERROR} -> directUint16Value(a) # Fails
    [] t \in {AT.IDENTITY, AT.KDFINPUT, AT.PSEUDONYM, AT.REAUTHID} -> VariableValue(a) # Fails
    [] t = AT.VERSIONS -> VersionListValue(a) # Fails
    [] t \in {AT.TOOSMALL, AT.RESULT} -> a.data = <<0, 0>>
    [] t = AT.KDF -> KDFValue(a) # Fails
    [] t = AT.ENCR -> EncrDataValue(a) # Fails
    [] t = AT.CHECKCODE -> CheckcodeValue(a) # Fails
    [] t = AT.BIDDING -> BiddingValue(a) # Fails
    [] OTHER -> TRUE
ValidateAttributes(as) == \A i \in 1..Len(as) : ValidateAttribute(as[i])

OfType(as, t) == SelectSeq(as, LAMBDA a : a.type = t)
\* FindSingleAttribute fails on a duplicate; [ok, found, attr].
FindSingleAttribute(as, t) ==
  LET found == OfType(as, t)
  IN [ok |-> Len(found) < 2, found |-> found # <<>>, attr |-> IF found = <<>> THEN <<>> ELSE found[1]]
IdentityStateFromAttributes(as) ==
  LET ids == SelectSeq(as, LAMBDA a : a.type \in {AT.PSEUDONYM, AT.REAUTHID})
      last(t) == IF OfType(ids, t) = <<>> THEN <<>> ELSE VariableValue(Last(OfType(ids, t)))[1]
  IN IF \E i \in 1..Len(ids) : VariableValue(ids[i]) = Fails THEN Fails
     ELSE << [pseudonym |-> last(AT.PSEUDONYM), reauth |-> last(AT.REAUTHID)] >>

-----------------------------------------------------------------------------
(* AT_ENCR_DATA and AT_MAC.  A key is [id, prime]: prime has the length    *)
(* that EAP-AKA' keys have.                                                *)
Cipher(key, iv, d) == [i \in 1..Len(d) |-> (d[i] + 7 * key.id + iv[1]) % 256]
Decipher(key, iv, d) == [i \in 1..Len(d) |-> (d[i] - 7 * key.id - iv[1]) % 256]
EncryptAttributes(key, iv, as) ==
  LET plain == MarshalAttributes(as)
      over == Len(plain[1]) % 16
      pad == MarshalAttribute([type |-> AT.PADDING, data |-> Zeros(14 - over)])[1]
  IN IF plain = Fails THEN Fails
     ELSE << FixedAttribute(AT.ENCR, Cipher(key, iv, IF over = 0 THEN plain[1] ELSE plain[1] \o pad)) >>
stripEncryptedPadding(as) ==
  LET at == {i \in 1..Len(as) : as[i].type = AT.PADDING} IN
  IF at = {} THEN <<as>>
  ELSE IF at = {Len(as)} /\ ValidateAttribute(Last(as)) THEN << Front(as) >> ELSE Fails
DecryptAttributes(key, iv, a) ==
  LET text == EncrDataValue(a)
      as == ParseAttributes(Decipher(key, iv, text[1]))
  IN IF text = Fails THEN Fails
     ELSE IF text[1] = <<>> \/ Len(text[1]) % 16 # 0 THEN Fails
     ELSE IF as = Fails THEN Fails ELSE stripEncryptedPadding(as[1])

MACAttribute(mac) == FixedAttribute(AT.MAC, mac)
Hmac(key, d) == <<[key |-> key, over |-> d]>> \o Zeros(15)
\* Where AT_MAC is, <<offset, length>>, from the octets of the packet.
findMACAttribute(d) ==
  LET length == Get16(d, 3)
      find(as) ==
        LET macs == {i \in 1..Len(as) : as[i].type = AT.MAC}
            mac == CHOOSE i \in macs : TRUE
        IN IF \E i \in macs : macs = {i}
           THEN << 8 + Len(MarshalAttributes(SubSeq(as, 1, mac - 1))[1]), Len(as[mac].data) + 2 >> ELSE Fails
  IN IF Len(d) < 8 \/ length \notin 8..Len(d) THEN Fails
     ELSE With(ParseAttributes(SubSeq(d, 9, length)), LAMBDA as : IF as = Fails THEN Fails ELSE find(as[1]))
packetWithZeroedMAC(d) ==
  With(findMACAttribute(d), LAMBDA at :
    IF at = Fails THEN Fails
    ELSE IF at[2] # 20 THEN Fails
    ELSE << [i \in 1..Len(d) |-> IF i \in (at[1] + 3)..(at[1] + 20) THEN 0 ELSE d[i]] >>)
calculatePacketMAC(type, key, d, extra) ==
  With(packetWithZeroedMAC(d), LAMBDA zeroed :
    IF key.prime # (type = TypeAKAPrime) \/ zeroed = Fails THEN Fails ELSE << Hmac(key, zeroed[1] \o extra) >>)
verifyPacketMAC(type, key, d, extra) ==
  \A at \in {findMACAttribute(d)}, mac \in {calculatePacketMAC(type, key, d, extra)} :
    mac # Fails /\ SubSeq(d, at[1] + 5, at[1] + 20) = mac[1]
Genuine(p, keys) == With(MarshalPacket(p)[1], LAMBDA d : verifyPacketMAC(p.type, keys.aut, d, <<>>))
\* A packet whose last attribute is an empty AT_MAC, with the MAC filled in.
Signed(p, key, extra) ==
  With(MarshalPacket(p)[1], LAMBDA d :
    [p EXCEPT !.attrs[Len(p.attrs)] = MACAttribute(calculatePacketMAC(p.type, key, d, extra)[1])])

-----------------------------------------------------------------------------
(* Challenges, notifications and failures.                                 *)
challengeVectors(p) ==
  LET rand == FindSingleAttribute(p.attrs, AT.RAND)
      autn == FindSingleAttribute(p.attrs, AT.AUTN)
  IN IF ~(rand.ok /\ rand.found /\ autn.ok /\ autn.found) THEN Fails
     ELSE LET rs == fixed16Values(rand.attr)
              us == fixed16Values(autn.attr)
          IN IF rs = Fails \/ us = Fails THEN Fails
             ELSE IF Len(rs[1]) # Len(us[1]) THEN Fails
             ELSE << [i \in 1..Len(rs[1]) |-> <<rs[1][i], us[1][i]>>] >>
kdfValues(as) == [i \in 1..Len(OfType(as, AT.KDF)) |-> KDFValue(OfType(as, AT.KDF)[i])[1]]

\* keys is Fails, or << [aut, encr] >> once they are known.
NoIdentity == [pseudonym |-> <<>>, reauth |-> <<>>]
parseChallenge(p, keys) ==
  LET vectors == challengeVectors(p)
      iv == FindSingleAttribute(p.attrs, AT.IV)
      encr == FindSingleAttribute(p.attrs, AT.ENCR)
      inner == DecryptAttributes(keys[1].encr, fixedValueExact(iv.attr, 16)[1], encr.attr)
      state == IF keys = Fails \/ ~iv.found THEN <<NoIdentity>>
               ELSE IF inner = Fails THEN Fails ELSE IdentityStateFromAttributes(inner[1])
  IN IF \/ p.code # CodeRequest \/ p.subtype # Subtype.challenge \/ ~isAKAType(p.type)
        \/ ~ValidateAttributes(p.attrs) \/ vectors = Fails
        \/ \E t \in {AT.MAC, AT.RESULT, AT.CHECKCODE, AT.BIDDING, AT.KDFINPUT} : ~FindSingleAttribute(p.attrs, t).ok
        \/ ~iv.ok \/ ~encr.ok \/ iv.found # encr.found
     THEN Fails
     ELSE IF keys # Fails /\ ~Genuine(p, keys[1]) THEN Fails
     ELSE IF state = Fails THEN Fails
     ELSE << [vectors |-> vectors[1], kdfs |-> kdfValues(p.attrs), identity |-> state[1]] >>

Response(p, subtype, as) ==
  [NoPacket EXCEPT !.code = CodeResponse, !.id = p.id, !.type = IF p.type = 0 THEN TypeAKA ELSE p.type,
                   !.subtype = subtype, !.attrs = as]
BuildSynchronizationFailureResponse(p, auts) ==
  IF Len(auts) # 14 THEN Fails
  ELSE << Response(p, Subtype.sync, <<FixedAttribute(AT.AUTS, auts)>>
                     \o (IF p.type = TypeAKAPrime THEN OfType(p.attrs, AT.KDF) ELSE <<>>)) >>
BuildAuthenticationRejectResponse(p) == << Response(p, Subtype.reject, <<>>) >>
BuildClientErrorResponse(p, code) == << Response(p, Subtype.error, <<Uint16Attribute(AT.ERROR, code)>>) >>
BuildAKAFailureResponse(p, auts, cause) ==
  CASE cause = "sync" -> BuildSynchronizationFailureResponse(p, auts)
    [] cause = "auth" -> BuildAuthenticationRejectResponse(p)
    [] OTHER -> Fails
supportsVersion(versions) == 1 \in ToSet(versions)
BuildIdentityResponse(p, identity) ==
  LET list == OfType(p.attrs, AT.VERSIONS)
      answer == <<VariableAttribute(AT.IDENTITY, identity)>>
      versions == VersionListValue(list[1])
  IN IF identity = <<>> THEN Fails
     ELSE IF list = <<>> THEN << Response(p, Subtype.identity, answer) >>
     ELSE IF versions = Fails THEN BuildClientErrorResponse(p, 0)
     ELSE IF ~supportsVersion(versions[1]) THEN BuildClientErrorResponse(p, 1)
     ELSE << Response(p, Subtype.identity, answer \o <<Uint16Attribute(AT.SELECTED, 1)>>) >>

\* A notification with the P bit clear comes after authentication, and is signed.
BeforeAuthentication(code) == (code \div 16384) % 2 = 1
buildNotificationResponse(p, keys) ==
  LET note == OfType(p.attrs, AT.NOTIFICATION)
      code == directUint16Value(note[1])
      answer == Response(p, Subtype.notification, <<MACAttribute(Zeros(16))>>)
  IN IF p.code # CodeRequest \/ ~isAKAType(p.type) \/ note = <<>> THEN Fails
     ELSE IF code = Fails THEN Fails
     ELSE IF BeforeAuthentication(code[1]) THEN << Response(p, Subtype.notification, <<>>) >>
     ELSE IF keys = Fails THEN Fails
     ELSE IF ~Genuine(p, keys[1]) THEN Fails
     ELSE << Signed(answer, keys[1].aut, <<>>) >>

ParseSynchronizationFailureResponse(p) ==
  LET auts == FindSingleAttribute(p.attrs, AT.AUTS)
  IN IF ~isAKAType(p.type) \/ ~auts.ok \/ ~auts.found THEN Fails
     ELSE IF \/ fixedValueExact(auts.attr, 14) = Fails
             \/ \E i \in 1..Len(p.attrs) : p.attrs[i].type = AT.KDF /\ KDFValue(p.attrs[i]) = Fails
             \/ p.type = TypeAKAPrime /\ kdfValues(p.attrs) = <<>>
     THEN Fails ELSE fixedValueExact(auts.attr, 14)
ParseClientErrorResponse(p) ==
  LET err == FindSingleAttribute(p.attrs, AT.ERROR)
  IN IF ~isAKAType(p.type) \/ ~err.ok \/ ~err.found THEN Fails ELSE directUint16Value(err.attr)
clientErrorRecoveryAction(code) == IF code \in {2, 3} THEN "retry" ELSE "fail"
ClassifyAKARecoveryPacket(p) ==
  CASE p.code = CodeFailure -> "fail"
    [] p.code = CodeResponse /\ p.subtype = Subtype.sync ->
         IF ParseSynchronizationFailureResponse(p) = Fails THEN "invalid" ELSE "resync"
    [] p.code = CodeResponse /\ p.subtype = Subtype.reject -> IF isAKAType(p.type) THEN "fail" ELSE "invalid"
    [] p.code = CodeResponse /\ p.subtype = Subtype.error ->
         LET code == ParseClientErrorResponse(p)
         IN IF code = Fails THEN "invalid" ELSE clientErrorRecoveryAction(code[1])
    [] OTHER -> "none"

-----------------------------------------------------------------------------
(* What the encodings promise.                                             *)
OverWire(p) == ParsePacket(MarshalPacket(p)[1])

\* A value put in an attribute is the value read out of it by the other side,
\* whatever the padding, wherever in the packet it stands.
ValueKept(as, i, read(_), value) ==
  LET wire == MarshalAttributes(as) IN
  wire # Fails => LET got == ParseAttributes(wire[1])[1]
                  IN ValidateAttributes(got) /\ Len(got) = Len(as) /\ read(got[i]) = <<value>>

\* What is sealed opens to the identities in it; with other keys it does not.
IdentityKept(pseudonym, reauth, key, other, iv) ==
  LET as == <<VariableAttribute(AT.PSEUDONYM, pseudonym), VariableAttribute(AT.REAUTHID, reauth)>>
      sealed == EncryptAttributes(key, iv, as)
      got == DecryptAttributes(other, iv, sealed[1])
  IN IF key = other THEN IdentityStateFromAttributes(got[1]) = << [pseudonym |-> pseudonym, reauth |-> reauth] >>
     ELSE got = Fails \/ got[1] # DecryptAttributes(key, iv, sealed[1])[1]

\* A challenge the server signed is read and verifies at the client, which
\* marshals it again to do so; with another key it is refused.
ChallengeRead(p, keys, other, vectors, identity) ==
  \A got \in {OverWire(p)[1]} : \A c \in {parseChallenge(got, <<other>>)} :
    IF keys = other THEN c # Fails /\ c[1].vectors = vectors /\ c[1].identity = identity ELSE c = Fails

\* A notification after authentication is answered only when it is genuine, with
\* an answer the server verifies.
NotificationHonest(p, keys, other, code) ==
  \A got \in {OverWire(p)[1]} : \A answer \in {buildNotificationResponse(got, <<other>>)} :
    IF BeforeAuthentication(code) THEN answer # Fails
    ELSE IF keys # other THEN answer = Fails
    ELSE answer # Fails /\ Genuine(answer[1], keys)

\* The failure a client reports is the one the receiver recovers from.
FailureUnderstood(p, auts, cause) ==
  LET r == BuildAKAFailureResponse(p, auts, cause) IN
  r # Fails => LET got == OverWire(r[1])[1] IN
               /\ ClassifyAKARecoveryPacket(got) = (IF cause = "sync" THEN "resync" ELSE "fail")
               /\ cause = "sync" => ParseSynchronizationFailureResponse(got) = <<auts>>
\* An identity request is answered with the identity, or with the reason why not.
IdentityAnswered(p, identity, versions) ==
  LET got == OverWire(BuildIdentityResponse(p, identity)[1])[1] IN
  IF versions = <<>> \/ 1 \in ToSet(versions)
  THEN VariableValue(OfType(got.attrs, AT.IDENTITY)[1]) = <<identity>>
  ELSE ClassifyAKARecoveryPacket(got) = "fail" /\ ParseClientErrorResponse(got) = <<1>>
=============================================================================

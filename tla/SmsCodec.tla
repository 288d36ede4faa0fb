------------------------------- MODULE SmsCodec -------------------------------
(***************************************************************************)
(* The SMS formats of messaging.go and messaging/sms_pdu.go: splitting a   *)
(* text into parts, user data headers, 7-bit packing, addresses, times,    *)
(* validity periods, and the TPDU and RPDU frames around them.             *)
(*                                                                         *)
(* Octets are 0..255.  A text is a sequence of characters; a character is  *)
(* its code in the GSM alphabet, 128 + code when it is in the extension    *)
(* table, and from 256 on a character only UCS-2 can carry.  "error" is    *)
(* the result of a function that returns an error.                         *)
(***************************************************************************)
EXTENDS Integers, Sequences, SequencesExt, FiniteSetsExt, Bitwise

LOCAL INSTANCE Octets

CONSTANT UserDataOctets   \* octets of user data in a TPDU, 140

Error == [err |-> TRUE]
Ok(v) == [err |-> FALSE, val |-> v]
CeilDiv(a, b) == (a + b - 1) \div b
Drop(s, n) == SubSeq(s, n + 1, Len(s))
Take(s, n) == SubSeq(s, 1, n)
At(s, i) == s[i + 1]                     \* zero-based, as in the code

-----------------------------------------------------------------------------
(* Characters *)

Escape == 27
gsm7LockingCode(c) == c < 128
gsm7SingleShiftCode(c) == c \in 128 .. 255
gsm7Septets(c) == IF gsm7LockingCode(c) THEN <<c>> ELSE <<Escape, c - 128>>
isGSM7Text(text) == \A i \in DOMAIN text : text[i] < 256
utf16Units(c) == IF c <= 65535 THEN <<c>>
                 ELSE <<55296 + ((c - 65536) \div 1024), 56320 + ((c - 65536) % 1024)>>
utf8Len(c) == CASE c < 128 -> 1 [] c < 2048 -> 2 [] c < 65536 -> 3 [] OTHER -> 4

encodeGSM7WithLanguage(text) == FlattenSeq([i \in DOMAIN text |-> gsm7Septets(text[i])])

RECURSIVE decodeGSM7WithLanguage(_)
decodeGSM7WithLanguage(septets) ==
    IF septets = <<>> THEN <<>>
    ELSE IF Head(septets) = Escape /\ Len(septets) > 1
         THEN <<128 + septets[2]>> \o decodeGSM7WithLanguage(Drop(septets, 2))
         ELSE <<Head(septets)>> \o decodeGSM7WithLanguage(Tail(septets))

CharUnits(c, enc) == CASE enc = "gsm7" -> IF gsm7SingleShiftCode(c) THEN 2 ELSE 1
                       [] enc = "utf8" -> utf8Len(c)
                       [] OTHER -> Len(utf16Units(c))
SumUnits(text, enc) == FoldSeq(LAMBDA c, n : n + CharUnits(c, enc), 0, text)
messageLenWithLanguage(text, enc) == SumUnits(text, enc)

-----------------------------------------------------------------------------
(* Data coding scheme *)

ParseSMSDataCodingScheme(dcs) ==
    LET group == dcs \div 16
        third == (dcs \div 4) % 4
    IN [alphabet |-> CASE group <= 7 -> (CASE third = 1 -> "8bit" [] third = 2 -> "ucs2" [] OTHER -> "gsm7")
                       [] group = 14 -> "ucs2"
                       [] group = 15 -> IF third % 2 = 1 THEN "8bit" ELSE "gsm7"
                       [] OTHER -> "gsm7",
        compressed |-> group <= 7 /\ (dcs \div 32) % 2 = 1,
        reserved |-> (group <= 7 /\ third = 3) \/ group \in 8 .. 11,
        waiting |-> group \in 12 .. 14]

smsEncodingForDCS(dcs) ==
    LET a == ParseSMSDataCodingScheme(dcs).alphabet IN IF a = "8bit" THEN "utf8" ELSE a

validateSMSSubmitDataCodingScheme(dcs, enc) ==
    ~ParseSMSDataCodingScheme(dcs).compressed /\ smsEncodingForDCS(dcs) = enc

normalizeEncoding(text, requested) ==
    IF requested # "" THEN requested ELSE IF isGSM7Text(text) THEN "gsm7" ELSE "ucs2"

NoDCS == 256
normalizeSMSSubmitEncoding(text, requested, dcs) ==
    LET enc == IF requested = "" /\ dcs # NoDCS THEN smsEncodingForDCS(dcs) ELSE normalizeEncoding(text, requested)
    IN IF dcs # NoDCS /\ ~validateSMSSubmitDataCodingScheme(dcs, enc) THEN Error ELSE Ok(enc)

-----------------------------------------------------------------------------
(* User data header *)

smsConcatUDHElement(ref, refBits, total, partNo) ==
    CASE total > 255 \/ partNo <= 0 \/ partNo > total -> Error
      [] refBits = 8 /\ ref \in 0 .. 255 -> Ok(<<0, 3, ref, total, partNo>>)
      [] refBits = 16 /\ ref \in 0 .. 65535 -> Ok(<<8, 4, ref \div 256, ref % 256, total, partNo>>)
      [] OTHER -> Error

(* 0 bits: the width that holds both ports; NoPorts: the option is unset.  *)
NoPorts == [dest |-> 0, source |-> 0, bits |-> 0]
validateSMSApplicationPortOptions(p) ==
    LET bits == IF p.bits # 0 THEN p.bits ELSE IF p.dest <= 255 /\ p.source <= 255 THEN 8 ELSE 16
    IN IF p = NoPorts THEN Ok(0)
       ELSE IF bits \in {8, 16} /\ {p.dest, p.source} \subseteq 0 .. (2 ^ bits - 1) THEN Ok(bits) ELSE Error

smsApplicationPortUDHElement(p, bits) ==
    CASE bits = 0 -> <<>>
      [] bits = 8 -> <<4, 2, p.dest, p.source>>
      [] OTHER -> <<5, 4, p.dest \div 256, p.dest % 256, p.source \div 256, p.source % 256>>

SingleShiftIEI == 36
LockingShiftIEI == 37
LanguageElement(iei, lang) == IF lang = 0 THEN <<>> ELSE <<iei, 1, lang>>
smsUDHFromElements(body) == IF body = <<>> THEN <<>> ELSE <<Len(body)>> \o body

buildSMSSubmitUDH(o, bits, ref, refBits, total, partNo) ==
    LET concat == IF total > 1 THEN smsConcatUDHElement(ref, refBits, total, partNo) ELSE Ok(<<>>)
    IN IF concat.err THEN Error
       ELSE Ok(smsUDHFromElements(LanguageElement(SingleShiftIEI, o.single) \o LanguageElement(LockingShiftIEI, o.locking)
                                  \o smsApplicationPortUDHElement(o.ports, bits) \o concat.val))

smsSubmitUDHLength(o, bits, refBits) ==
    LET body == (IF o.single # 0 THEN 3 ELSE 0) + (IF o.locking # 0 THEN 3 ELSE 0)
                + (CASE bits = 0 -> 0 [] bits = 8 -> 4 [] OTHER -> 6)
                + (CASE refBits = 0 -> 0 [] refBits = 16 -> 6 [] OTHER -> 5)
    IN IF body = 0 THEN 0 ELSE 1 + body

(* The header's elements, in order, up to the first that is cut short.     *)
RECURSIVE UDHElements(_)
UDHElements(body) ==
    IF Len(body) < 2 \/ 2 + body[2] > Len(body) THEN <<>>
    ELSE <<[iei |-> body[1], data |-> SubSeq(body, 3, 2 + body[2])]>> \o UDHElements(Drop(body, 2 + body[2]))

NoConcat == [ref |-> 0, refBits |-> 0, total |-> 0, seq |-> 0]
parseSMSUDHInfo(udh) ==
    LET els == UDHElements(Drop(udh, 1))
        of(iei, n) == SelectSeq(els, LAMBDA e : e.iei = iei /\ Len(e.data) = n)
        concat == SelectSeq(els, LAMBDA e : \/ e.iei = 0 /\ Len(e.data) = 3 /\ e.data[2] > 1
                                            \/ e.iei = 8 /\ Len(e.data) = 4 /\ e.data[3] > 1)
        ports == SelectSeq(els, LAMBDA e : (e.iei = 4 /\ Len(e.data) = 2) \/ (e.iei = 5 /\ Len(e.data) = 4))
        lang(iei) == LET known == of(iei, 1) IN IF known = <<>> THEN 0 ELSE Last(known).data[1]
        c == Last(concat)
        p == Last(ports).data
    IN [concat |-> IF concat = <<>> THEN NoConcat
                   ELSE IF c.iei = 0 THEN [ref |-> c.data[1], refBits |-> 8, total |-> c.data[2], seq |-> c.data[3]]
                   ELSE [ref |-> 256 * c.data[1] + c.data[2], refBits |-> 16, total |-> c.data[3], seq |-> c.data[4]],
        ports |-> IF ports = <<>> THEN NoPorts
                  ELSE IF Len(p) = 2 THEN [dest |-> p[1], source |-> p[2], bits |-> 8]
                  ELSE [dest |-> 256 * p[1] + p[2], source |-> 256 * p[3] + p[4], bits |-> 16],
        single |-> lang(SingleShiftIEI), locking |-> lang(LockingShiftIEI)]

-----------------------------------------------------------------------------
(* Splitting a text into parts *)

smsPartLimitForUDH(enc, udh) ==
    CASE enc = "gsm7" -> (UserDataOctets * 8) \div 7 - CeilDiv(udh * 8, 7)
      [] enc = "utf8" -> UserDataOctets - udh
      [] OTHER -> (UserDataOctets - udh) \div 2

(* Characters are taken while they fit; the first is always taken.         *)
takeSMSChunkWithLanguage(text, enc, limit) ==
    LET fits == {n \in 1 .. Len(text) : n = 1 \/ SumUnits(Take(text, n), enc) <= limit} IN Max(fits)

RECURSIVE Chunks(_, _, _)
Chunks(text, enc, limit) ==
    IF text = <<>> THEN <<>>
    ELSE LET n == takeSMSChunkWithLanguage(text, enc, limit) IN <<Take(text, n)>> \o Chunks(Drop(text, n), enc, limit)

normalizeSMSConcatRefBits(ref, refBits) == IF refBits = 0 THEN (IF ref > 255 THEN 16 ELSE 8) ELSE refBits
validateSMSConcatOptions(ref, refBits) ==
    LET bits == normalizeSMSConcatRefBits(ref, refBits) IN
    IF bits \in {8, 16} /\ ref \in 0 .. (2 ^ bits - 1) THEN Ok(bits) ELSE Error
nextSMSConcatRef(n, refBits) == (n % (2 ^ refBits - 1)) + 1

(* Each part is first given the total computed from the text's length; a   *)
(* part numbered above it is an error, so a text whose characters do not   *)
(* fill the parts (an escape pair at a boundary) may be refused.           *)
segmentSMS(text, o, n) ==
    LET enc == normalizeSMSSubmitEncoding(text, o.encoding, NoDCS).val
        bits == validateSMSApplicationPortOptions(o.ports)
        len == messageLenWithLanguage(text, enc)
        single == buildSMSSubmitUDH(o, bits.val, 0, 0, 1, 1)
        refBits == validateSMSConcatOptions(o.ref, o.refBits)
        ref == IF o.ref = 0 THEN nextSMSConcatRef(n, refBits.val) ELSE o.ref
        limit == smsPartLimitForUDH(enc, smsSubmitUDHLength(o, bits.val, refBits.val))
        total == CeilDiv(len, limit)
        chunks == Chunks(text, enc, limit)
        part(i) == [text |-> chunks[i], enc |-> enc, partNo |-> i,
                    udh |-> buildSMSSubmitUDH(o, bits.val, ref, refBits.val, Len(chunks), i).val]
    IN IF bits.err THEN Error
       ELSE IF len <= smsPartLimitForUDH(enc, smsSubmitUDHLength(o, bits.val, 0))
            THEN Ok(<<[text |-> text, enc |-> enc, partNo |-> 1, udh |-> single.val]>>)
       ELSE IF refBits.err \/ limit <= 0 \/ total > 255 \/ Len(chunks) > total THEN Error
       ELSE Ok([i \in DOMAIN chunks |-> part(i)])

-----------------------------------------------------------------------------
(* User data *)

BitOf(v, i) == (v \div 2 ^ i) % 2
OctetOf(bit(_), first) == LET w(j) == bit(first + j) * 2 ^ j IN w(0) + w(1) + w(2) + w(3) + w(4) + w(5) + w(6) + w(7)

packSeptets(septets, offset) ==
    LET bit(n) == IF n < offset \/ (n - offset) \div 7 >= Len(septets) THEN 0
                  ELSE BitOf(At(septets, (n - offset) \div 7), (n - offset) % 7)
    IN IF septets = <<>> THEN <<>>
       ELSE [k \in 1 .. CeilDiv(offset + 7 * Len(septets), 8) |-> OctetOf(bit, 8 * (k - 1))]

unpackSeptets(data, count, offset) ==
    LET bit(n) == IF n \div 8 >= Len(data) THEN 0 ELSE BitOf(At(data, n \div 8), n % 8)
        septet(i) == LET w(j) == bit(offset + 7 * i + j) * 2 ^ j IN w(0) + w(1) + w(2) + w(3) + w(4) + w(5) + w(6)
    IN [i \in 1 .. count |-> septet(i - 1)]

FillBits(udh) == (7 - ((Len(udh) * 8) % 7)) % 7
smsPackedSeptetOctets(septets, offset) == IF septets <= 0 THEN 0 ELSE CeilDiv(offset + septets * 7, 8)

(* 8-bit text is carried octet by octet (characters below 128 here).       *)
encodeSMSUserDataWithLanguage(text, enc, udh) ==
    LET septets == encodeGSM7WithLanguage(text)
        units == FlattenSeq([i \in DOMAIN text |-> utf16Units(text[i])])
        octets == udh \o (IF enc = "utf8" THEN text
                          ELSE FlattenSeq([i \in DOMAIN units |-> <<units[i] \div 256, units[i] % 256>>]))
    IN IF enc = "gsm7"
       THEN [data |-> udh \o packSeptets(septets, FillBits(udh)),
             udl |-> Len(septets) + CeilDiv(Len(udh) * 8, 7), dcs |-> 0]
       ELSE [data |-> octets, udl |-> Len(octets), dcs |-> IF enc = "utf8" THEN 4 ELSE 8]

RECURSIVE utf16Decode(_)
utf16Decode(units) ==
    IF units = <<>> THEN <<>>
    ELSE IF Head(units) \in 55296 .. 56319 /\ Len(units) > 1
         THEN <<65536 + (Head(units) - 55296) * 1024 + (units[2] - 56320)>> \o utf16Decode(Drop(units, 2))
         ELSE <<Head(units)>> \o utf16Decode(Tail(units))

decodeUCS2(data) ==
    IF Len(data) % 2 # 0 THEN Error
    ELSE Ok(utf16Decode([k \in 1 .. (Len(data) \div 2) |-> 256 * data[2 * k - 1] + data[2 * k]]))

decodeSMSUserDataWithHeader(data, udl, dcs, hasUDH) ==
    LET hlen == IF hasUDH THEN data[1] + 1 ELSE 0
        udh == Take(data, hlen)
        payload == Drop(data, hlen)
        alphabet == ParseSMSDataCodingScheme(dcs).alphabet
        septets == udl - CeilDiv(hlen * 8, 7)
        fill == IF hasUDH THEN FillBits(udh) ELSE 0
        text == CASE alphabet = "ucs2" -> IF udl - hlen # Len(payload) THEN Error ELSE decodeUCS2(payload)
                  [] alphabet = "8bit" -> IF udl - hlen # Len(payload) THEN Error ELSE Ok(payload)
                  [] OTHER -> IF septets < 0 \/ smsPackedSeptetOctets(septets, fill) # Len(payload) THEN Error
                              ELSE Ok(decodeGSM7WithLanguage(unpackSeptets(payload, septets, fill)))
    IN IF (hasUDH /\ data = <<>>) THEN Error
       ELSE IF hlen > Len(data) \/ text.err THEN Error
       ELSE Ok([text |-> text.val, info |-> parseSMSUDHInfo(udh)])

-----------------------------------------------------------------------------
(* Addresses, digits being 0..14 (10..14 are * # a b c) *)

encodeSMSAddress(number) ==
    LET d == number.digits
        low(k) == d[2 * k - 1]
        high(k) == IF 2 * k <= Len(d) THEN d[2 * k] ELSE 15
    IN [digits |-> Len(d), toa |-> IF number.plus THEN 145 ELSE 129,
        bcd |-> [k \in 1 .. CeilDiv(Len(d), 2) |-> 16 * high(k) + low(k)]]

Alphanumeric(toa) == (toa \div 16) % 8 = 5
smsAddressOctets(digits, toa) == IF Alphanumeric(toa) THEN CeilDiv(digits * 7, 8) ELSE CeilDiv(digits, 2)

decodeSMSAddress(digits, toa, bcd) ==
    LET nibbles == FlattenSeq([k \in DOMAIN bcd |-> <<bcd[k] % 16, bcd[k] \div 16>>])
        ends == {i \in DOMAIN nibbles : i <= digits /\ nibbles[i] = 15}
        n == IF ends = {} THEN digits ELSE Min(ends) - 1
    IN CASE Alphanumeric(toa) -> Ok([plus |-> FALSE, digits |-> decodeGSM7WithLanguage(unpackSeptets(bcd, digits, 0))])
         [] ~Alphanumeric(toa) /\ n > Len(nibbles) -> Error
         [] OTHER -> Ok([plus |-> (toa \div 16) % 8 = 1, digits |-> Take(nibbles, n)])

encodeRPAddress(number) ==
    IF number.digits = <<>> THEN <<0>>
    ELSE LET a == encodeSMSAddress(number) IN <<1 + Len(a.bcd), a.toa>> \o a.bcd
decodeRPAddressValue(v) ==
    IF v = <<>> THEN Ok([plus |-> FALSE, digits |-> <<>>]) ELSE decodeSMSAddress(2 * (Len(v) - 1), v[1], Tail(v))

-----------------------------------------------------------------------------
(* Times, and validity periods in minutes *)

encodeSemiOctetDecimal(v) == 16 * (v % 10) + ((v \div 10) % 10)
decodeSemiOctetDecimal(v) == IF v % 16 > 9 \/ v \div 16 > 9 THEN -1 ELSE 10 * (v % 16) + (v \div 16)

(* ts: year, month, day, hour, minute, second, and quarters of the zone.   *)
encodeSMSTimestamp(ts) ==
    LET q == IF ts[7] < 0 THEN -ts[7] ELSE ts[7]
        tz == encodeSemiOctetDecimal(q)
    IN IF ts[1] \notin 1990 .. 2089 \/ q > 79 THEN Error
       ELSE Ok([i \in 1 .. 6 |-> encodeSemiOctetDecimal(ts[i] % 100)] \o <<IF ts[7] < 0 THEN tz | 8 ELSE tz>>)

decodeSMSTimestamp(raw) ==
    LET f == [i \in 1 .. 6 |-> decodeSemiOctetDecimal(raw[i])]
        negative == BitOf(raw[7], 3) = 1
        q == decodeSemiOctetDecimal(IF negative THEN raw[7] - 8 ELSE raw[7])
        year == IF f[1] >= 90 THEN 1900 + f[1] ELSE 2000 + f[1]
    IN IF \/ Len(raw) # 7 \/ f[1] < 0 \/ f[2] \notin 1 .. 12 \/ f[3] \notin 1 .. 31
          \/ f[4] \notin 0 .. 23 \/ f[5] \notin 0 .. 59 \/ f[6] \notin 0 .. 59 \/ q < 0
       THEN Error
       ELSE Ok(<<year, f[2], f[3], f[4], f[5], f[6], IF negative THEN -q ELSE q>>)

Day == 24 * 60
encodeSMSRelativeValidityPeriod(v) ==
    CASE v <= 720 -> CeilDiv(v, 5) - 1
      [] v > 720 /\ v <= Day -> 143 + Max({1, CeilDiv(v - 720, 30)})
      [] v > Day /\ v <= 30 * Day -> 166 + Max({2, CeilDiv(v, Day)})
      [] OTHER -> 192 + Max({5, CeilDiv(v, 7 * Day)})

-----------------------------------------------------------------------------
(* Frames *)

FirstOctet(kind, flags) == kind + FoldSet(LAMBDA f, n : f + n, 0, flags)
Flag(c, v) == IF c THEN {v} ELSE {}

BuildSMSSubmitTPDU(to, part, mr, report, vp) ==
    LET a == encodeSMSAddress(to)
        ud == encodeSMSUserDataWithLanguage(part.text, part.enc, part.udh)
    IN <<FirstOctet(1, Flag(report, 32) \cup Flag(part.udh # <<>>, 64) \cup Flag(vp # <<>>, 16)), mr, a.digits, a.toa>>
       \o a.bcd \o <<0, ud.dcs>> \o vp \o <<ud.udl>> \o ud.data

(* The SMS-DELIVER the service centre makes of an SMS-SUBMIT (external):   *)
(* coding scheme and user data are taken from where 3GPP TS 23.040 has them.*)
DeliverTPDU(from, submit, ts) ==
    LET a == encodeSMSAddress(from)
        i == 4 + CeilDiv(submit[3], 2)
        vp == BitOf(submit[1], 4)
    IN <<FirstOctet(0, {4} \cup Flag(BitOf(submit[1], 6) = 1, 64)), a.digits, a.toa>>
       \o a.bcd \o <<0, submit[i + 2]>> \o encodeSMSTimestamp(ts).val \o Drop(submit, i + 2 + vp)

(* Address, two octets, time and user data, each refused when cut short.   *)
ParseSMSDeliverTPDU(tpdu) ==
    LET octets == smsAddressOctets(tpdu[2], tpdu[3])
        sender == decodeSMSAddress(tpdu[2], tpdu[3], SubSeq(tpdu, 4, 3 + octets))
        i == 3 + octets
        ts == decodeSMSTimestamp(SubSeq(tpdu, i + 3, i + 9))
        ud == decodeSMSUserDataWithHeader(Drop(tpdu, i + 10), tpdu[i + 10], tpdu[i + 2], BitOf(tpdu[1], 6) = 1)
    IN IF Len(tpdu) < 12 THEN Error
       ELSE IF tpdu[1] % 4 # 0 \/ i > Len(tpdu) \/ sender.err THEN Error
       ELSE IF i + 10 > Len(tpdu) THEN Error
       ELSE IF ts.err \/ ud.err THEN Error
       ELSE Ok([sender |-> sender.val, timestamp |-> ts.val, text |-> ud.val.text, info |-> ud.val.info])

(* Optional parameters of a status report, announced by the indicator.     *)
encodeSMSStatusReportOptionalParameters(r) ==
    LET ud == encodeSMSUserDataWithLanguage(r.text, smsEncodingForDCS(r.dcs), <<>>)
        pi == FirstOctet(0, Flag(r.pid # 0, 1) \cup Flag(r.dcs # 0, 2) \cup Flag(r.text # <<>>, 4))
    IN IF pi = 0 THEN <<>>
       ELSE <<pi>> \o (IF r.pid # 0 THEN <<r.pid>> ELSE <<>>) \o (IF r.dcs # 0 THEN <<r.dcs>> ELSE <<>>)
                 \o (IF r.text # <<>> THEN <<ud.udl>> \o ud.data ELSE <<>>)

BuildSMSStatusReportTPDU(r) ==
    LET a == encodeSMSAddress(r.recipient) IN
    <<FirstOctet(2, {4}), r.reference, a.digits, a.toa>> \o a.bcd
        \o encodeSMSTimestamp(r.timestamp).val \o encodeSMSTimestamp(r.doneAt).val \o <<r.status>>
        \o encodeSMSStatusReportOptionalParameters(r)

parseSMSStatusReportOptionalParameters(data) ==
    LET pi == data[1]
        hasPID == BitOf(pi, 0) = 1
        hasDCS == BitOf(pi, 1) = 1
        hasUD == BitOf(pi, 2) = 1
        j == 1 + BitOf(pi, 0)
        k == j + BitOf(pi, 1)
        dcs == IF hasDCS THEN data[j + 1] ELSE 0
        ud == decodeSMSUserDataWithHeader(Drop(data, k + 1), data[k + 1], dcs, FALSE)
    IN IF data = <<>> THEN Ok([pid |-> 0, dcs |-> 0, text |-> <<>>])
       ELSE IF (hasUD /\ k >= Len(data)) \/ k > Len(data) THEN Error
       ELSE IF hasUD /\ ud.err THEN Error
       ELSE Ok([pid |-> IF hasPID THEN data[2] ELSE 0, dcs |-> dcs, text |-> IF hasUD THEN ud.val.text ELSE <<>>])

ParseSMSStatusReportTPDU(tpdu) ==
    LET octets == smsAddressOctets(tpdu[3], tpdu[4])
        recipient == decodeSMSAddress(tpdu[3], tpdu[4], SubSeq(tpdu, 5, 4 + octets))
        i == 4 + octets
        sent == decodeSMSTimestamp(SubSeq(tpdu, i + 1, i + 7))
        done == decodeSMSTimestamp(SubSeq(tpdu, i + 8, i + 14))
        opt == parseSMSStatusReportOptionalParameters(Drop(tpdu, i + 15))
    IN IF Len(tpdu) < 17 THEN Error
       ELSE IF tpdu[1] % 4 # 2 \/ i > Len(tpdu) \/ recipient.err THEN Error
       ELSE IF i + 15 > Len(tpdu) THEN Error
       ELSE IF sent.err \/ done.err \/ opt.err THEN Error
       ELSE Ok([reference |-> tpdu[2], recipient |-> recipient.val, timestamp |-> sent.val, doneAt |-> done.val,
                status |-> tpdu[i + 15], pid |-> opt.val.pid, dcs |-> opt.val.dcs, text |-> opt.val.text])

smsStatusReportState(status) == IF status <= 31 THEN "delivered" ELSE IF status >= 64 THEN "failed" ELSE "accepted"

(* Flags of ClassifySMSStatusReport and ClassifySMSRPCause. *)
ClassifySMSStatusReport(status) ==
    [terminal |-> status \notin 32 .. 63, retryable |-> status \in 96 .. 127, reserved |-> status >= 128]
ClassifySMSRPCause(cause) ==
    [retryable |-> cause \in {38, 41, 42, 47, 21, 29, 127},
     terminal |-> cause \notin {38, 41, 42, 47, 127},
     recoverable |-> cause \in {38, 41, 42, 47, 127}]

BuildSMSRPData(mr, smsc, tpdu) ==
    IF Len(tpdu) > 255 THEN Error ELSE Ok(<<0, mr, 0>> \o encodeRPAddress(smsc) \o <<Len(tpdu)>> \o tpdu)
BuildSMSRPAckWithTPDU(mr, tpdu) == IF Len(tpdu) > 255 THEN Error ELSE Ok(<<2, mr, Len(tpdu)>> \o tpdu)
BuildSMSRPErrorWithDiagnostics(mr, cause, diagnostics, tpdu) ==
    IF Len(diagnostics) > 254 \/ Len(tpdu) > 255 THEN Error
    ELSE Ok(<<4, mr, 1 + Len(diagnostics), cause>> \o diagnostics \o <<Len(tpdu)>> \o tpdu)

(* A length octet and that many octets, which must be the last ones.       *)
parseSMSRPUserData(body, offset) ==
    IF offset >= Len(body) THEN Ok(<<>>)
    ELSE IF offset + 1 + At(body, offset) # Len(body) THEN Error ELSE Ok(Drop(body, offset + 1))

parseSMSRPDataFields(body) ==
    LET oa == body[3]
        da == At(body, 3 + oa)
        from == decodeRPAddressValue(SubSeq(body, 4, 3 + oa))
        to == decodeRPAddressValue(SubSeq(body, 5 + oa, 4 + oa + da))
        ud == parseSMSRPUserData(body, 4 + oa + da)
    IN IF Len(body) < 5 THEN Error
       ELSE IF 3 + oa >= Len(body) \/ from.err THEN Error
       ELSE IF 4 + oa + da >= Len(body) \/ to.err \/ ud.err THEN Error
       ELSE Ok([originator |-> from.val, destination |-> to.val, tpdu |-> ud.val])

parseSMSRPErrorCauseFields(body) ==
    IF Len(body) < 4 THEN Error
    ELSE IF body[3] <= 0 \/ 3 + body[3] > Len(body) THEN Error
    ELSE Ok([cause |-> body[4] % 128, diagnostics |-> SubSeq(body, 5, 3 + body[3]), next |-> 3 + body[3]])

ParseSMSRPDU(body) ==
    LET data == parseSMSRPDataFields(body)
        cause == parseSMSRPErrorCauseFields(body)
        ack == parseSMSRPUserData(body, 2)
        err == parseSMSRPUserData(body, cause.val.next)
    IN CASE Len(body) < 2 -> Error
         [] body[1] \in {0, 1} -> IF data.err THEN Error ELSE Ok([kind |-> "RP-DATA", mr |-> body[2], tpdu |-> data.val.tpdu])
         [] body[1] \in {2, 3} -> IF ack.err THEN Error ELSE Ok([kind |-> "RP-ACK", mr |-> body[2], tpdu |-> ack.val])
         [] body[1] \in {4, 5} -> IF cause.err THEN Error ELSE IF err.err THEN Error
                                  ELSE Ok([kind |-> "RP-ERROR", mr |-> body[2], tpdu |-> err.val, cause |-> cause.val.cause])
         [] OTHER -> Error

-----------------------------------------------------------------------------
(* What the formats promise.                                               *)

Sender == [plus |-> TRUE, digits |-> <<8, 6, 1>>]
Now == <<2026, 1, 31, 23, 59, 0, -14>>

(* A part in the frames it crosses the network in, and what is read of it. *)
Delivered(part, report, vp) ==
    With(BuildSMSSubmitTPDU(Sender, part, 1, report, vp), LAMBDA submit :
    With(BuildSMSRPData(1, Sender, DeliverTPDU(Sender, submit, Now)).val, LAMBDA frame :
    With(ParseSMSRPDU(frame).val.tpdu, LAMBDA deliver : ParseSMSDeliverTPDU(deliver))))

(* A text that segmentSMS accepts arrives whole: every part fits the user  *)
(* data of a TPDU, is read back exactly, with the same reference, total    *)
(* and its own number, and the parts in order make the text.  The only     *)
(* texts refused are those whose wide characters leave a part short.       *)
TextCarried(text, o, vp) ==
    LET limit == smsPartLimitForUDH(o.encoding, smsSubmitUDHLength(o, validateSMSApplicationPortOptions(o.ports).val,
                                                                   normalizeSMSConcatRefBits(o.ref, o.refBits)))
    IN \A parts \in {segmentSMS(text, o, 7)} :
       IF parts.err THEN Len(Chunks(text, o.encoding, limit)) > CeilDiv(SumUnits(text, o.encoding), limit)
       ELSE \A got \in {[i \in DOMAIN parts.val |-> Delivered(parts.val[i], i = 1, vp)]} :
            /\ \A i \in DOMAIN parts.val :
                  /\ Len(encodeSMSUserDataWithLanguage(parts.val[i].text, o.encoding, parts.val[i].udh).data) <= UserDataOctets
                  /\ ~got[i].err
                  /\ LET g == got[i].val IN
                     /\ g.sender = Sender /\ g.timestamp = Now
                     /\ g.info.ports.dest = o.ports.dest /\ g.info.single = o.single
                     /\ Len(parts.val) > 1 => /\ g.info.concat.total = Len(parts.val) /\ g.info.concat.seq = i
                                              /\ g.info.concat.ref = IF o.ref = 0 THEN 8 ELSE o.ref
            /\ FlattenSeq([i \in DOMAIN got |-> got[i].val.text]) = text

(* The period a TP-VP octet stands for, in minutes (3GPP TS 23.040).       *)
PeriodOf(vp) ==
    CASE vp <= 143 -> (vp + 1) * 5 [] vp \in 144 .. 167 -> 720 + (vp - 143) * 30
      [] vp \in 168 .. 196 -> (vp - 166) * Day [] OTHER -> (vp - 192) * 7 * Day

(* The period requested of the network is the shortest one that is at      *)
(* least as long as the period asked for.                                  *)
ValidityKept(n) ==
    LET vp == encodeSMSRelativeValidityPeriod(n) IN
    /\ vp \in 0 .. 255 /\ PeriodOf(vp) >= n
    /\ \A other \in 0 .. 255 : PeriodOf(other) >= n => PeriodOf(other) >= PeriodOf(vp)

(* A status report is read back as it was written, whichever optional      *)
(* parameters it carries, and a part leaves "accepted" exactly when no     *)
(* later report can follow.                                                *)
ReportRead(number, status, pid, dcs, n, zone) ==
    LET r == [reference |-> 9, recipient |-> number, timestamp |-> Now,
              doneAt |-> <<1999, 12, 1, 0, 0, 59, zone>>, status |-> status, pid |-> pid, dcs |-> dcs,
              text |-> [i \in 1 .. n |-> i + 60]]
        d == ClassifySMSStatusReport(status)
    IN /\ ParseSMSStatusReportTPDU(BuildSMSStatusReportTPDU(r)) = Ok(r)
       /\ d.terminal = (smsStatusReportState(status) # "accepted")
       /\ d.retryable => d.terminal /\ ~d.reserved /\ smsStatusReportState(status) = "failed"

(* The answer to an RP-DATA is read as it was written, with the TPDU in it *)
(* and whatever diagnostics come before, and only a cause that may be      *)
(* tried again starts a recovery.                                          *)
AnswerRead(cause, diagnostics, tpdu) ==
    LET ack == ParseSMSRPDU(BuildSMSRPAckWithTPDU(5, tpdu).val)
        err == ParseSMSRPDU(BuildSMSRPErrorWithDiagnostics(5, cause, diagnostics, tpdu).val)
        c == ClassifySMSRPCause(cause)
    IN /\ ack = Ok([kind |-> "RP-ACK", mr |-> 5, tpdu |-> tpdu])
       /\ err = Ok([kind |-> "RP-ERROR", mr |-> 5, tpdu |-> tpdu, cause |-> cause])
       /\ c.recoverable => c.retryable /\ ~c.terminal
=============================================================================

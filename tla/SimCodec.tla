------------------------------ MODULE SimCodec ------------------------------
(***************************************************************************)
(* The encodings of the SIM layer: command APDUs and the correction of     *)
(* their Le (simtransport/recovery.go; simauth/apdu.go holds a copy),      *)
(* BER-TLV (simauth/tlv.go), the AUTHENTICATE answer (simauth/aka.go),     *)
(* EF_IMSI (simauth/identity.go) and the reading of a transparent file.    *)
(* A byte is a number below 256; an operator that may fail returns Failed. *)
(***************************************************************************)
EXTENDS Integers, Sequences, SequencesExt, FiniteSetsExt

LOCAL INSTANCE Octets

CONSTANT ReadUnit      \* bytes one READ BINARY returns at most (256 in the code)

Failed == <<-1>>
Bytes(n) == [i \in 1..n |-> (7 * i) % 256]
Drop(s, n) == SubSeq(s, n + 1, Len(s))
Take(s, n) == SubSeq(s, 1, Min({n, Len(s)}))
Word(hi, lo) == 256 * hi + lo
Short(n) == n % 256
ExtendedLe(le) == <<(le \div 256) % 256, le % 256>>

-----------------------------------------------------------------------------
(* Le correction.                                                          *)

CorrectAPDULe(apdu, le) ==
  LET n == Len(apdu)
      lc == apdu[5]
      lcx == Word(apdu[6], apdu[7])
  IN CASE le \notin 1..256 \/ n < 4 -> Failed
       [] n = 4 -> Append(apdu, Short(le))
       [] n = 5 -> Append(Take(apdu, 4), Short(le))
       [] lc = 0 ->
            CASE n = 7 -> Take(apdu, 5) \o ExtendedLe(le)
              [] n < 7 \/ lcx = 0 -> Failed
              [] n = 7 + lcx -> apdu \o ExtendedLe(le)
              [] n = 9 + lcx -> Take(apdu, n - 2) \o ExtendedLe(le)
              [] OTHER -> Failed
       [] n = 5 + lc -> Append(apdu, Short(le))
       [] n = 6 + lc -> Append(Take(apdu, n - 1), Short(le))
       [] OTHER -> Failed

\* Reference: the well-formed commands of ISO 7816-4.
Header == <<0, 178, 1, 4>>
Command(data, le, extended) ==
  Header \o (IF extended THEN <<0>> ELSE <<>>)
    \o (CASE data = <<>> -> <<>>
          [] extended -> <<Len(data) \div 256, Len(data) % 256>> \o data
          [] OTHER -> <<Len(data)>> \o data)
    \o (CASE le = 0 -> <<>> [] extended -> ExtendedLe(le) [] OTHER -> <<Short(le)>>)

(* Correcting Le keeps the command's header and data and asks for exactly  *)
(* the bytes the card announced, in the short and in the extended form.    *)
LeCorrected(data, old, le, extended) ==
  (extended => data # <<>> \/ old # 0) =>
    CorrectAPDULe(Command(data, old, extended), le) = Command(data, le, extended)

-----------------------------------------------------------------------------
(* BER-TLV.                                                                *)

encodeTag(tag) == IF tag <= 255 THEN <<tag>> ELSE <<tag \div 256, tag % 256>>

encodeLength(n) ==
  CASE n <= 127 -> <<n>>
    [] n <= 255 -> <<129, n>>
    [] OTHER -> <<130, n \div 256, n % 256>>

EncodeTLV(tag, value) == encodeTag(tag) \o encodeLength(Len(value)) \o value

Padding(data) == {n \in 0..Len(data) : \A i \in 1..n : data[i] \in {0, 255}}
trimTLVPadding(data) == Drop(data, Max(Padding(data)))

\* <<tag, bytes used>>; a tag of more than two bytes is left out.
readTag(data) ==
  CASE data = <<>> -> Failed
    [] data[1] % 32 # 31 -> <<data[1], 1>>
    [] Len(data) < 2 -> Failed
    [] OTHER -> <<Word(data[1], data[2]), 2>>

readLength(data) ==
  CASE data = <<>> -> Failed
    [] data[1] < 128 -> <<data[1], 1>>
    [] data[1] \in {129, 130} /\ Len(data) > data[1] - 128 ->
         <<IF data[1] = 129 THEN data[2] ELSE Word(data[2], data[3]), data[1] - 127>>
    [] OTHER -> Failed

\* The first object of data: [tag, value, rest], or Failed.
FirstTLV(data) ==
  LET object(tag, len, afterTag) ==
        LET rest == Drop(afterTag, len[2])
        IN IF len = Failed \/ len[1] > Len(rest) THEN <<>>
           ELSE <<[tag |-> tag[1], value |-> Take(rest, len[1]), rest |-> Drop(rest, len[1])]>>
  IN With(readTag(data), LAMBDA tag :
       IF tag = Failed THEN <<>>
       ELSE With(Drop(data, tag[2]), LAMBDA afterTag :
            With(readLength(afterTag), LAMBDA len : object(tag, len, afterTag))))

RECURSIVE ParseTLVList(_)
ParseTLVList(data) ==
  LET body == trimTLVPadding(data)
      first == FirstTLV(body)
  IN IF body = <<>> \/ first = <<>> THEN <<>>
     ELSE <<[tag |-> first[1].tag, value |-> first[1].value]>> \o ParseTLVList(first[1].rest)

isConstructed(tag) == ((IF tag > 255 THEN tag \div 256 ELSE tag) \div 32) % 2 = 1

\* Depth first, the first match.
RECURSIVE FindTLV(_, _)
FindTLV(data, tag) ==
  LET items == ParseTLVList(data)
      hits == {i \in DOMAIN items : \/ items[i].tag = tag
                                    \/ isConstructed(items[i].tag) /\ FindTLV(items[i].value, tag) # Failed}
  IN IF hits = {} THEN Failed
     ELSE LET item == items[Min(hits)]
          IN IF item.tag = tag THEN item.value ELSE FindTLV(item.value, tag)

beInt(v) == FoldLeft(LAMBDA n, b : 256 * n + b, 0, v)

\* What a tag of the template, or of the object in it, stands for.
InTemplate(fcp, tag) ==
  With(FindTLV(fcp, 98), LAMBDA body : FindTLV(IF body # Failed THEN body ELSE fcp, tag))

FileSizeFromFCP(fcp) ==
  With(InTemplate(fcp, 128), LAMBDA size :
  With(InTemplate(fcp, 129), LAMBDA total :
    IF size # Failed THEN beInt(size) ELSE IF total # Failed THEN beInt(total) ELSE 0))

RecordInfoFromFCP(fcp) ==
  With(InTemplate(fcp, 130), LAMBDA v :
    IF v # Failed /\ Len(v) >= 5 THEN <<Word(v[3], v[4]), v[5]>> ELSE <<0, 0>>)

(* A file's size and record layout are read back from a template whatever  *)
(* other objects, padding and length forms surround them.                  *)
TemplateRead(size, record, other, padding) ==
  LET desc == EncodeTLV(130, <<66, 33>> \o <<record \div 256, record % 256, 3>>)
      fcp == EncodeTLV(98, desc \o padding \o EncodeTLV(165, Bytes(other))
                             \o EncodeTLV(128, <<size \div 256, size % 256>>))
  IN \A template \in {fcp} : FileSizeFromFCP(template) = size /\ RecordInfoFromFCP(template) = <<record, 3>>

-----------------------------------------------------------------------------
(* Reading a transparent file, unit by unit.                               *)

\* The card returns at most `given` bytes of what is asked.
RECURSIVE ReadFrom(_, _, _, _)
ReadFrom(file, size, given, offset) ==
  LET chunk == Min({size - offset, ReadUnit})
      answer == Take(Drop(file, offset), Min({chunk, given}))
  IN IF offset >= size THEN <<>>
     ELSE IF answer = <<>> \/ (size = ReadUnit /\ Len(answer) < chunk) THEN answer
     ELSE answer \o ReadFrom(file, size, given, offset + Len(answer))

ReadTransparentEF(file, announced, given) ==
  ReadFrom(file, IF announced = 0 THEN ReadUnit ELSE announced, given, 0)

(* A transparent file is read whole, also when the card returns less than  *)
(* was asked; except that an announced size of exactly one read unit is    *)
(* not told from an unknown size, where a short answer ends the file.      *)
FileReadWhole(length, given) ==
  LET file == Bytes(length)
  IN /\ length # ReadUnit \/ given >= ReadUnit => ReadTransparentEF(file, length, given) = file
     /\ length <= ReadUnit /\ given >= ReadUnit => ReadTransparentEF(file, 0, given) = file

-----------------------------------------------------------------------------
(* The AUTHENTICATE answer.                                                *)

AKACKLength == 16
hasOnlyTLVPadding(body, pos) == trimTLVPadding(Drop(body, pos)) = <<>>
hasOptionalKc(body, pos) ==
  pos < Len(body) /\ body[pos + 1] = 8 /\ pos + 9 <= Len(body) /\ hasOnlyTLVPadding(body, pos + 9)

\* <<RES, CK, IK>>, or <<>>.
parseUSIMAuthDB(body) ==
  LET resLen == body[2]
      res == Take(Drop(body, 2), resLen)
      keys == Drop(body, 2 + resLen)
      ckEnd == 1 + AKACKLength
      ikEnd == 2 * (1 + AKACKLength)
  IN CASE Len(body) < 2 \/ body[1] # 219 \/ resLen \notin 4..16 \/ Len(body) < 3 + resLen -> <<>>
       [] Len(keys) = 2 * AKACKLength -> <<res, Take(keys, AKACKLength), Drop(keys, AKACKLength)>>
       [] keys[1] # AKACKLength \/ Len(keys) < ckEnd + 1 \/ keys[ckEnd + 1] # AKACKLength
            \/ Len(keys) < ikEnd -> <<>>
       [] ~hasOnlyTLVPadding(keys, ikEnd) /\ ~hasOptionalKc(keys, ikEnd) -> <<>>
       [] OTHER -> <<res, SubSeq(keys, 2, ckEnd), SubSeq(keys, ckEnd + 2, ikEnd)>>

RECURSIVE parseUSIMAuthTLVDepth(_, _)
parseUSIMAuthTLVDepth(body, depth) ==
  LET first == FirstTLV(trimTLVPadding(body))
  IN CASE depth > 4 \/ first = <<>> -> <<>>
       [] ~hasOnlyTLVPadding(first[1].rest, 0) -> <<>>
       [] first[1].tag \in {219, 220, 221} -> <<first[1]>>
       [] isConstructed(first[1].tag) -> parseUSIMAuthTLVDepth(first[1].value, depth + 1)
       [] OTHER -> <<>>

parseUSIMAuthPayload(object) ==
  CASE object.tag = 219 -> parseUSIMAuthDB(<<219>> \o object.value)
    [] object.tag = 220 /\ Len(object.value) = 14 -> <<"sync", object.value>>
    [] object.tag = 221 /\ object.value = <<>> -> <<"mac">>
    [] OTHER -> <<>>

ParseUSIMAuthBody(data) ==
  LET body == trimTLVPadding(data)
      object == parseUSIMAuthTLVDepth(body, 0)
  IN CASE Len(body) < 2 -> <<>>
       [] body[1] = 219 /\ parseUSIMAuthDB(body) # <<>> -> parseUSIMAuthDB(body)
       [] object # <<>> -> parseUSIMAuthPayload(object[1])
       [] OTHER -> <<>>

(* Whatever form the card chose (bare, length-prefixed keys, wrapped in a  *)
(* TLV or in a constructed object, with Kc, with padding), the verdict and *)
(* its RES, CK and IK are the card's.                                      *)
VerdictRead(resLen, wrapped, kc, nested, padding) ==
  LET key(i) == [j \in 1..AKACKLength |-> 16 * i + (j % 4)]
      lead == <<resLen>> \o Bytes(resLen)
      keyed == lead \o <<16>> \o key(1) \o <<16>> \o key(2) \o (IF kc THEN <<8>> \o Bytes(8) ELSE <<>>)
      outer(v) == IF nested THEN EncodeTLV(48, v) ELSE v
      answer == CASE wrapped = "bare" -> <<219>> \o lead \o key(1) \o key(2)
                  [] wrapped = "keys" -> <<219>> \o keyed
                  [] OTHER -> outer(EncodeTLV(219, keyed))
  IN /\ ParseUSIMAuthBody(answer \o padding) = <<Bytes(resLen), key(1), key(2)>>
           \/ (wrapped = "bare" /\ padding # <<>>)
     /\ ParseUSIMAuthBody(outer(EncodeTLV(220, Bytes(14))) \o padding) = <<"sync", Bytes(14)>>
     /\ ParseUSIMAuthBody(outer(EncodeTLV(221, <<>>))) = <<"mac">>

-----------------------------------------------------------------------------
(* EF_IMSI.                                                                *)

EncodeUSIMIMSI(imsi) ==
  LET n == Len(imsi)
      digit(i) == IF i <= n THEN imsi[i] ELSE 15
  IN <<1 + (n \div 2), 16 * imsi[1] + 1 + 8 * (n % 2)>>
       \o [i \in 1..(n \div 2) |-> digit(2 * i) + 16 * digit(2 * i + 1)]

trimTrailingFF(data) == Take(data, Max({n \in 0..Len(data) : n = 0 \/ data[n] # 255}))

DecodeUSIMIMSI(raw) ==
  LET data == trimTrailingFF(raw)
      id == Take(Drop(data, 1), data[1])
      nibbles == <<id[1] \div 16>> \o FlattenSeq([i \in 1..(Len(id) - 1) |-> <<id[i + 1] % 16, id[i + 1] \div 16>>])
      odd == (id[1] \div 8) % 2 = 1
      digits == IF odd \/ Len(id) = 1 THEN nibbles ELSE Take(nibbles, Len(nibbles) - 1)
  IN IF \/ trimTLVPadding(raw) = <<>> \/ data[1] = 0 \/ Len(data) - 1 < data[1]
        \/ id[1] % 8 # 1
        \/ ~odd /\ Len(id) > 1 /\ Last(nibbles) # 15
        \/ \E i \in DOMAIN digits : digits[i] > 9
        \/ odd # (Len(digits) % 2 = 1)
     THEN Failed ELSE digits

(* An IMSI written to EF_IMSI is read back, with an odd or an even number  *)
(* of digits and with the file's padding behind it.                        *)
ImsiReadBack(imsi, pad) ==
  DecodeUSIMIMSI(EncodeUSIMIMSI(imsi) \o [i \in 1..pad |-> 255]) = imsi
=============================================================================

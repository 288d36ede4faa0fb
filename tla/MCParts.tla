------------------------------- MODULE MCParts -------------------------------
(***************************************************************************)
(* The components that have no liveness of their own, on small instances:  *)
(* the replay window of ESP, MOBIKE, the routes of two tunnels, the SIM    *)
(* and its modem, emergency data, and the pure functions.  The initial     *)
(* state picks the one that runs (focus).                                  *)
(***************************************************************************)
EXTENDS EspSA, Mobike, Integers, Sequences, FiniteSets, TLC

VARIABLES
  focus,     \* the component that runs
  pc, undo, cancelled, session, device, refs, installed, starts, orphans,
  killed,
  radio, access,
  card, call, leaked, lost,
  info, storedAt, policy, clock,
  case

Entitled(st, d, u, r, a, e, ei, c, ra, sl, v) ==
  [status |-> st, data |-> d, urns |-> u, routes |-> r, address |-> a, expiresAt |-> e, expiresIn |-> ei,
   cacheMaxAge |-> c, retryIn |-> ra, stale |-> sl, validation |-> v]
Entitlements ==
  {Entitled(1000, TRUE, {}, {"", "police"}, "geo", e, ei, c, ra, sl, "") :
     e \in {0, 3}, ei \in {0, 2}, c \in {0, 1}, ra \in {0, 2}, sl \in {0, 2}}
  \cup {Entitled(st, TRUE, {"fire"}, {}, a, 0, 2, 0, 0, sl, v) :
          st \in {0, 6004}, a \in {"none", "geo"}, sl \in {0, 2}, v \in {"", "pending"}}
  \cup {Entitled(0, FALSE, {}, {}, "none", 0, 0, 0, 2, 2, "")}
CachePolicies == {[refreshBefore |-> -1, expiresIn |-> 0, cacheMaxAge |-> 0], [refreshBefore |-> 1, expiresIn |-> 3, cacheMaxAge |-> 0]}

PortError(words, class, status, timeout) == [words |-> words, class |-> class, status |-> status, timeout |-> timeout]
PortErrors ==
  {PortError(w, "none", <<>>, FALSE) :
     w \in {{"cme"}, {"cme", "busy"}, {"qcfg", "at error"}, {"identity failure", "qmi unavailable"}, {"other"}}}
  \cup {PortError({"timeout"}, "none", <<>>, TRUE), PortError({"status"}, "none", <<106, 130>>, FALSE),
        PortError({"file"}, "empty_ef", <<>>, FALSE)}

Routes == INSTANCE TunRouting WITH
  Tunnels <- {"t1", "t2"}, Keys <- {"k1", "k2"},
  Exclusions <- [t1 |-> <<"k1">>, t2 |-> <<"k1", "k2">>], MaxStarts <- 2,
  IpMayFail <- TRUE
Port == INSTANCE SimRecovery WITH
  Errors <- PortErrors, PortTypes <- {"at", "qmi"}, MaxAttempts <- 3
Aka == INSTANCE SimAka WITH
  Channels <- {1, 2}, maxGetResponseAPDUs <- 2, authTransientRetries <- 1,
  hostRecoveryAttempts <- 1, MaxChunks <- 3
Em == INSTANCE Emergency WITH
  Infos <- Entitlements, Policies <- CachePolicies, MaxClock <- 5

\* The pure functions.  SeqModulus is 8 for 2^16 and UserDataOctets 28 for 140, so
\* that wrap-around and segmentation happen with a few packets and a few parts.
SmsPdu == INSTANCE SmsCodec WITH UserDataOctets <- 28
Card == INSTANCE SimCodec WITH ReadUnit <- 4
IkeWire == INSTANCE IkeCodec
EapWire == INSTANCE EapCodec
Deal == INSTANCE IkeNegotiation
Media == INSTANCE RtpMedia WITH SeqModulus <- 8, MaxSamples <- 65535,
  defaultRTPDiagnosisMinExpectedPackets <- 5, DefaultRTPDTMFPayloadType <- 101,
  DefaultRTPDTMFClockRate <- 8000
Timers == INSTANCE SipTransaction WITH
  defaultSIPTimerT1 <- 1, defaultSIPTimerT2 <- 8, defaultSIPTimerT4 <- 10
Servers == INSTANCE SipRecovery WITH NoURI <- "", NoDelay <- -1

ASSUME Routes!ExclusionsAssumption /\ Routes!BoundsAssumption

-----------------------------------------------------------------------------
(* The pure functions on small inputs: a state is one case, [of |-> the    *)
(* function, in |-> its inputs].                                           *)
Families == {"sms", "card", "ike", "eap", "deal", "media", "host"}
NoCase(family) == [of |-> "none", in |-> family]
Is(c, name) == c.of = name
Case(name, in) == case' = [of |-> name, in |-> in]

Bytes(n) == [i \in 1..n |-> (i * 37) % 256]
UpTo(S, n) == UNION {[1..m -> S] : m \in 0..n}

-----------------------------------------------------------------------------
(* SMS *)
Text(n, wide, enc) ==
  [i \in 1..n |-> CASE i \in wide -> (CASE enc = "gsm7" -> 148 [] enc = "ucs2" -> 128512 [] OTHER -> 65)
                    [] OTHER -> IF enc = "ucs2" THEN 20320 ELSE (i * 5) % 26]
SmsText ==
  \/ \E n \in {1, 2, 7, 8, 9, 23, 25, 26, 31, 32, 33, 50, 51}, w \in {{}, {1}, {25}, {25, 49}}, l \in {0, 1},
        p \in {0, 300}, r \in {0, 4660} : Case("text", <<n, w, "gsm7", l, p, r>>)
  \/ \E n \in {1, 10, 11, 14, 15, 22, 23, 34}, w \in {{}, {11}, {1, 11}, {11, 21}} : Case("text", <<n, w, "ucs2", 0, 0, 0>>)
  \/ \E n \in {1, 22, 28, 29, 44, 45} : Case("text", <<n, {}, "utf8", 0, 0, 0>>)
SmsForms ==
  \/ \E n \in {1, 4, 5, 6, 719, 720, 721, 750, 751, 1439, 1440, 1441, 2879, 2880, 2881, 43200, 43201, 50399, 50400, 635040} :
        Case("validity", n)
  \/ \E d \in {<<1>>, <<4, 10, 14>>}, p \in BOOLEAN, s \in {0, 31, 32, 63, 64, 96, 128}, i \in {0, 7}, c \in {0, 4, 8}, n \in {0, 8},
        z \in {0, -79} : Case("report", <<[plus |-> p, digits |-> d], s, i, c, n, z>>)
  \/ \E c \in {1, 21, 41, 127}, d, t \in {0, 1, 5} : Case("answer", <<c, Bytes(d), Bytes(t)>>)
SmsRead(c) ==
  /\ Is(c, "text") => LET n == c.in IN
       \A text \in {Text(n[1], n[2], n[3])} : SmsPdu!TextCarried(text,
         [encoding |-> n[3], single |-> n[4], locking |-> 0, ports |-> [dest |-> n[5], source |-> 0, bits |-> 0],
          ref |-> n[6], refBits |-> 0], IF n[4] = 0 THEN <<167>> ELSE <<>>)
  /\ Is(c, "validity") => SmsPdu!ValidityKept(c.in)
  /\ Is(c, "report") => LET n == c.in IN SmsPdu!ReportRead(n[1], n[2], n[3], n[4], n[5], n[6])
  /\ Is(c, "answer") => SmsPdu!AnswerRead(c.in[1], c.in[2], c.in[3])

-----------------------------------------------------------------------------
(* SIM card *)
CardForms ==
  \/ \E d \in {0, 1, 3}, o \in {0, 5, 256}, l \in {1, 5, 255, 256}, x \in BOOLEAN : Case("le", <<Bytes(d), o, l, x>>)
  \/ \E s \in {0, 1, 255, 256, 600}, r \in {1, 40, 300}, o \in {0, 3, 120, 127, 128, 256}, p \in {<<>>, <<255>>, <<0, 0>>} :
        Case("template", <<s, r, o, p>>)
  \/ \E n \in 0..9, g \in 1..5 : Case("file", <<n, g>>)
  \/ \E r \in {4, 8, 16}, w \in {"bare", "keys", "tlv"}, k, n \in BOOLEAN, p \in {<<>>, <<255, 255>>} :
        Case("verdict", <<r, w, k, n, p>>)
  \/ \E m \in 5..7, p \in 0..2 : \E imsi \in [1..m -> {0, 9}] : Case("imsi", <<imsi, p>>)
  \/ \E a \in {97, 98, 100, 101, 103, 106, 107, 108, 111, 144, 147, 159}, b \in {0, 4, 130, 131, 134} : Case("status", <<a, b>>)
CardRead(c) ==
  LET n == c.in IN
  /\ Is(c, "le") => Card!LeCorrected(n[1], n[2], n[3], n[4])
  /\ Is(c, "template") => Card!TemplateRead(n[1], n[2], n[3], n[4])
  /\ Is(c, "file") => Card!FileReadWhole(n[1], n[2])
  /\ Is(c, "verdict") => Card!VerdictRead(n[1], n[2], n[3], n[4], n[5])
  /\ Is(c, "imsi") => Card!ImsiReadBack(n[1], n[2])

-----------------------------------------------------------------------------
(* IKE messages *)
Payload(t, next, critical, n) == [type |-> t, next |-> next, critical |-> critical, body |-> Bytes(n)]
Chains ==
  {<<>>} \cup {<<Payload(41, 0, c, n)>> : c \in BOOLEAN, n \in {0, 1, 5}}
  \cup {<<Payload(42, 0, FALSE, n), Payload(41, 0, TRUE, m)>> : n \in {0, 3}, m \in {0, 2}}
  \cup {<<Payload(33, 0, FALSE, n), Payload(46, 41, FALSE, m)>> : n \in {0, 3}, m \in {0, 9}}
EncryptedFirst == <<Payload(46, 41, FALSE, 2), Payload(41, 0, FALSE, 0)>>
Attr(t, v) == [type |-> t, value |-> v]
Transform(t, i, as) == [type |-> t, id |-> i, attrs |-> as]
Proposals ==
  [number : {1, 2}, protocol : {3}, spi : {Bytes(0), Bytes(4)},
   transforms : {<<Transform(1, 12, <<Attr(14, <<0, 128>>)>>), Transform(3, 12, <<>>)>>,
                 <<Transform(1, 20, <<Attr(14, <<1, 0>>), Attr(7, <<1, 2, 3>>)>>)>>}]
IkeKeys == [cipher : {"cbc", "gcm"}, ei : {"ei"}, er : {"er"}, ai : {"ai"}, ar : {"ar"}]
Selector(t, n) == [type |-> t, protocol |-> 6, startPort |-> 0, endPort |-> 65535, start |-> Bytes(n), end |-> Bytes(n)]
IkeForms ==
  \/ \E c \in Chains \cup {EncryptedFirst} : Case("chain", c)
  \/ \E c \in Chains, n \in 0..20 : Case("cut", <<c, n>>)
  \/ \E n \in 0..40, b \in {1, 16} : Case("padding", <<Bytes(n), b>>)
  \/ \E n \in {65531, 65532} : Case("longest", n)
  \/ \E p, q \in Proposals : Case("sa", <<p, q>>)
  \/ \E k \in IkeKeys, s, r \in BOOLEAN, c \in Chains, p \in {"none", "next", "id", "iv"}, x \in {"informational", "auth"} :
        Case("seal", <<[exchange |-> x, next |-> 0, id |-> 0], k, s, r, c, p>>)
  \/ \E k \in {0, 4}, n \in {0, 3} : Case("notify", [protocol |-> 1, type |-> 16388, spi |-> Bytes(k), data |-> Bytes(n)])
  \/ \E p \in 1..4, s \in {<<>>, <<4>>, <<4, 4>>, <<4, 3>>} :
        Case("delete", [protocol |-> p, spis |-> [i \in 1..Len(s) |-> Bytes(s[i])]])
  \/ \E t \in {0, 1}, a \in {<<>>, <<Attr(1, <<>>)>>, <<Attr(1, <<>>), Attr(20, Bytes(4))>>} :
        Case("configuration", [type |-> t, attrs |-> a])
  \/ \E s \in {<<>>, <<Selector(7, 4)>>, <<Selector(7, 4), Selector(8, 16)>>, <<Selector(8, 4)>>} : Case("selectors", s)
  \/ \E f \in [number : 0..3, total : 0..3, data : {<<>>, Bytes(3)}] : Case("fragment", f)
IkeRead(c) ==
  LET n == c.in IN
  /\ Is(c, "chain") => IkeWire!ChainKept(n)
  /\ Is(c, "cut") /\ IkeWire!MarshalPayloads(n[1]) # IkeWire!Fails => IkeWire!CutRefused(n[1], n[2])
  /\ Is(c, "padding") => IkeWire!PaddingKept(n[1], n[2])
  /\ Is(c, "longest") => (IkeWire!MarshalPayloads(<<Payload(41, 0, FALSE, n)>>) = IkeWire!Fails) = (n + 4 > 65535)
  /\ Is(c, "sa") => IkeWire!BackTo(IkeWire!MarshalSA(n), IkeWire!ParseSecurityAssociation, n)
  /\ Is(c, "seal") => IkeWire!SealOpens(n[1], n[2], n[3], n[4], n[5], n[6])
  /\ Is(c, "notify") => IkeWire!BackTo(IkeWire!MarshalNotify(n), IkeWire!ParseNotify, n)
  /\ Is(c, "delete") => IkeWire!BackTo(IkeWire!MarshalDelete(n), IkeWire!ParseDelete, n)
  /\ Is(c, "configuration") => IkeWire!BackTo(IkeWire!MarshalConfiguration(n), IkeWire!ParseConfiguration, n)
  /\ Is(c, "selectors") => IkeWire!BackTo(IkeWire!MarshalSelectors(n), IkeWire!ParseTrafficSelectors, n)
  /\ Is(c, "fragment") => IkeWire!BackTo(IkeWire!MarshalFragment(n), IkeWire!ParseEncryptedFragment, n)

-----------------------------------------------------------------------------
(* EAP packets *)
AT == EapWire!AT
EapKeys(i, type) == [aut |-> [id |-> i, prime |-> type = 50], encr |-> [id |-> i, prime |-> FALSE]]
Vectors(n) == [i \in 1..n |-> <<Bytes(16), [q \in 1..16 |-> q + i]>>]
Request(type, subtype, as) ==
  [EapWire!NoPacket EXCEPT !.code = 1, !.id = 3, !.type = type, !.subtype = subtype, !.attrs = as]
Challenge(type, n, pseudonym, keys, extra) ==
  LET V == Vectors(n) IN
  EapWire!Signed(Request(type, 1,
    <<EapWire!FixedAttribute(AT.RAND, EapWire!Joined([i \in 1..n |-> V[i][1]])),
      EapWire!FixedAttribute(AT.AUTN, EapWire!Joined([i \in 1..n |-> V[i][2]])),
      EapWire!FixedAttribute(AT.IV, Bytes(16)),
      EapWire!EncryptAttributes(keys.encr, Bytes(16), <<EapWire!VariableAttribute(AT.PSEUDONYM, pseudonym)>>)[1]>>
    \o (IF extra THEN <<EapWire!Uint16Attribute(AT.KDF, 1), EapWire!VariableAttribute(AT.KDFINPUT, Bytes(3))>> ELSE <<>>)
    \o <<EapWire!MACAttribute(EapWire!Zeros(16))>>), keys.aut, <<>>)
Notification(type, code, keys) ==
  EapWire!Signed(Request(type, 12, <<EapWire!Uint16Attribute(AT.NOTIFICATION, code), EapWire!MACAttribute(EapWire!Zeros(16))>>),
                 keys.aut, <<>>)
IdentityRequest(type, versions) ==
  Request(type, 5, IF versions = <<>> THEN <<EapWire!FixedAttribute(AT.ANY, <<>>)>>
                   ELSE <<EapWire!VariableAttribute(AT.VERSIONS,
                            EapWire!Joined([i \in 1..Len(versions) |-> EapWire!Put16(versions[i])]))>>)
EapForms ==
  \/ \E n \in 0..9, m \in 0..5 : Case("attributes", <<n, m>>)
  \/ \E n \in 4..16 : Case("res", n)
  \/ \E n, m \in {0, 1, 2, 3, 4, 9, 12}, k, j \in 1..2 : Case("identities", <<n, m, k, j>>)
  \/ \E t \in {23, 50}, n \in 1..2, m \in {1, 3, 6}, k, j \in 1..2, x \in BOOLEAN : Case("challenge", <<t, n, m, k, j, x>>)
  \/ \E t \in {23, 50}, c \in {0, 16384, 32768, 49152}, k, j \in 1..2 : Case("notification", <<t, c, k, j>>)
  \/ \E t \in {0, 23, 50}, c \in {"sync", "auth", "other"}, n \in {0, 13, 14} : Case("failure", <<t, c, n>>)
  \/ \E t \in {0, 23, 50}, v \in {<<>>, <<1>>, <<2, 1>>, <<2>>}, n \in 1..5 : Case("identity", <<t, v, n>>)
EapRead(c) ==
  LET n == c.in IN
  /\ Is(c, "attributes") =>
       LET as == <<EapWire!VariableAttribute(AT.IDENTITY, Bytes(n[1])), EapWire!VariableAttribute(AT.KDFINPUT, Bytes(n[2])),
                   EapWire!FixedAttribute(AT.RESULT, <<>>)>>
       IN EapWire!ValueKept(as, 1, EapWire!VariableValue, Bytes(n[1])) /\ EapWire!ValueKept(as, 2, EapWire!VariableValue, Bytes(n[2]))
  /\ Is(c, "res") => EapWire!ValueKept(<<EapWire!RESAttribute(Bytes(n)), EapWire!FixedAttribute(AT.MAC, Bytes(16))>>, 1,
                                    EapWire!RESValue, Bytes(n))
  /\ Is(c, "identities") => EapWire!IdentityKept(Bytes(n[1]), Bytes(n[2]), EapKeys(n[3], 23).encr, EapKeys(n[4], 23).encr, Bytes(16))
  /\ Is(c, "challenge") => LET keys == EapKeys(n[4], n[1]) IN
       \A p \in {Challenge(n[1], n[2], Bytes(n[3]), keys, n[6])} :
         EapWire!ChallengeRead(p, keys, EapKeys(n[5], n[1]), Vectors(n[2]),
                               [pseudonym |-> Bytes(n[3]), reauth |-> <<>>])
  /\ Is(c, "notification") => LET keys == EapKeys(n[3], n[1]) IN
       \A p \in {Notification(n[1], n[2], keys)} : EapWire!NotificationHonest(p, keys, EapKeys(n[4], n[1]), n[2])
  /\ Is(c, "failure") => EapWire!FailureUnderstood(Request(n[1], 1, <<EapWire!Uint16Attribute(AT.KDF, 1)>>), Bytes(n[3]), n[2])
  /\ Is(c, "identity") => EapWire!IdentityAnswered(IdentityRequest(n[1], n[2]), Bytes(n[3]), n[2])

-----------------------------------------------------------------------------
(* Negotiated security associations, selectors and recoveries *)
Offers == {Deal!Tr("encr", "cbc", 128), Deal!Tr("encr", "cbc", 0), Deal!Tr("encr", "gcm", 128), Deal!Tr("integ", "sha1", 0),
           Deal!Tr("integ", "md5", 0), Deal!Tr("integ", "sha256", 0), Deal!Tr("esn", "no", 0), Deal!Tr("esn", "yes", 0)}
Notifies == [type : {"UPDATE_SA_ADDRESSES", "REKEY_SA", "INVALID_KE_PAYLOAD", "NO_PROPOSAL_CHOSEN", "INVALID_SELECTORS",
                     "INTERNAL_ADDRESS_FAILURE", "AUTHENTICATION_FAILED", "COOKIE2", "OTHER_ERROR"}, length : {2, 8}, group : {14}]
Deletes == {{}, {[protocol |-> "ike", spis |-> {}]}, {[protocol |-> "esp", spis |-> {1}]},
            {[protocol |-> "esp", spis |-> {7}], [protocol |-> "ike", spis |-> {}]}}
Ranges == [type : {4, 6}, protocol : {0, 6}, startPort : {0, 1}, endPort : {0, 1}, start : {0, 1}, end : {1, 2}]
AnySelector == [type |-> 4, protocol |-> 0, startPort |-> 0, endPort |-> 1, start |-> 0, end |-> 2]
DealForms ==
  \/ \E t \in UpTo(Offers, 3), p \in {"esp", "ike"}, spi \in BOOLEAN :
        Case("selection", [protocol |-> p, spi |-> spi, transforms |-> t])
  \/ \E o, s \in Ranges : Case("narrowing", <<o, s>>)
  \/ \E ns \in UpTo(Notifies, 2), d \in Deletes, c \in {{1, 2}} : Case("plan", <<ns, d, c>>)
DealSound(c) ==
  LET n == c.in IN
  /\ Is(c, "selection") => \A o \in {Deal!Default3GPPESPProposal, Deal!Default3GPPIKEProposal,
                                  [Deal!Default3GPPESPProposal EXCEPT !.transforms = <<Deal!Tr("encr", "gcm", 128)>> \o @]} :
                          Deal!SelectionUsable(o, n, <<AnySelector>>)
  /\ Is(c, "narrowing") => Deal!NarrowingSound(<<n[1]>>, <<n[2]>>, [type : {4, 6}, protocol : {0, 6, 17}, port : 0..1, addr : 0..2])
  /\ Is(c, "plan") => Deal!PlanSettled(n[1], n[2], n[3])

-----------------------------------------------------------------------------
(* Media *)
\* Streams none of whose packets precedes the first, or is half the number
\* space from the highest so far.
Streams == {<<f>> \o [i \in 1..Len(t) |-> f + t[i]] : f \in {0, 6}, t \in UpTo(0..6, 3)}
Ordered(t) == \A i \in 1..Len(t), j \in 1..Len(t) : i < j => t[i] - t[j] < 4 /\ (\E k \in 1..(j - 1) : t[j] - t[k] < 4)
Thresholds(w, c) == [min |-> w, lossW |-> 64, lossC |-> 128, jitW |-> w, jitC |-> c, rttW |-> w, rttC |-> c,
                     keepalive |-> 0, grace |-> 0, require |-> FALSE]
Reports == [fraction : {0, 63, 64, 200}, jitter : {0, 3, 9}, rtt : {0, 3, 9}]
Crypto == [suite : {"s1", "s2"}, ok : BOOLEAN, key : {"k1", "k2"}]
Payloads == {[p \in S |-> c] : S \in SUBSET {97, 101}, c \in {8000, 16000}}
MediaForms ==
  \/ \E s \in Streams : Ordered(s) /\ Case("stream", s)
  \/ \E ms \in {0, 1, 20, 100, 250}, st \in {0, 20, 60}, c \in {8000, 16000}, e \in 1..3 : Case("event", <<ms, st, c, e>>)
  \/ \E o, a \in UpTo(Crypto, 2), p \in {<<"s1">>, <<"s2", "s1">>} : Case("sdes", <<o, a, p>>)
  \/ \E d \in {0, 1, 2, 3, 160, 40000}, s \in Payloads \ {<<>>}, t \in Payloads : \E p \in DOMAIN s :
        Case("dtmf", <<[payload |-> p, duration |-> d], s, t>>)
  \/ \E l, m \in 0..2, t, h, b \in 0..2 : Case("rtt", <<l, m, t, h, b>>)
  \/ \E r, w \in Reports, c \in {<<0, 0>>, <<4, 2>>, <<3, 8>>} : Case("diagnosis", <<r, w, c>>)
MediaSound(c) ==
  LET n == c.in IN
  /\ Is(c, "stream") => /\ Media!LossExact(n)
                     /\ \A w \in {0, 2} : Media!StreamDiagnosed(n, Thresholds(w, 4))
  /\ Is(c, "event") => Media!EventWellFormed(n[1], n[2], n[3], n[4])
  /\ Is(c, "sdes") => Media!SdesKeysAgree(n[1], n[2], n[3])
  /\ Is(c, "dtmf") => /\ Media!DtmfSurvives(n[1], n[2], n[3])
                   /\ \A rate \in {0, 8000} : Media!GeneratedPayload(n[2], rate)
  /\ Is(c, "rtt") => Media!RoundTripExact(n[1], n[2], n[3], n[4], n[5])
  /\ Is(c, "diagnosis") => Media!DiagnosisMonotone(n[1], n[2], Thresholds(n[3][1], n[3][2]))

-----------------------------------------------------------------------------
(* SIP timers and servers; the control port and the emergency call are      *)
(* checked by the modules that have their state.                            *)
Names == {"host", "a", "b"}
HostPorts == {"at", "qmi"}
HostForms ==
  \/ \E m \in {"INVITE", "MESSAGE"}, t1 \in 0..4, t2 \in {0, 1, 5, 8} : Case("schedule", <<m, [T1 |-> t1, T2 |-> t2, T4 |-> 0]>>)
  \/ \E s \in UpTo({"a", "b"}, 2), x \in [Names -> UpTo({"ip1", "ip2"}, 2)], r \in BOOLEAN : Case("servers", <<s, x, r>>)
  \/ \E w \in SUBSET {"timeout", "cme", "busy", "qcfg", "identity failure", "qmi unavailable", "at error"},
        p \in HostPorts, a \in 0..3 : Case("port", <<w, p, a>>)
  \/ \E s \in {200, 380, 401, 404, 408, 424, 500, 603}, c \in SUBSET {"urn", "sip", "other"}, m \in BOOLEAN :
        Case("retry", [status |-> s, contacts |-> c, mentions |-> m])
SipSound(c) ==
  LET n == c.in IN
  /\ Is(c, "schedule") => Timers!ScheduleAgrees(n[1], n[2])
  /\ Is(c, "servers") => Servers!ServersComplete("host", n[1], n[2], n[3])

-----------------------------------------------------------------------------
CaseInit == case \in {NoCase(f) : f \in Families}
CaseNext ==
  /\ case.of = "none"
  /\ \/ case.in = "sms" /\ (SmsText \/ SmsForms)
     \/ case.in = "card" /\ CardForms
     \/ case.in = "ike" /\ IkeForms
     \/ case.in = "eap" /\ EapForms
     \/ case.in = "deal" /\ DealForms
     \/ case.in = "media" /\ MediaForms
     \/ case.in = "host" /\ HostForms

-----------------------------------------------------------------------------
routesVars == <<pc, undo, cancelled, session, device, refs, installed,
                 starts, orphans, killed>>
portVars == <<radio, access>>
akaVars == <<card, call, leaked, lost>>
emVars == <<info, storedAt, policy, clock>>
pureVars == <<case>>
vars == <<focus, espVars, mobikeVars, routesVars, portVars, akaVars, emVars, pureVars>>

Init ==
  /\ focus \in {"esp", "mobike", "routes", "port", "aka", "em", "pure"}
  /\ EspInit /\ MobikeInit /\ Routes!Init /\ Port!RecoveryInit /\ Aka!AkaInit
  /\ Em!EmInit /\ CaseInit
  /\ focus # "esp" => windowSize = 0
  /\ focus # "em" => policy = [refreshBefore |-> -1, expiresIn |-> 0, cacheMaxAge |-> 0]
  /\ focus # "pure" => case = NoCase("sms")
  /\ focus # "mobike" => supported /\ ~ current.nat

\* Only the component in focus steps.
EspOnly == focus = "esp" /\ UNCHANGED <<focus, mobikeVars, routesVars, portVars, akaVars, emVars, pureVars>>
MobOnly == focus = "mobike" /\ UNCHANGED <<focus, espVars, routesVars, portVars, akaVars, emVars, pureVars>>
RoutesOnly == focus = "routes" /\ UNCHANGED <<focus, espVars, mobikeVars, portVars, akaVars, emVars, pureVars>>
PortOnly == focus = "port" /\ UNCHANGED <<focus, espVars, mobikeVars, routesVars, akaVars, emVars, pureVars>>
AkaOnly == focus = "aka" /\ UNCHANGED <<focus, espVars, mobikeVars, routesVars, portVars, emVars, pureVars>>
EmOnly == focus = "em" /\ UNCHANGED <<focus, espVars, mobikeVars, routesVars, portVars, akaVars, pureVars>>
PureOnly == focus = "pure" /\ UNCHANGED <<focus, espVars, mobikeVars, routesVars, portVars, akaVars, emVars>>

Next ==
  \/ EspOnly /\ EspNext
  \/ MobOnly /\ MobikeNext
  \/ RoutesOnly /\ Routes!Next
  \/ PortOnly /\ Port!RecoveryNext
  \/ AkaOnly /\ Aka!AkaNext
  \/ EmOnly /\ Em!EmNext
  \/ PureOnly /\ CaseNext

Spec ==
  /\ Init /\ [][Next]_vars

-----------------------------------------------------------------------------
\* A route that a running tunnel needs is never removed by the stop of another,
\* and no command that succeeded is forgotten (TunRouting).
RoutesKept == focus = "routes" => Routes!SharedRouteStays /\ Routes!NothingForgotten


\* SimAka and SimRecovery: logical channels are closed, answers are whole, a
\* synchronisation failure is the card's, and the radio is left on.
CardLeftClean ==
  /\ focus = "aka" => Aka!ChannelsReturned /\ Aka!AnswerWhole /\ Aka!SyncFailureGenuine
  /\ focus = "port" => Port!RadioLeftOn

\* Emergency: cached data is offered exactly while it may be used, and a call is
\* planned from nothing else.
EmergencyPlans == focus = "em" => Em!CacheWindows /\ Em!PlanSound

\* The codecs of SMS, SIM card, IKE and EAP-AKA read back what they write, with
\* whatever padding, headers and optional parts there are: so in every case that
\* is picked.
DecodesAsEncoded == [][\A c \in {case'} : SmsRead(c) /\ CardRead(c) /\ IkeRead(c) /\ EapRead(c)]_case

\* What is decided from an answer agrees with it: negotiated associations,
\* selectors and recoveries, media statistics, events and keys, SIP timers and
\* servers, the control port, status words and answers to an emergency call.
DecisionsSound ==
  [][\A c \in {case'} : LET n == c.in IN
       /\ DealSound(c) /\ MediaSound(c) /\ SipSound(c)
       /\ Is(c, "port") => Port!DecisionHonest(PortError(n[1], "none", <<>>, FALSE), n[2], n[3])
       /\ Is(c, "status") => Port!StatusTold(n[1], n[2])
       /\ Is(c, "retry") => Em!RetryMakesProgress(n)]_case
=============================================================================

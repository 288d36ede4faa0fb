--------------------------- MODULE IkeNegotiation ---------------------------
(***************************************************************************)
(* The decisions of engine/swu/ikev2 on what the ePDG answers: the selected*)
(* proposal and its key profile (sa.go, keys.go, childsa.go), the narrowed *)
(* traffic selectors (session_payloads.go), and the recovery planned from  *)
(* an INFORMATIONAL exchange (informational.go, informational_child.go,    *)
(* informational_handling.go).  An address or a port is a number.          *)
(***************************************************************************)
EXTENDS Integers, Sequences, SequencesExt, FiniteSetsExt

-----------------------------------------------------------------------------
(* Selected security association.                                          *)
ENCR_AES_CBC == "cbc"
ENCR_AES_GCM_16 == "gcm"
Tr(type, id, bits) == [type |-> type, id |-> id, bits |-> bits]

Default3GPPIKEProposal ==
  [protocol |-> "ike", spi |-> FALSE,
   transforms |-> <<Tr("encr", ENCR_AES_CBC, 128), Tr("prf", "sha256", 0), Tr("prf", "sha1", 0),
                    Tr("integ", "sha256", 0), Tr("integ", "sha1", 0), Tr("dh", "modp2048", 0)>>]
Default3GPPESPProposal ==
  [protocol |-> "esp", spi |-> TRUE,
   transforms |-> <<Tr("encr", ENCR_AES_CBC, 128), Tr("integ", "sha256", 0), Tr("integ", "sha1", 0),
                    Tr("esn", "no", 0)>>]

Types(p) == {t.type : t \in ToSet(p.transforms)}
\* findTransform: the first of a type.
findTransform(p, type) == SelectSeq(p.transforms, LAMBDA t : t.type = type)[1]
isCombinedModeEncryption(id) == id = ENCR_AES_GCM_16

validateSelectedProposalRequiredTransforms(p) ==
  LET combined == "encr" \in Types(p) /\ isCombinedModeEncryption(findTransform(p, "encr").id)
  IN /\ p.protocol \in {"ike", "esp"}
     /\ (IF p.protocol = "ike" THEN {"encr", "prf", "dh"} ELSE {"encr", "esn"}) \subseteq Types(p)
     /\ combined <=> "integ" \notin Types(p)
proposalSupportsSelection(offered, selected) ==
  /\ offered.protocol = selected.protocol
  /\ ToSet(selected.transforms) \subseteq ToSet(offered.transforms)
ValidateSelectedSA(offered, selected) ==
  /\ Len(selected) = 1
  /\ validateSelectedProposalRequiredTransforms(selected[1])
  /\ \E i \in 1..Len(offered) : proposalSupportsSelection(offered[i], selected[1])

encryptionProfile(t) ==
  LET bits == IF t.bits = 0 THEN 128 ELSE t.bits
  IN CASE t.id \notin {ENCR_AES_CBC, ENCR_AES_GCM_16} \/ bits \notin {128, 192, 256} -> 0
       [] t.id = ENCR_AES_CBC -> bits \div 8
       [] OTHER -> (bits \div 8) + 4
integrityProfile(id) ==
  CASE id = "sha1" -> 20 [] id = "sha256" -> 32 [] id = "sha384" -> 48 [] id = "sha512" -> 64 [] OTHER -> 0

\* ESPKeyProfileFromSA, <<>> for an error.
ESPKeyProfileFromSA(p) ==
  IF p.protocol # "esp" \/ "encr" \notin Types(p) THEN <<>>
  ELSE LET encr == findTransform(p, "encr")
           combined == isCombinedModeEncryption(encr.id)
           integ == IF combined THEN 0
                    ELSE IF "integ" \in Types(p) THEN integrityProfile(findTransform(p, "integ").id) ELSE 0
       IN IF encryptionProfile(encr) = 0 \/ (combined <=> "integ" \in Types(p)) \/ (~combined /\ integ = 0)
          THEN <<>>
          ELSE <<[encr |-> encr, encrLen |-> encryptionProfile(encr), integLen |-> integ,
                  esn |-> "esn" \in Types(p) /\ findTransform(p, "esn").id = "yes"]>>

\* DeriveChildSAKeysWithNonces: the two directions cut out of the key material.
DirectionKeyLength(profile) == profile.encrLen + profile.integLen
splitESPKeys(profile, from) ==
  [encr |-> (from + 1)..(from + profile.encrLen),
   integ |-> (from + profile.encrLen + 1)..(from + DirectionKeyLength(profile))]
DeriveChildSAKeysWithNonces(profile) ==
  [outbound |-> splitESPKeys(profile, 0), inbound |-> splitESPKeys(profile, DirectionKeyLength(profile))]

-----------------------------------------------------------------------------
(* Traffic selectors.                                                      *)
normalizeTrafficSelectorRange(s) == s.startPort <= s.endPort /\ s.start <= s.end
trafficSelectorCovers(o, s) ==
  /\ o.type = s.type /\ o.protocol \in {0, s.protocol}
  /\ o.startPort <= s.startPort /\ s.endPort <= o.endPort
  /\ o.start <= s.start /\ s.end <= o.end
ValidateTrafficSelectorNarrowing(offered, selected) ==
  /\ offered # <<>> /\ selected # <<>>
  /\ \A s \in ToSet(offered) \cup ToSet(selected) : normalizeTrafficSelectorRange(s)
  /\ \A s \in ToSet(selected) : \E o \in ToSet(offered) : trafficSelectorCovers(o, s)

\* parseChildSAResultWithNonces, the payloads being parsed.
parseChildSAResultWithNonces(offeredSA, offeredTS, selectedSA, ts) ==
  /\ ValidateSelectedSA(offeredSA, selectedSA)
  /\ selectedSA[1].spi
  /\ ValidateTrafficSelectorNarrowing(offeredTS, ts)
  /\ ESPKeyProfileFromSA(selectedSA[1]) # <<>>

-----------------------------------------------------------------------------
(* INFORMATIONAL.                                                          *)
\* What a notify asks for; the kinds that ask for nothing are "none".
ClassifyNotifyAction(n) ==
  CASE n.type = "UPDATE_SA_ADDRESSES" -> "update"
    [] n.type = "REKEY_SA" -> "rekey"
    [] n.type = "INVALID_KE_PAYLOAD" -> IF n.length = 2 THEN "retry" ELSE "abort"
    [] n.type = "NO_PROPOSAL_CHOSEN" -> "retry"
    [] n.type \in {"TS_UNACCEPTABLE", "INVALID_SELECTORS", "INVALID_SPI"} -> "child"
    [] n.type = "NO_ADDITIONAL_SAS" -> "wait"
    [] n.type = "INTERNAL_ADDRESS_FAILURE" -> "ike"
    [] n.type \in {"UNACCEPTABLE_ADDRESSES", "NO_NATS_ALLOWED"} -> "address"
    [] n.type = "AUTHENTICATION_FAILED" -> "reauth"
    [] n.type \in {"INVALID_SYNTAX", "OTHER_ERROR"} -> "abort"
    [] OTHER -> "none"          \* COOKIE2, ADDITIONAL_IP4_ADDRESS, a status
\* handleInformationalNotify: the lengths it insists on.
handleInformationalNotify(n) ==
  CASE n.type = "ADDITIONAL_IP4_ADDRESS" -> n.length = 4
    [] n.type = "COOKIE2" -> n.length \in 8..64
    [] n.type = "INVALID_SELECTORS" -> n.length > 0
    [] OTHER -> TRUE

\* Deletes are sets of SPIs of a protocol; the tracked child has two.
ClassifyChildSADeletes(deletes, child) ==
  LET spis == UNION {d.spis : d \in {x \in deletes : x.protocol # "ike"}}
      current == UNION {d.spis : d \in {x \in deletes : x.protocol = "esp"}} \cap child
      other == {s \in spis : \E d \in deletes : s \in d.spis /\ ~(d.protocol = "esp" /\ s \in child)}
  IN [ike |-> \E d \in deletes : d.protocol = "ike", current |-> current # {}, other |-> other # {}]

Priority(action) ==
  CASE action = "abort" -> 100 [] action = "reauth" -> 90 [] action = "ike" -> 80 [] action = "child" -> 70
    [] action = "address" -> 60 [] action = "retry" -> 55 [] action = "wait" -> 50 [] action = "rekey" -> 40
    [] action = "update" -> 30 [] OTHER -> 0
\* considerRecovery: the first of the highest priority, with its flags alone.
MutConsiderRecovery(plan, action, group) == [action |-> action, group |-> group]
considerRecovery(plan, action, group) ==
  IF Priority(action) <= Priority(plan.action) THEN plan ELSE [action |-> action, group |-> group]
SuggestedDHGroup(n) == IF n.type = "INVALID_KE_PAYLOAD" /\ n.length = 2 THEN n.group ELSE 0
PlanInformationalRecovery(notifies, deletes, child) ==
  LET gone == ClassifyChildSADeletes(deletes, child)
      none == [action |-> "none", group |-> 0]
      p1 == IF gone.ike THEN considerRecovery(none, "ike", 0) ELSE none
      p2 == IF gone.current THEN considerRecovery(p1, "child", 0) ELSE p1
      p3 == IF \E n \in ToSet(notifies) : n.type = "UPDATE_SA_ADDRESSES"
            THEN considerRecovery(p2, "update", 0) ELSE p2
  IN IF \E n \in ToSet(notifies) : ~handleInformationalNotify(n)
     THEN [action |-> "invalid", group |-> 0]
     ELSE FoldLeft(LAMBDA p, n : considerRecovery(p, ClassifyNotifyAction(n), SuggestedDHGroup(n)), p3, notifies)

\* Flags of a plan, set by the closures passed to considerRecovery.
RecreateIKE(plan) == plan.action \in {"ike", "reauth"}
Retry(plan) == plan.action \notin {"none", "update", "abort", "invalid"}

-----------------------------------------------------------------------------
\* An SA the client accepts is one it offered, and one it has keys for: two
\* directions that share no octet of the key material (sa.go:201, childsa.go:48);
\* and every child validated from the selectors it offered is accepted.
SelectionUsable(offered, selected, ts) ==
  ValidateSelectedSA(<<offered>>, <<selected>>) =>
    /\ findTransform(selected, "encr") \in ToSet(offered.transforms)
    /\ selected.protocol = "esp" =>
         LET profile == ESPKeyProfileFromSA(selected)
             keys == DeriveChildSAKeysWithNonces(profile[1])
         IN /\ profile # <<>>
            /\ parseChildSAResultWithNonces(<<offered>>, ts, <<selected>>, ts) = selected.spi
            /\ (keys.outbound.encr \cup keys.outbound.integ) \cap (keys.inbound.encr \cup keys.inbound.integ) = {}
            /\ keys.outbound.encr \cap keys.outbound.integ = {}

\* No packet is let through by the selectors of an accepted child that none of
\* those offered would have let through (session_payloads.go:254-280).
Matches(s, type, protocol, port, addr) ==
  s.type = type /\ s.protocol \in {0, protocol} /\ port \in s.startPort..s.endPort /\ addr \in s.start..s.end
NarrowingSound(offered, selected, packets) ==
  ValidateTrafficSelectorNarrowing(offered, selected) =>
    \A p \in packets : (\E s \in ToSet(selected) : Matches(s, p.type, p.protocol, p.port, p.addr))
                    => \E o \in ToSet(offered) : Matches(o, p.type, p.protocol, p.port, p.addr)

\* The recovery planned does not depend on the order of the notifies, and is at
\* least as drastic as any of them asks for alone: an exchange that deletes the
\* IKE SA never ends in a retry on it (informational_handling.go:187-242).
PlanSettled(notifies, deletes, child) ==
  LET plan == PlanInformationalRecovery(notifies, deletes, child)
      turned == PlanInformationalRecovery(Reverse(notifies), deletes, child)
  IN /\ plan.action = turned.action
     /\ plan.action # "invalid" =>
          /\ \A n \in ToSet(notifies) : Priority(plan.action) >= Priority(ClassifyNotifyAction(n))
          /\ (\E d \in deletes : d.protocol = "ike") /\ Retry(plan) => RecreateIKE(plan)
=============================================================================

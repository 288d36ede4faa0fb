------------------------------ MODULE Emergency ------------------------------
(* Emergency call planning: the entitlement cache (entitlement_cache.go),   *)
(* the plan of a call made from it (plan.go, ims_headers.go), and what an   *)
(* answer to that call asks for (ims_profile.go).  Time is counted in ticks *)
(* from 1, and 0 is Go's zero time.  A service is a short name for its URN; *)
(* an address is told apart by what it can be used for: "partial" has some  *)
(* field, "civic" has a civic location, "geo" has coordinates.              *)
EXTENDS Integers, Sequences, FiniteSets
CONSTANTS Infos,       \* the entitlement answers a refresh may bring
          Policies,    \* the cache policies the host may set
          MaxClock     \* bound on the clock
VARIABLES info,        \* the entitlement stored last
          storedAt,    \* when, 0 for never
          policy,
          clock
emVars == <<info, storedAt, policy, clock>>

Zero == 0
NoInfo == [status |-> 0, data |-> FALSE, urns |-> {}, routes |-> {}, address |-> "none",
           expiresAt |-> Zero, expiresIn |-> 0, cacheMaxAge |-> 0, retryIn |-> 0, stale |-> 0, validation |-> ""]

EmInit == info = NoInfo /\ storedAt = Zero /\ policy \in Policies /\ clock = 1

-----------------------------------------------------------------------------
(* The cache and the view taken of it. *)
normalizeEntitlementCachePolicy(p) == [f \in DOMAIN p |-> IF p[f] < 0 THEN 0 ELSE p[f]]
earliestNonZeroTime(a, b) == IF a = Zero THEN b ELSE IF b = Zero \/ a <= b THEN a ELSE b
After(base, d) == IF d > 0 /\ base # Zero THEN base + d ELSE Zero

EffectiveExpiresAt(i, base) == IF i.expiresAt # Zero THEN i.expiresAt ELSE After(base, i.expiresIn)
EffectiveCacheExpiresAt(i, base) == After(base, i.cacheMaxAge)
EffectiveRetryAfter(i, base) == After(base, i.retryIn)

entitlementInfoCacheableStatus(i) == i.status \in {0, 1000}
entitlementInfoHasData(i) == i.data \/ i.urns # {} \/ i.routes # {} \/ i.address # "none"
entitlementInfoServiceURNs(i) ==
  LET named == i.urns \cup (i.routes \ {""}) IN
  IF named = {} /\ entitlementInfoHasData(i) THEN {"sos"} ELSE named

entitlementRefreshState(i, now, cached, expires, cacheExpires, refreshAt) ==
  IF ~cached THEN "no-cache"
  ELSE IF ~entitlementInfoCacheableStatus(i) THEN "status"
  ELSE IF ~entitlementInfoHasData(i) THEN "empty"
  ELSE IF \E t \in {expires, cacheExpires} : t # Zero /\ now >= t THEN "expired"
  ELSE IF refreshAt # Zero /\ now >= refreshAt THEN "refresh-window"
  ELSE "none"

entitlementStaleIfErrorExpiresAt(i, expires, cacheExpires) ==
  IF earliestNonZeroTime(expires, cacheExpires) = Zero THEN Zero
  ELSE After(earliestNonZeroTime(expires, cacheExpires), i.stale)
MutStaleAvailable(i, now, cached, expires, cacheExpires, staleUntil) ==
  /\ cached /\ staleUntil # Zero /\ now < staleUntil
  /\ entitlementInfoCacheableStatus(i) /\ entitlementInfoHasData(i)
entitlementStaleIfErrorAvailable(i, now, cached, expires, cacheExpires, staleUntil) ==
  LET fresh == earliestNonZeroTime(expires, cacheExpires) IN
  /\ cached /\ staleUntil # Zero /\ now < staleUntil
  /\ entitlementInfoCacheableStatus(i) /\ entitlementInfoHasData(i)
  /\ fresh # Zero /\ now >= fresh

entitlementSnapshot(i, stored, now, cached, p) ==
  LET byExpiry == EffectiveExpiresAt(i, stored)
      expires == IF byExpiry = Zero THEN After(stored, p.expiresIn) ELSE byExpiry
      byAge == EffectiveCacheExpiresAt(i, stored)
      cacheExpires == IF byAge = Zero THEN After(stored, p.cacheMaxAge) ELSE byAge
      first == earliestNonZeroTime(expires, cacheExpires)
      early == first - p.refreshBefore
      refreshAt == IF first = Zero \/ p.refreshBefore = 0 THEN first
                   ELSE IF stored # Zero /\ early < stored THEN stored ELSE early
      staleUntil == entitlementStaleIfErrorExpiresAt(i, expires, cacheExpires)
      reason == entitlementRefreshState(i, now, cached, expires, cacheExpires, refreshAt)
  IN [cached |-> cached, reason |-> reason, refresh |-> reason # "none",
      expires |-> expires, cacheExpires |-> cacheExpires, staleUntil |-> staleUntil,
      retryAfter |-> EffectiveRetryAfter(i, stored),
      stale |-> entitlementStaleIfErrorAvailable(i, now, cached, expires, cacheExpires, staleUntil),
      info |-> i, urns |-> entitlementInfoServiceURNs(i)]

Snapshot(now) == entitlementSnapshot(info, storedAt, now, storedAt # Zero, normalizeEntitlementCachePolicy(policy))

Usable(s) ==
  /\ s.cached /\ entitlementInfoCacheableStatus(s.info) /\ entitlementInfoHasData(s.info)
  /\ s.reason \in {"none", "refresh-window"}
AvailableRoutes(s, service) == {r \in s.info.routes : service = "" \/ r \in {"", service}}

ClassifyEntitlementCacheDecision(s, now) ==
  CASE s.refresh /\ s.retryAfter # Zero /\ now < s.retryAfter -> "defer-refresh"
    [] s.refresh /\ ~(s.retryAfter # Zero /\ now < s.retryAfter) -> "refresh"
    [] OTHER -> IF Usable(s) THEN "use-cache" ELSE "refresh"

Store(i) == info' = i /\ storedAt' = clock /\ UNCHANGED <<policy, clock>>
CacheReset == storedAt # Zero /\ info' = NoInfo /\ storedAt' = Zero /\ UNCHANGED <<policy, clock>>
SetPolicy(p) == policy' = p /\ p # policy /\ UNCHANGED <<info, storedAt, clock>>
Tick == clock < MaxClock /\ clock' = clock + 1 /\ UNCHANGED <<info, storedAt, policy>>

-----------------------------------------------------------------------------
(* The plan of one call.  cfg: dial is "number" for 911 or 112, "service"   *)
(* for a service URN or alias, "other" else; address and pidf are the two   *)
(* configured addresses; build asks for a PIDF-LO body; uri says that a     *)
(* Geolocation URI or value is configured.                                  *)
Categories == <<"police", "ambulance", "fire", "marine", "mountain">>
EmergencyServiceURNsForCategory(c) ==
  LET named == SelectSeq(Categories, LAMBDA n : n \in c) IN
  IF named = <<>> THEN <<"sos">> ELSE named

emergencyPlanTarget(cfg) ==
  IF cfg.service # "" THEN cfg.service
  ELSE IF cfg.category # {} THEN EmergencyServiceURNsForCategory(cfg.category)[1]
  ELSE IF cfg.dial = "number" THEN "sos"
  ELSE IF cfg.dial = "service" THEN "fire"
  ELSE ""

emergencyAddressHasGeolocation(a) == a = "geo"
emergencyAddressHasPIDFLOLocation(a) == a \in {"civic", "geo"}
emergencyPlanAddress(primary, pidf, s) ==
  LET Config(a) == [address |-> a, source |-> "config"]
      Held == [address |-> s.info.address, source |-> "entitlement"]
      Located(a) == emergencyAddressHasPIDFLOLocation(a)
  IN IF Located(primary) THEN Config(primary)
     ELSE IF Located(pidf) THEN Config(pidf)
     ELSE IF Usable(s) /\ Located(s.info.address) THEN Held
     ELSE IF primary # "none" THEN Config(primary)
     ELSE IF pidf # "none" THEN Config(pidf)
     ELSE IF s.info.address # "none" THEN Held
     ELSE [address |-> "none", source |-> "none"]

(* A PIDF-LO body wants an address with a location; without one the plan    *)
(* is an error.                                                             *)
emergencyPlanShouldBuildPIDFLO(cfg) == cfg.build \/ emergencyAddressHasPIDFLOLocation(cfg.pidf)

(* What the Geolocation header is made of.                                  *)
emergencyGeolocationHeader(cfg, body, a) ==
  IF cfg.uri THEN "uri" ELSE IF body THEN "body"
  ELSE IF emergencyAddressHasGeolocation(a) THEN "address" ELSE ""

usableEmergencySIPService(s, service) ==
  Usable(s) /\ (service \in s.urns \/ AvailableRoutes(s, service) # {})

emergencyLocationRevalidationPlan(source, has, s) ==
  IF ~has THEN "missing"
  ELSE IF source = "entitlement" /\ ~Usable(s) /\ s.reason = "expired" THEN "expired"
  ELSE IF s.info.validation \in {"invalid", "pending"} THEN s.info.validation
  ELSE ""

EmergencyRegistrationBindingValidation(b) == b.marked /\ b.routes /\ b.expires > 0

BuildEmergencyPlan(cfg, now) ==
  LET service == emergencyPlanTarget(cfg)
      s == Snapshot(now)
      chosen == emergencyPlanAddress(cfg.address, cfg.pidf, s)
      body == emergencyPlanShouldBuildPIDFLO(cfg)
      sip == IF emergencyAddressHasPIDFLOLocation(chosen.address) THEN chosen.address ELSE cfg.address
      used == usableEmergencySIPService(s, service)
      named == IF used /\ ~cfg.uri /\ ~emergencyAddressHasGeolocation(sip) THEN s.info.address ELSE sip
      header == emergencyGeolocationHeader(cfg, body, named)
      has == emergencyAddressHasPIDFLOLocation(sip) \/ header # ""
  IN IF service = "" THEN [ok |-> TRUE, emergency |-> FALSE]
     ELSE IF body /\ ~emergencyAddressHasPIDFLOLocation(chosen.address) THEN [ok |-> FALSE, emergency |-> TRUE]
     ELSE [ok |-> TRUE, emergency |-> TRUE, service |-> service, usedCache |-> used,
           routes |-> IF used THEN AvailableRoutes(s, service) ELSE {},
           source |-> chosen.source, address |-> sip, header |-> header,
           revalidate |-> emergencyLocationRevalidationPlan(chosen.source, has, s),
           register |-> ~EmergencyRegistrationBindingValidation(cfg.binding)]

-----------------------------------------------------------------------------
(* What an answer to the call asks for.  A contact is "urn", "sip" or       *)
(* "other"; mentions says that the text of the answer names the location.   *)
ClassifyEmergencySIPFailure(r) ==
  LET server == r.status \in {408, 430, 480} \/ (r.status >= 500 /\ r.status < 600)
      mentions == r.mentions \/ r.status = 424
  IN IF r.status < 300 \/ r.status >= 700
     THEN [retryable |-> FALSE, alternative |-> FALSE, registration |-> FALSE, route |-> FALSE, location |-> FALSE]
     ELSE [retryable |-> server \/ mentions \/ r.status \in {380, 401, 407, 481},
           alternative |-> r.status = 380 /\ r.contacts # {},
           registration |-> server \/ r.status \in {401, 407, 481},
           route |-> server \/ r.status = 380,
           location |-> mentions]

applyAlternativeEmergencyService(r) ==
  [action |-> "alternative-service",
   uri |-> IF "urn" \in r.contacts THEN "urn" ELSE IF "sip" \in r.contacts THEN "sip" ELSE "same",
   routes |-> IF "sip" \in r.contacts THEN "contacts" ELSE "same", rebuild |-> FALSE, pidf |-> FALSE]

PlanEmergencySIPRetry(r) ==
  LET f == ClassifyEmergencySIPFailure(r)
      Same(action, rebuild, pidf) ==
        [action |-> action, uri |-> "same", routes |-> "same", rebuild |-> rebuild, pidf |-> pidf]
  IN CASE ~f.retryable -> Same("none", FALSE, FALSE)
       [] f.retryable /\ f.alternative -> applyAlternativeEmergencyService(r)
       [] f.retryable /\ ~f.alternative /\ f.location -> Same("refresh-location", TRUE, TRUE)
       [] f.retryable /\ ~f.alternative /\ ~f.location /\ f.registration -> Same("recover-registration", FALSE, FALSE)
       [] f.retryable /\ ~f.alternative /\ ~f.location /\ ~f.registration /\ f.route -> Same("refresh-route", TRUE, FALSE)
       [] OTHER -> Same("retry-same-request", FALSE, FALSE)

EmNext == (\E i \in Infos : Store(i)) \/ CacheReset \/ (\E p \in Policies : SetPolicy(p)) \/ Tick
EmSpec == EmInit /\ [][EmNext]_emVars

-----------------------------------------------------------------------------
Configs ==
  [dial : {"number", "service", "other"}, service : {"", "police"}, category : {{}, {"fire", "police"}},
   address : {"none", "partial", "geo"}, pidf : {"none", "civic"}, build : BOOLEAN, uri : {FALSE},
   binding : {[marked |-> TRUE, routes |-> TRUE, expires |-> 0]}]
  \cup [dial : {"number"}, service : {""}, category : {{}}, address : {"none", "civic"}, pidf : {"none", "partial"}, build : BOOLEAN,
        uri : {TRUE}, binding : {[marked |-> TRUE, routes |-> TRUE, expires |-> 1]}]
Answers == [status : {200, 380, 401, 404, 408, 424, 500, 603}, contacts : SUBSET {"urn", "sip", "other"}, mentions : BOOLEAN]

(* Between the moment usable data is stored and the end of its grace       *)
(* period the cache always offers exactly one of normal use and use after  *)
(* a failed refresh, and outside that time neither; while it can be used   *)
(* it is never past the end the server or the policy set, and a refresh is *)
(* put off only until the server's Retry-After.                            *)
CacheWindows ==
  LET s == Snapshot(clock)
      good == s.cached /\ entitlementInfoCacheableStatus(info) /\ entitlementInfoHasData(info)
      end == earliestNonZeroTime(s.expires, s.cacheExpires)
      grace == IF info.stale > 0 THEN end + info.stale ELSE end
      decision == ClassifyEntitlementCacheDecision(s, clock)
  IN /\ good /\ (end = Zero \/ clock < grace) => (Usable(s) # s.stale)
     /\ ~(good /\ (end = Zero \/ clock < grace)) => ~Usable(s) /\ ~s.stale
     /\ Usable(s) /\ end # Zero => clock < end
     /\ decision = "defer-refresh" => clock < storedAt + info.retryIn
     /\ decision = "use-cache" => Usable(s)

(* A plan of an emergency call takes routes only from data that can still  *)
(* be used and only for its service, and when it places the caller by an   *)
(* expired address it asks for that to be validated again; a number is     *)
(* never planned as an ordinary call.                                      *)
PlanSound ==
  \A cfg \in Configs :
    LET plan == BuildEmergencyPlan(cfg, clock)
        s == Snapshot(clock)
    IN /\ cfg.dial # "other" => plan.emergency
       /\ plan.ok /\ plan.emergency =>
            /\ plan.usedCache \/ plan.routes # {} => Usable(s)
            /\ plan.routes \subseteq {"", plan.service}
            /\ plan.source = "entitlement" /\ s.reason = "expired" => plan.revalidate # ""
            /\ plan.revalidate # "missing" => plan.header # "" \/ emergencyAddressHasPIDFLOLocation(plan.address)

(* Every retry changes what is sent or what it is sent from: an answer     *)
(* that may be retried never has the same request sent again unchanged.    *)
RetryMakesProgress(r) ==
    LET f == ClassifyEmergencySIPFailure(r)
        p == PlanEmergencySIPRetry(r)
    IN /\ p.action # "retry-same-request"
       /\ f.location /\ ~f.alternative => p.rebuild /\ p.pidf
       /\ p.uri = "same" /\ p.action # "none" => f.registration \/ f.route \/ f.location
=============================================================================

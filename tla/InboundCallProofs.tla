------------------------- MODULE InboundCallProofs --------------------------
(***************************************************************************)
(* Proof that nothing of an inbound call is left without a handler that    *)
(* will end it, for every number of handlers, offers and retries.          *)
(***************************************************************************)
EXTENDS InboundCall, TLAPS

Dialogs == [live : BOOLEAN, relay : Handlers \cup {NoRelay}, early : BOOLEAN,
            canceled : BOOLEAN, offer : Nat]
Goroutines == [pc : {"idle", "begin", "send", "await", "accept", "provisional", "release"},
               method : ForwardedMethods \cup OfferMethods \cup {"none", "INVITE", "CANCEL", "BYE"},
               copy : Dialogs, hasOffer : BOOLEAN, provisional : Dialogs,
               offer : Nat, retries : Nat]
CallType ==
  /\ dialog \in Dialogs /\ serial \in Nat /\ relays \subseteq Handlers
  /\ handler \in [Handlers -> Goroutines] /\ merged \in BOOLEAN

\* What a handler carries at each of its places.
Carries(n) ==
  /\ n.pc = "idle" => n = Idle
  /\ n.pc \in {"begin", "release"} => n.method \in OfferMethods
  /\ n.pc = "begin" => n.offer = 0
  /\ n.pc = "accept" => n.method = "INVITE"
  /\ n.pc = "provisional" => n.provisional.live /\ n.method \in {"INVITE", "reINVITE"}
  /\ n.pc \in {"send", "await", "provisional"} /\ n.method # "INVITE" => n.copy.live
  /\ n.offer # 0 => n.method \in OfferMethods
CarryInv == \A h \in Handlers : Carries(handler[h])

\* As long as no INVITE met another request, everybody who knows a relay knows the
\* same one: that of the INVITE that opened the call.
Knows(n, c) ==
  /\ n.copy.live => n.copy.relay = c
  /\ n.provisional.live => n.provisional.relay = c
OneRelay(c) ==
  /\ relays \subseteq {c}
  /\ dialog.live => dialog.relay = c
  /\ \A h \in Handlers : Knows(handler[h], c) /\ (handler[h].method = "INVITE" => h = c)
RelayInv == RelayOwned /\ (merged \/ \E c : OneRelay(c))

\* A handler's copy shows its own offer, or one that was copied while pending.
Shows(n, seen) ==
  /\ n.copy.offer \in {0, n.offer} \cup seen
  /\ n.provisional.offer \in {0, n.offer} \cup seen
OfferInv == OfferReleased /\ \A h \in Handlers : Shows(handler[h], copied)

CallInv == CallType /\ CarryInv /\ RelayInv /\ OfferInv
-----------------------------------------------------------------------------
(* How a handler moves: what it carries afterwards, and that the others stay.  *)

Moves(h, pc, method, copy, provisional, offer) ==
  /\ handler' \in [Handlers -> Goroutines]
  /\ handler'[h].pc = pc /\ handler'[h].method = method /\ handler'[h].offer = offer
  /\ handler'[h].copy = copy /\ handler'[h].provisional = provisional
  /\ \A g \in Handlers : g # h => handler'[g] = handler[g]

Places == {"idle", "begin", "send", "await", "accept", "provisional", "release"}
Methods == ForwardedMethods \cup OfferMethods \cup {"none", "INVITE", "CANCEL", "BYE"}

\* The dialogs the handlers make.
LEMMA DialogTypes ==
  /\ NoDialog \in Dialogs /\ ~ NoDialog.live /\ NoDialog.offer = 0
  /\ \A h \in Handlers, e \in BOOLEAN :
       /\ Dialog(h, e) \in Dialogs /\ Dialog(h, e).live
       /\ Dialog(h, e).relay = h /\ Dialog(h, e).offer = 0
  /\ \A d \in Dialogs :
       /\ d.live \in BOOLEAN /\ d.offer \in Nat /\ d.relay \in Handlers \cup {NoRelay}
       /\ \A n \in Nat :
            /\ [d EXCEPT !.offer = n] \in Dialogs /\ [d EXCEPT !.offer = n].offer = n
            /\ [d EXCEPT !.offer = n].live = d.live /\ [d EXCEPT !.offer = n].relay = d.relay
BY DEF Dialogs, NoDialog, Dialog

LEMMA CanceledType ==
  ASSUME NEW d \in Dialogs
  PROVE  LET e == [d EXCEPT !.canceled = TRUE, !.offer = 0]
         IN  e \in Dialogs /\ e.live = d.live /\ e.relay = d.relay /\ e.offer = 0
BY DEF Dialogs

\* A goroutine is idle, or at a place with what it carries.
LEMMA GoroutineTypes ==
  /\ Idle \in Goroutines /\ Idle.pc = "idle" /\ Idle.method = "none" /\ Idle.offer = 0
  /\ Idle.copy = NoDialog /\ Idle.provisional = NoDialog
  /\ \A n \in Goroutines :
       /\ n.pc \in Places /\ n.method \in Methods /\ n.copy \in Dialogs
       /\ n.provisional \in Dialogs /\ n.offer \in Nat
BY DialogTypes DEF Goroutines, Idle, Places, Methods

LEMMA Returns ==
  ASSUME CallType, NEW h \in Handlers, Return(h)
  PROVE  Moves(h, "idle", "none", NoDialog, NoDialog, 0) /\ handler'[h] = Idle
BY GoroutineTypes DEF CallType, Return, Moves

LEMMA StartsAfresh ==
  ASSUME CallType, NEW h \in Handlers, NEW method \in Methods, NEW hasOffer \in BOOLEAN,
         handler' = [handler EXCEPT ![h] =
           [Idle EXCEPT !.pc = "begin", !.method = method, !.hasOffer = hasOffer]]
  PROVE  Moves(h, "begin", method, NoDialog, NoDialog, 0)
BY GoroutineTypes DEF CallType, Moves, Goroutines, Idle, Methods

LEMMA StartsReading ==
  ASSUME CallType, NEW h \in Handlers, NEW pc \in Places, NEW method \in Methods,
         NEW copy \in Dialogs,
         handler' = [handler EXCEPT ![h] = [Idle EXCEPT !.method = method, !.copy = copy, !.pc = pc]]
  PROVE  Moves(h, pc, method, copy, NoDialog, 0)
BY GoroutineTypes DEF CallType, Moves, Goroutines, Idle, Places, Methods

LEMMA StartsInvite ==
  ASSUME CallType, NEW h \in Handlers,
         handler' = [handler EXCEPT ![h] = [Idle EXCEPT !.pc = "send", !.method = "INVITE"]]
  PROVE  Moves(h, "send", "INVITE", NoDialog, NoDialog, 0)
BY GoroutineTypes DEF CallType, Moves, Goroutines, Idle

LEMMA GoesTo ==
  ASSUME CallType, NEW h \in Handlers, NEW pc \in Places, Goto(h, pc)
  PROVE  Moves(h, pc, handler[h].method, handler[h].copy, handler[h].provisional,
               handler[h].offer)
BY DEF CallType, Moves, Goto, Goroutines, Places

LEMMA TriesAgain ==
  ASSUME CallType, NEW h \in Handlers, Retries(h)
  PROVE  Moves(h, "send", handler[h].method, handler[h].copy, handler[h].provisional,
               handler[h].offer)
<1>1. handler[h] \in Goroutines
  BY DEF CallType
<1> DEFINE n1 == [handler[h] EXCEPT !.retries = handler[h].retries + 1, !.pc = "send"]
<1>2. n1 \in Goroutines
  <2>1. handler[h].retries + 1 \in Nat
    BY <1>1 DEF Goroutines
  <2> QED BY <1>1, <2>1 DEF Goroutines
<1>3. handler' = [handler EXCEPT ![h] = n1]
  BY DEF CallType, Retries
<1>4. /\ n1.pc = "send" /\ n1.method = handler[h].method /\ n1.provisional = handler[h].provisional
      /\ n1.copy = handler[h].copy /\ n1.offer = handler[h].offer
  BY <1>1 DEF Goroutines
<1> HIDE DEF n1
<1>5. /\ handler' \in [Handlers -> Goroutines] /\ handler'[h] = n1
      /\ \A g \in Handlers : g # h => handler'[g] = handler[g]
  BY <1>2, <1>3 DEF CallType
<1> QED BY <1>4, <1>5 DEF Moves

LEMMA Releases ==
  ASSUME CallType, NEW h \in Handlers, Release(h)
  PROVE  Moves(h, "release", handler[h].method, NoDialog, NoDialog, handler[h].offer)
BY GoroutineTypes DEF CallType, Moves, Release, Goroutines, Idle

LEMMA Copies ==
  ASSUME CallType, NEW h \in Handlers, NEW d \in Dialogs, Copy(h, d, "send")
  PROVE  Moves(h, "send", handler[h].method, d, handler[h].provisional, handler[h].offer)
<1>1. handler[h] \in Goroutines
  BY DEF CallType
<1> DEFINE n1 == [handler[h] EXCEPT !.copy = d, !.pc = "send", !.hasOffer = FALSE]
<1>2. n1 \in Goroutines
  BY <1>1 DEF Goroutines
<1>3. handler' = [handler EXCEPT ![h] = n1]
  BY DEF CallType, Copy
<1>4. /\ n1.pc = "send" /\ n1.method = handler[h].method /\ n1.provisional = handler[h].provisional
      /\ n1.copy = d /\ n1.offer = handler[h].offer
  BY <1>1 DEF Goroutines
<1> HIDE DEF n1
<1>5. /\ handler' \in [Handlers -> Goroutines] /\ handler'[h] = n1
      /\ \A g \in Handlers : g # h => handler'[g] = handler[g]
  BY <1>2, <1>3 DEF CallType
<1> QED BY <1>4, <1>5 DEF Moves

Claim(h, d, n) ==
  handler' = [handler EXCEPT ![h].offer = n, ![h].copy = d, ![h].pc = "send",
                             ![h].hasOffer = FALSE]
LEMMA Claims ==
  ASSUME CallType, NEW h \in Handlers, NEW d \in Dialogs, NEW n \in Nat, Claim(h, d, n)
  PROVE  Moves(h, "send", handler[h].method, d, handler[h].provisional, n)
<1>1. handler[h] \in Goroutines
  BY DEF CallType
<1> DEFINE n1 == [handler[h] EXCEPT !.offer = n, !.copy = d, !.pc = "send", !.hasOffer = FALSE]
<1>2. n1 \in Goroutines
  BY <1>1 DEF Goroutines
<1>3. handler' = [handler EXCEPT ![h] = n1]
  BY DEF CallType, Claim
<1>4. /\ n1.pc = "send" /\ n1.method = handler[h].method /\ n1.provisional = handler[h].provisional
      /\ n1.copy = d /\ n1.offer = n
  BY <1>1 DEF Goroutines
<1> HIDE DEF n1
<1>5. /\ handler' \in [Handlers -> Goroutines] /\ handler'[h] = n1
      /\ \A g \in Handlers : g # h => handler'[g] = handler[g]
  BY <1>2, <1>3 DEF CallType
<1> QED BY <1>4, <1>5 DEF Moves

LEMMA Receives ==
  ASSUME CallType, NEW h \in Handlers, NEW d \in Dialogs, NEW pc \in {"provisional", "await"},
         handler' = [handler EXCEPT ![h].pc = pc, ![h].provisional = d]
  PROVE  Moves(h, pc, handler[h].method, handler[h].copy, d, handler[h].offer)
<1>1. handler[h] \in Goroutines
  BY DEF CallType
<1> DEFINE n1 == [handler[h] EXCEPT !.pc = pc, !.provisional = d]
<1>2. n1 \in Goroutines
  BY <1>1 DEF Goroutines
<1>3. handler' = [handler EXCEPT ![h] = n1]
  BY DEF CallType
<1>4. /\ n1.pc = pc /\ n1.method = handler[h].method /\ n1.copy = handler[h].copy
      /\ n1.provisional = d /\ n1.offer = handler[h].offer
  BY <1>1 DEF Goroutines
<1> HIDE DEF n1
<1>5. /\ handler' \in [Handlers -> Goroutines] /\ handler'[h] = n1
      /\ \A g \in Handlers : g # h => handler'[g] = handler[g]
  BY <1>2, <1>3 DEF CallType
<1> QED BY <1>4, <1>5 DEF Moves

-----------------------------------------------------------------------------
(* What a step must respect to keep each conjunct.                         *)

\* What the invariant says of one handler.
LEMMA Known ==
  ASSUME CallInv, NEW h \in Handlers
  PROVE  /\ handler[h] \in Goroutines /\ dialog \in Dialogs /\ Carries(handler[h])
         /\ serial \in Nat /\ relays \subseteq Handlers /\ merged \in BOOLEAN
         /\ Shows(handler[h], copied)
         /\ \A c : OneRelay(c) =>
              /\ Knows(handler[h], c) /\ (handler[h].method = "INVITE" => h = c)
              /\ dialog.live => dialog.relay = c
BY DEF CallInv, CallType, CarryInv, OfferInv, OneRelay

LEMMA TypeKept ==
  ASSUME CallInv, NEW h \in Handlers, NEW pc, NEW method, NEW copy, NEW provisional, NEW offer,
         Moves(h, pc, method, copy, provisional, offer),
         dialog' \in Dialogs, serial' \in Nat, relays' \subseteq Handlers, merged' \in BOOLEAN
  PROVE  CallType'
BY DEF Moves, CallType

LEMMA CarryKept ==
  ASSUME CallInv, NEW h \in Handlers, NEW pc, NEW method, NEW copy, NEW provisional, NEW offer,
         Moves(h, pc, method, copy, provisional, offer),
         pc = "idle" => handler'[h] = Idle,
         pc \in {"begin", "release"} => method \in OfferMethods,
         pc = "begin" => offer = 0,
         pc = "accept" => method = "INVITE",
         pc = "provisional" => provisional.live /\ method \in {"INVITE", "reINVITE"},
         pc \in {"send", "await", "provisional"} /\ method # "INVITE" => copy.live,
         offer # 0 => method \in OfferMethods
  PROVE  CarryInv'
<1>1. Carries(handler'[h])
  BY DEF Moves, Carries
<1>2. \A g \in Handlers : g # h => Carries(handler'[g])
  BY DEF Moves, CallInv, CarryInv
<1> QED BY <1>1, <1>2 DEF CarryInv

\* A handler learns of no relay but the one of the call.
LEMMA StaysOne ==
  ASSUME CallInv, NEW h \in Handlers, NEW pc, NEW method, NEW copy, NEW provisional, NEW offer,
         Moves(h, pc, method, copy, provisional, offer), NEW c, OneRelay(c),
         relays' \subseteq relays, dialog'.live => dialog'.relay = c,
         copy.live => copy.relay = c, provisional.live => provisional.relay = c,
         method = "INVITE" => h = c
  PROVE  OneRelay(c)'
<1>1. relays' \subseteq {c}
  BY DEF OneRelay
<1>2. Knows(handler'[h], c) /\ (handler'[h].method = "INVITE" => h = c)
  BY DEF Moves, Knows
<1>3. \A g \in Handlers : g # h =>
        Knows(handler'[g], c) /\ (handler'[g].method = "INVITE" => g = c)
  BY DEF Moves, OneRelay
<1>4. \A g \in Handlers : Knows(handler'[g], c) /\ (handler'[g].method = "INVITE" => g = c)
  BY <1>2, <1>3
<1> QED BY <1>1, <1>4 DEF OneRelay, Knows

LEMMA RelayKept ==
  ASSUME CallInv, NEW h \in Handlers, NEW pc, NEW method, NEW copy, NEW provisional, NEW offer,
         Moves(h, pc, method, copy, provisional, offer),
         relays' \subseteq relays, merged' = merged,
         \A c : OneRelay(c) =>
           /\ dialog'.live => dialog'.relay = c
           /\ copy.live => copy.relay = c
           /\ provisional.live => provisional.relay = c
           /\ method = "INVITE" => h = c,
         \A r \in relays' : \/ dialog'.live
                            \/ /\ dialog' = dialog \/ r # dialog.relay
                               /\ r = h /\ handler[h].method = "INVITE" => method = "INVITE"
  PROVE  RelayInv'
<1>1. CASE merged
  BY <1>1 DEF RelayInv, RelayOwned
<1>2. CASE ~ merged
  <2>1. PICK c : OneRelay(c)
    BY <1>2 DEF CallInv, RelayInv
  <2>2. OneRelay(c)'
    BY <2>1, StaysOne
  <2>3. RelayOwned'
    <3> SUFFICES ASSUME NEW r \in relays'
                 PROVE  (dialog'.live /\ dialog'.relay = r) \/ handler'[r].method = "INVITE"
      BY DEF RelayOwned
    <3>1. r \in relays /\ r = c /\ r \in Handlers
      BY <2>1 DEF OneRelay, CallInv, CallType
    <3>2. (dialog.live /\ dialog.relay = r) \/ handler[r].method = "INVITE"
      BY <1>2, <3>1 DEF CallInv, RelayInv, RelayOwned
    <3>3. CASE dialog'.live
      BY <2>1, <3>1, <3>3
    <3>4. CASE /\ dialog' = dialog \/ r # dialog.relay
               /\ r = h /\ handler[h].method = "INVITE" => method = "INVITE"
      BY <3>1, <3>2, <3>4 DEF Moves
    <3> QED BY <3>3, <3>4
  <2> QED BY <2>2, <2>3 DEF RelayInv
<1> QED BY <1>1, <1>2 DEF CallInv, CallType

LEMMA OfferKept ==
  ASSUME CallInv, NEW h \in Handlers, NEW pc, NEW method, NEW copy, NEW provisional, NEW offer,
         Moves(h, pc, method, copy, provisional, offer), copied \subseteq copied',
         copy.offer \in {0, offer} \cup copied', provisional.offer \in {0, offer} \cup copied',
         dialog'.live /\ dialog'.offer # 0 =>
           \/ dialog'.offer \in copied' \cup {offer}
           \/ dialog.live /\ dialog'.offer = dialog.offer /\ dialog.offer # handler[h].offer
  PROVE  OfferInv'
<1>1. Shows(handler'[h], copied')
  BY DEF Moves, Shows
<1>2. \A g \in Handlers : g # h => Shows(handler'[g], copied')
  <2> SUFFICES ASSUME NEW g \in Handlers, g # h  PROVE Shows(handler'[g], copied')
    OBVIOUS
  <2>1. handler'[g] = handler[g] /\ Shows(handler[g], copied)
    BY DEF Moves, CallInv, OfferInv
  <2> QED BY <2>1 DEF Shows
<1>3. OfferReleased'
  <2> SUFFICES ASSUME dialog'.live, dialog'.offer # 0
               PROVE  (\E g \in Handlers : handler'[g].offer = dialog'.offer)
                      \/ dialog'.offer \in copied'
    BY DEF OfferReleased
  <2>1. CASE dialog'.offer \in copied' \cup {offer}
    BY <2>1 DEF Moves
  <2>2. CASE dialog.live /\ dialog'.offer = dialog.offer /\ dialog.offer # handler[h].offer
    <3>1. CASE dialog.offer \in copied
      BY <2>2, <3>1
    <3>2. CASE dialog.offer \notin copied
      <4>1. PICK g \in Handlers : handler[g].offer = dialog.offer
        BY <2>2, <3>2 DEF CallInv, OfferInv, OfferReleased
      <4>2. g # h
        BY <2>2, <4>1
      <4> QED BY <2>2, <4>1, <4>2 DEF Moves
    <3> QED BY <3>1, <3>2
  <2> QED BY <2>1, <2>2
<1> QED BY <1>1, <1>2, <1>3 DEF OfferInv

\* A handler that returns, having left the dialog alone, stored or deleted it.
LEMMA Returned ==
  ASSUME CallInv, NEW h \in Handlers, Return(h), dialog' \in Dialogs,
         relays' \subseteq relays, UNCHANGED <<serial, merged, copied>>,
         \A c : OneRelay(c) /\ dialog'.live => dialog'.relay = c,
         \A r \in relays' :
           \/ dialog'.live
           \/ (dialog' = dialog \/ r # dialog.relay) /\ (r = h => handler[h].method # "INVITE"),
         dialog'.live /\ dialog'.offer # 0 =>
           \/ dialog'.offer \in copied
           \/ dialog.live /\ dialog'.offer = dialog.offer /\ dialog.offer # handler[h].offer
  PROVE  CallInv'
<1>1. Moves(h, "idle", "none", NoDialog, NoDialog, 0) /\ handler'[h] = Idle
  BY Returns DEF CallInv
<1>2. CallType'
  BY <1>1, Known, TypeKept
<1>3. CarryInv'
  BY <1>1, CarryKept
<1>4. RelayInv'
  <2>1. ~ NoDialog.live
    BY DialogTypes
  <2> QED BY <1>1, <2>1, RelayKept
<1>5. OfferInv'
  BY <1>1, DialogTypes, OfferKept
<1> QED BY <1>2, <1>3, <1>4, <1>5 DEF CallInv

-----------------------------------------------------------------------------
(* Every step of a handler keeps the invariant.                            *)

LEMMA SetupFails ==
  ASSUME CallInv, NEW h \in Handlers, InviteSetupFails(h)
  PROVE  CallInv'
<1>1. dialog' = dialog /\ dialog \in Dialogs
  BY Known DEF InviteSetupFails, CallInv
<1>2. \A c : OneRelay(c) /\ dialog'.live => dialog'.relay = c
  BY <1>1, Known, DialogTypes DEF InviteSetupFails, Knows, Carries
<1>3. \A r \in relays' :
        \/ dialog'.live
        \/ (dialog' = dialog \/ r # dialog.relay) /\ (r = h => handler[h].method # "INVITE")
  BY <1>1, Known, DialogTypes DEF InviteSetupFails, Carries, OfferMethods, ForwardedMethods
<1>4. dialog'.live /\ dialog'.offer # 0 =>
        \/ dialog'.offer \in copied
        \/ dialog.live /\ dialog'.offer = dialog.offer /\ dialog.offer # handler[h].offer
  BY <1>1, Known DEF InviteSetupFails, Shows, Carries, OfferMethods, ForwardedMethods
<1> QED BY <1>1, <1>2, <1>3, <1>4, Known, DialogTypes, Returned DEF InviteSetupFails

LEMMA Invites ==
  ASSUME CallInv, NEW h \in Handlers, SendInvite(h)
  PROVE  CallInv'
<1>1. Moves(h, "await", handler[h].method, handler[h].copy, handler[h].provisional, handler[h].offer)
  BY GoesTo DEF SendInvite, CallInv, Places
<1>2. dialog' \in Dialogs /\ dialog'.live /\ dialog'.relay = h /\ dialog'.offer = 0
  BY DialogTypes DEF SendInvite, CallInv, Places, storeInboundDialog
<1>3. CallType'
  BY <1>1, <1>2, Known, DialogTypes, TypeKept DEF SendInvite
<1>4. CarryInv'
  <2>1. /\ handler[h].method # "INVITE" => handler[h].copy.live
        /\ handler[h].offer # 0 => handler[h].method \in OfferMethods
    BY <1>2, Known DEF SendInvite, Carries, OfferMethods, ForwardedMethods
  <2> QED BY <1>1, <2>1, CarryKept
<1>5. RelayInv'
  <2>1. \A c : OneRelay(c) =>
        /\ dialog'.live => dialog'.relay = c
        /\ handler[h].copy.live => handler[h].copy.relay = c
        /\ handler[h].provisional.live => handler[h].provisional.relay = c
        /\ handler[h].method = "INVITE" => h = c
    BY <1>2, Known, DialogTypes DEF SendInvite, Knows, Carries, ForwardedMethods
  <2>2. /\ relays' \subseteq relays /\ merged' = merged
        /\ \A r \in relays' : \/ dialog'.live
             \/ /\ dialog' = dialog \/ r # dialog.relay
                /\ r = h /\ handler[h].method = "INVITE" => handler[h].method = "INVITE"
    BY <1>2, Known, GoroutineTypes DEF SendInvite, Carries, OfferMethods, ForwardedMethods
  <2> QED BY <1>1, <2>1, <2>2, DialogTypes, RelayKept
<1>6. OfferInv'
  <2>1. /\ copied \subseteq copied'
        /\ handler[h].copy.offer \in {0, handler[h].offer} \cup copied'
        /\ handler[h].provisional.offer \in {0, handler[h].offer} \cup copied'
    BY <1>2, Known, DialogTypes DEF SendInvite, Shows, Carries
  <2>2. dialog'.live /\ dialog'.offer # 0 =>
          \/ dialog'.offer \in copied' \cup {handler[h].offer}
          \/ dialog.live /\ dialog'.offer = dialog.offer /\ dialog.offer # handler[h].offer
    BY <1>2, Known, GoroutineTypes, DialogTypes DEF SendInvite, Shows, Carries, OfferMethods, ForwardedMethods
  <2> QED BY <1>1, <2>1, <2>2, DialogTypes, OfferKept
<1> QED BY <1>3, <1>4, <1>5, <1>6 DEF CallInv

LEMMA Accepts ==
  ASSUME CallInv, NEW h \in Handlers, InviteAccepted(h)
  PROVE  CallInv'
<1>1. dialog' \in Dialogs /\ dialog'.live /\ dialog'.relay = h /\ dialog'.offer = 0
  BY DialogTypes DEF InviteAccepted, CallInv, storeInboundDialog
<1>2. \A c : OneRelay(c) /\ dialog'.live => dialog'.relay = c
  BY <1>1, Known, DialogTypes DEF InviteAccepted, Knows, Carries
<1>3. \A r \in relays' :
        \/ dialog'.live
        \/ (dialog' = dialog \/ r # dialog.relay) /\ (r = h => handler[h].method # "INVITE")
  BY <1>1
<1>4. dialog'.live /\ dialog'.offer # 0 =>
        \/ dialog'.offer \in copied
        \/ dialog.live /\ dialog'.offer = dialog.offer /\ dialog.offer # handler[h].offer
  BY <1>1
<1> QED BY <1>1, <1>2, <1>3, <1>4, Known, DialogTypes, Returned DEF InviteAccepted

LEMMA Answers ==
  ASSUME CallInv, NEW h \in Handlers, InviteAnswered(h)
  PROVE  CallInv'
<1>1. CASE InviteFails(h)
  <2>1. dialog' = NoDialog /\ relays' = relays \ {dialog.relay, h}
    BY <1>1, Known DEF InviteFails, deleteInboundDialog, CallInv
  <2>2. \A c : OneRelay(c) /\ dialog'.live => dialog'.relay = c
    BY <1>1, <2>1, Known, DialogTypes DEF InviteAnswered, InviteFails, Knows, Carries
  <2>3. \A r \in relays' :
          \/ dialog'.live
          \/ (dialog' = dialog \/ r # dialog.relay) /\ (r = h => handler[h].method # "INVITE")
    BY <1>1, <2>1, Known, DialogTypes DEF InviteAnswered, InviteFails, Carries, OfferMethods, ForwardedMethods
  <2>4. dialog'.live /\ dialog'.offer # 0 =>
          \/ dialog'.offer \in copied
          \/ dialog.live /\ dialog'.offer = dialog.offer /\ dialog.offer # handler[h].offer
    BY <2>1, DialogTypes
  <2> QED BY <1>1, <2>1, <2>2, <2>3, <2>4, Known, DialogTypes, Returned DEF InviteAnswered, InviteFails
<1>2. CASE Retries(h) /\ UNCHANGED <<dialog, relays>>
  <2>1. Moves(h, "send", handler[h].method, handler[h].copy, handler[h].provisional, handler[h].offer)
    BY <1>2, TriesAgain DEF InviteAnswered, CallInv
  <2>2. dialog' = dialog /\ dialog \in Dialogs
    BY <1>2, Known DEF CallInv
  <2>3. CallType'
    BY <1>2, <2>1, <2>2, Known, DialogTypes, TypeKept DEF InviteAnswered
  <2>4. CarryInv'
    <3>1. /\ handler[h].method # "INVITE" => handler[h].copy.live
          /\ handler[h].offer # 0 => handler[h].method \in OfferMethods
      BY <1>2, <2>2, Known DEF InviteAnswered, Carries, OfferMethods, ForwardedMethods
    <3> QED BY <2>1, <3>1, CarryKept
  <2>5. RelayInv'
    <3>1. \A c : OneRelay(c) =>
          /\ dialog'.live => dialog'.relay = c
          /\ handler[h].copy.live => handler[h].copy.relay = c
          /\ handler[h].provisional.live => handler[h].provisional.relay = c
          /\ handler[h].method = "INVITE" => h = c
      BY <1>2, <2>2, Known, DialogTypes DEF InviteAnswered, Knows, Carries, ForwardedMethods
    <3>2. /\ relays' \subseteq relays /\ merged' = merged
          /\ \A r \in relays' : \/ dialog'.live
               \/ /\ dialog' = dialog \/ r # dialog.relay
                  /\ r = h /\ handler[h].method = "INVITE" => handler[h].method = "INVITE"
      BY <1>2, <2>2, Known, GoroutineTypes DEF InviteAnswered, Carries, OfferMethods, ForwardedMethods
    <3> QED BY <2>1, <3>1, <3>2, DialogTypes, RelayKept
  <2>6. OfferInv'
    <3>1. /\ copied \subseteq copied'
          /\ handler[h].copy.offer \in {0, handler[h].offer} \cup copied'
          /\ handler[h].provisional.offer \in {0, handler[h].offer} \cup copied'
      BY <1>2, <2>2, Known, DialogTypes DEF InviteAnswered, Shows, Carries
    <3>2. dialog'.live /\ dialog'.offer # 0 =>
            \/ dialog'.offer \in copied' \cup {handler[h].offer}
            \/ dialog.live /\ dialog'.offer = dialog.offer /\ dialog.offer # handler[h].offer
      BY <1>2, <2>2, Known, GoroutineTypes, DialogTypes DEF InviteAnswered, Shows, Carries, OfferMethods, ForwardedMethods
    <3> QED BY <2>1, <3>1, <3>2, DialogTypes, OfferKept
  <2> QED BY <2>3, <2>4, <2>5, <2>6 DEF CallInv
<1>3. CASE Goto(h, "accept") /\ UNCHANGED <<dialog, relays>>
  <2>1. Moves(h, "accept", handler[h].method, handler[h].copy, handler[h].provisional, handler[h].offer)
    BY <1>3, GoesTo DEF InviteAnswered, CallInv, Places
  <2>2. dialog' = dialog /\ dialog \in Dialogs
    BY <1>3, Known DEF CallInv, Places
  <2>3. CallType'
    BY <1>3, <2>1, <2>2, Known, DialogTypes, TypeKept DEF InviteAnswered
  <2>4. CarryInv'
    <3>1. /\ handler[h].method = "INVITE"
          /\ handler[h].offer # 0 => handler[h].method \in OfferMethods
      BY <1>3, <2>2, Known DEF InviteAnswered, Carries, OfferMethods, ForwardedMethods
    <3> QED BY <2>1, <3>1, CarryKept
  <2>5. RelayInv'
    <3>1. \A c : OneRelay(c) =>
          /\ dialog'.live => dialog'.relay = c
          /\ handler[h].copy.live => handler[h].copy.relay = c
          /\ handler[h].provisional.live => handler[h].provisional.relay = c
          /\ handler[h].method = "INVITE" => h = c
      BY <1>3, <2>2, Known, DialogTypes DEF InviteAnswered, Knows, Carries, ForwardedMethods
    <3>2. /\ relays' \subseteq relays /\ merged' = merged
          /\ \A r \in relays' : \/ dialog'.live
               \/ /\ dialog' = dialog \/ r # dialog.relay
                  /\ r = h /\ handler[h].method = "INVITE" => handler[h].method = "INVITE"
      BY <1>3, <2>2, Known, GoroutineTypes DEF InviteAnswered, Carries, OfferMethods, ForwardedMethods
    <3> QED BY <2>1, <3>1, <3>2, DialogTypes, RelayKept
  <2>6. OfferInv'
    <3>1. /\ copied \subseteq copied'
          /\ handler[h].copy.offer \in {0, handler[h].offer} \cup copied'
          /\ handler[h].provisional.offer \in {0, handler[h].offer} \cup copied'
      BY <1>3, <2>2, Known, DialogTypes DEF InviteAnswered, Shows, Carries
    <3>2. dialog'.live /\ dialog'.offer # 0 =>
            \/ dialog'.offer \in copied' \cup {handler[h].offer}
            \/ dialog.live /\ dialog'.offer = dialog.offer /\ dialog.offer # handler[h].offer
      BY <1>3, <2>2, Known, GoroutineTypes, DialogTypes DEF InviteAnswered, Shows, Carries, OfferMethods, ForwardedMethods
    <3> QED BY <2>1, <3>1, <3>2, DialogTypes, OfferKept
  <2> QED BY <2>3, <2>4, <2>5, <2>6 DEF CallInv
<1> QED BY <1>1, <1>2, <1>3 DEF InviteAnswered

LEMMA Hears ==
  ASSUME CallInv, NEW h \in Handlers, Provisional(h)
  PROVE  CallInv'
<1>1. Moves(h, "provisional", handler[h].method, handler[h].copy, dialog, handler[h].offer)
  BY Receives, Known DEF Provisional, CallInv
<1>2. dialog' = dialog /\ dialog \in Dialogs
  BY Known DEF Provisional, CallInv
<1>3. CallType'
  BY <1>1, <1>2, Known, DialogTypes, TypeKept DEF Provisional
<1>4. CarryInv'
  <2>1. /\ dialog.live /\ handler[h].method \in {"INVITE", "reINVITE"}
        /\ handler[h].method # "INVITE" => handler[h].copy.live
        /\ handler[h].offer # 0 => handler[h].method \in OfferMethods
    BY <1>2, Known DEF Provisional, Carries, OfferMethods, ForwardedMethods
  <2> QED BY <1>1, <2>1, CarryKept
<1>5. RelayInv'
  <2>1. \A c : OneRelay(c) =>
        /\ dialog'.live => dialog'.relay = c
        /\ handler[h].copy.live => handler[h].copy.relay = c
        /\ dialog.live => dialog.relay = c
        /\ handler[h].method = "INVITE" => h = c
    BY <1>2, Known, DialogTypes DEF Provisional, Knows, Carries, ForwardedMethods
  <2>2. /\ relays' \subseteq relays /\ merged' = merged
        /\ \A r \in relays' : \/ dialog'.live
             \/ /\ dialog' = dialog \/ r # dialog.relay
                /\ r = h /\ handler[h].method = "INVITE" => handler[h].method = "INVITE"
    BY <1>2, Known, GoroutineTypes DEF Provisional, Carries, OfferMethods, ForwardedMethods
  <2> QED BY <1>1, <2>1, <2>2, DialogTypes, RelayKept
<1>6. OfferInv'
  <2>1. /\ copied \subseteq copied'
        /\ handler[h].copy.offer \in {0, handler[h].offer} \cup copied'
        /\ dialog.offer \in {0, handler[h].offer} \cup copied'
    BY <1>2, Known, DialogTypes DEF Provisional, Shows, Carries
  <2>2. dialog'.live /\ dialog'.offer # 0 =>
          \/ dialog'.offer \in copied' \cup {handler[h].offer}
          \/ dialog.live /\ dialog'.offer = dialog.offer /\ dialog.offer # handler[h].offer
    BY <1>2, Known, GoroutineTypes, DialogTypes DEF Provisional, Shows, Carries, OfferMethods, ForwardedMethods
  <2> QED BY <1>1, <2>1, <2>2, DialogTypes, OfferKept
<1> QED BY <1>3, <1>4, <1>5, <1>6 DEF CallInv

LEMMA Applies ==
  ASSUME CallInv, NEW h \in Handlers, applyInboundProvisionalDialogState(h)
  PROVE  CallInv'
<1>1. Moves(h, "await", handler[h].method, handler[h].copy, NoDialog, handler[h].offer)
  BY Receives, DialogTypes DEF applyInboundProvisionalDialogState, CallInv, storeInboundDialog, Carries
<1>2. dialog' = handler[h].provisional /\ dialog' \in Dialogs /\ dialog'.live
  BY Known, GoroutineTypes DEF applyInboundProvisionalDialogState, CallInv, storeInboundDialog, Carries
<1>3. CallType'
  BY <1>1, <1>2, Known, DialogTypes, TypeKept DEF applyInboundProvisionalDialogState
<1>4. CarryInv'
  <2>1. /\ handler[h].method # "INVITE" => handler[h].copy.live
        /\ handler[h].offer # 0 => handler[h].method \in OfferMethods
    BY <1>2, Known DEF applyInboundProvisionalDialogState, Carries, OfferMethods, ForwardedMethods
  <2> QED BY <1>1, <2>1, CarryKept
<1>5. RelayInv'
  <2>1. \A c : OneRelay(c) =>
        /\ dialog'.live => dialog'.relay = c
        /\ handler[h].copy.live => handler[h].copy.relay = c
        /\ handler[h].method = "INVITE" => h = c
    BY <1>2, Known, DialogTypes DEF applyInboundProvisionalDialogState, Knows, Carries, ForwardedMethods
  <2>2. /\ relays' \subseteq relays /\ merged' = merged
        /\ \A r \in relays' : \/ dialog'.live
             \/ /\ dialog' = dialog \/ r # dialog.relay
                /\ r = h /\ handler[h].method = "INVITE" => handler[h].method = "INVITE"
    BY <1>2, Known, GoroutineTypes DEF applyInboundProvisionalDialogState, Carries, OfferMethods, ForwardedMethods
  <2> QED BY <1>1, <2>1, <2>2, DialogTypes, RelayKept
<1>6. OfferInv'
  <2>1. /\ copied \subseteq copied'
        /\ handler[h].copy.offer \in {0, handler[h].offer} \cup copied'
    BY <1>2, Known, DialogTypes DEF applyInboundProvisionalDialogState, Shows, Carries
  <2>2. dialog'.live /\ dialog'.offer # 0 =>
          \/ dialog'.offer \in copied' \cup {handler[h].offer}
          \/ dialog.live /\ dialog'.offer = dialog.offer /\ dialog.offer # handler[h].offer
    BY <1>2, Known, GoroutineTypes, DialogTypes DEF applyInboundProvisionalDialogState, Shows, Carries, OfferMethods, ForwardedMethods
  <2> QED BY <1>1, <2>1, <2>2, DialogTypes, OfferKept
<1> QED BY <1>3, <1>4, <1>5, <1>6 DEF CallInv

LEMMA Updates ==
  ASSUME CallInv, NEW h \in Handlers, NEW hasOffer \in BOOLEAN, HandleInboundUpdate(h, hasOffer)
  PROVE  CallInv'
<1>1. Moves(h, "begin", "UPDATE", NoDialog, NoDialog, 0)
  BY StartsAfresh DEF HandleInboundUpdate, CallInv, Places, Methods, OfferMethods
<1>2. dialog' = dialog /\ dialog \in Dialogs
  BY Known DEF HandleInboundUpdate, CallInv, Places, Methods, OfferMethods
<1>3. CallType'
  BY <1>1, <1>2, Known, DialogTypes, TypeKept DEF HandleInboundUpdate
<1>4. CarryInv'
  <2>1. "UPDATE" \in OfferMethods
    BY <1>2, Known DEF HandleInboundUpdate, Carries, OfferMethods, ForwardedMethods
  <2> QED BY <1>1, <2>1, CarryKept
<1>5. RelayInv'
  <2>1. \A c : OneRelay(c) => (dialog'.live => dialog'.relay = c)
    BY <1>2, Known, DialogTypes DEF HandleInboundUpdate, Knows, Carries, ForwardedMethods
  <2>2. /\ relays' \subseteq relays /\ merged' = merged
        /\ \A r \in relays' : \/ dialog'.live
             \/ /\ dialog' = dialog \/ r # dialog.relay
                /\ r = h /\ handler[h].method = "INVITE" => "UPDATE" = "INVITE"
    BY <1>2, Known, GoroutineTypes DEF HandleInboundUpdate, Carries, OfferMethods, ForwardedMethods
  <2> QED BY <1>1, <2>1, <2>2, DialogTypes, RelayKept
<1>6. OfferInv'
  <2>1. copied \subseteq copied'
    BY <1>2, Known, DialogTypes DEF HandleInboundUpdate, Shows, Carries
  <2>2. dialog'.live /\ dialog'.offer # 0 =>
          \/ dialog'.offer \in copied' \cup {0}
          \/ dialog.live /\ dialog'.offer = dialog.offer /\ dialog.offer # handler[h].offer
    BY <1>2, Known, GoroutineTypes, DialogTypes DEF HandleInboundUpdate, Shows, Carries, OfferMethods, ForwardedMethods
  <2> QED BY <1>1, <2>1, <2>2, DialogTypes, OfferKept
<1> QED BY <1>3, <1>4, <1>5, <1>6 DEF CallInv

LEMMA Begins ==
  ASSUME CallInv, NEW h \in Handlers, beginInboundDialogOffer(h)
  PROVE  CallInv'
<1>1. CASE Return(h) /\ UNCHANGED <<dialog, serial, copied>>
  <2>1. dialog' = dialog /\ dialog \in Dialogs
    BY <1>1, Known DEF CallInv
  <2>2. \A c : OneRelay(c) /\ dialog'.live => dialog'.relay = c
    BY <1>1, <2>1, Known, DialogTypes DEF beginInboundDialogOffer, Knows, Carries
  <2>3. \A r \in relays' :
          \/ dialog'.live
          \/ (dialog' = dialog \/ r # dialog.relay) /\ (r = h => handler[h].method # "INVITE")
    BY <1>1, <2>1, Known, DialogTypes DEF beginInboundDialogOffer, Carries, OfferMethods, ForwardedMethods
  <2>4. dialog'.live /\ dialog'.offer # 0 =>
          \/ dialog'.offer \in copied
          \/ dialog.live /\ dialog'.offer = dialog.offer /\ dialog.offer # handler[h].offer
    BY <1>1, <2>1, Known DEF beginInboundDialogOffer, Shows, Carries, OfferMethods, ForwardedMethods
  <2> QED BY <1>1, <2>1, <2>2, <2>3, <2>4, Known, DialogTypes, Returned DEF beginInboundDialogOffer
<1>2. CASE dialog.live /\ Copy(h, dialog, "send") /\ UNCHANGED <<dialog, serial>>
  <2>1. Moves(h, "send", handler[h].method, dialog, handler[h].provisional, handler[h].offer)
    BY <1>2, Copies, Known DEF CallInv
  <2>2. dialog' = dialog /\ dialog \in Dialogs
    BY <1>2, Known DEF CallInv
  <2>3. CallType'
    BY <1>2, <2>1, <2>2, Known, DialogTypes, TypeKept DEF beginInboundDialogOffer, Copy
  <2>4. CarryInv'
    <3>1. /\ handler[h].method # "INVITE" => dialog.live
          /\ handler[h].offer # 0 => handler[h].method \in OfferMethods
      BY <1>2, <2>2, Known DEF beginInboundDialogOffer, Copy, Carries, OfferMethods, ForwardedMethods
    <3> QED BY <2>1, <3>1, CarryKept
  <2>5. RelayInv'
    <3>1. \A c : OneRelay(c) =>
          /\ dialog'.live => dialog'.relay = c
          /\ dialog.live => dialog.relay = c
          /\ handler[h].provisional.live => handler[h].provisional.relay = c
          /\ handler[h].method = "INVITE" => h = c
      BY <1>2, <2>2, Known, DialogTypes DEF beginInboundDialogOffer, Copy, Knows, Carries, ForwardedMethods
    <3>2. /\ relays' \subseteq relays /\ merged' = merged
          /\ \A r \in relays' : \/ dialog'.live
               \/ /\ dialog' = dialog \/ r # dialog.relay
                  /\ r = h /\ handler[h].method = "INVITE" => handler[h].method = "INVITE"
      BY <1>2, <2>2, Known, GoroutineTypes DEF beginInboundDialogOffer, Copy, Carries, OfferMethods, ForwardedMethods
    <3> QED BY <2>1, <3>1, <3>2, DialogTypes, RelayKept
  <2>6. OfferInv'
    <3>1. /\ copied \subseteq copied'
          /\ dialog.offer \in {0, handler[h].offer} \cup copied'
          /\ handler[h].provisional.offer \in {0, handler[h].offer} \cup copied'
      BY <1>2, <2>2, Known, DialogTypes DEF beginInboundDialogOffer, Copy, Shows, Carries
    <3>2. dialog'.live /\ dialog'.offer # 0 =>
            \/ dialog'.offer \in copied' \cup {handler[h].offer}
            \/ dialog.live /\ dialog'.offer = dialog.offer /\ dialog.offer # handler[h].offer
      BY <1>2, <2>2, Known, GoroutineTypes, DialogTypes DEF beginInboundDialogOffer, Copy, Shows, Carries, OfferMethods, ForwardedMethods
    <3> QED BY <2>1, <3>1, <3>2, DialogTypes, OfferKept
  <2> QED BY <2>3, <2>4, <2>5, <2>6 DEF CallInv
<1>3. CASE /\ dialog.live /\ dialog.offer = 0
           /\ serial' = serial + 1 /\ dialog' = [dialog EXCEPT !.offer = serial + 1]
           /\ handler' = [handler EXCEPT ![h].offer = serial + 1,
                              ![h].copy = dialog', ![h].pc = "send", ![h].hasOffer = FALSE]
           /\ handler[h].pc = "begin" /\ UNCHANGED <<copied, relays, merged>>
  <2>0. /\ serial + 1 \in Nat /\ dialog \in Dialogs
        /\ serial' = serial + 1 /\ relays' = relays /\ merged' = merged
    BY <1>3 DEF CallInv, CallType
  <2>1. Moves(h, "send", handler[h].method, dialog', handler[h].provisional, serial + 1)
    BY <1>3, <2>0, Claims, DialogTypes DEF CallInv, Claim
  <2>2. dialog' \in Dialogs /\ dialog'.live /\ dialog'.relay = dialog.relay /\ dialog'.offer = serial + 1
    BY <1>3, <2>0, DialogTypes DEF CallInv, Claim
  <2>3. CallType'
    BY <2>0, <2>1, <2>2, Known, TypeKept
  <2>4. CarryInv'
    <3>1. /\ handler[h].method # "INVITE" => dialog'.live
          /\ serial + 1 # 0 => handler[h].method \in OfferMethods
      BY <1>3, <2>2, Known DEF Carries, OfferMethods, ForwardedMethods
    <3> QED BY <2>1, <3>1, CarryKept
  <2>5. RelayInv'
    <3>1. \A c : OneRelay(c) =>
          /\ dialog'.live => dialog'.relay = c
          /\ handler[h].provisional.live => handler[h].provisional.relay = c
          /\ handler[h].method = "INVITE" => h = c
      BY <1>3, <2>2, Known, DialogTypes DEF Knows, Carries, ForwardedMethods
    <3>2. /\ relays' \subseteq relays /\ merged' = merged
          /\ \A r \in relays' : \/ dialog'.live
               \/ /\ dialog' = dialog \/ r # dialog.relay
                  /\ r = h /\ handler[h].method = "INVITE" => handler[h].method = "INVITE"
      BY <1>3, <2>2, Known, GoroutineTypes DEF Carries, OfferMethods, ForwardedMethods
    <3> QED BY <2>1, <3>1, <3>2, DialogTypes, RelayKept
  <2>6. OfferInv'
    <3>1. /\ copied \subseteq copied'
          /\ dialog'.offer \in {0, serial + 1} \cup copied'
          /\ handler[h].provisional.offer \in {0, serial + 1} \cup copied'
      BY <1>3, <2>2, Known, DialogTypes DEF Shows, Carries
    <3>2. dialog'.live /\ dialog'.offer # 0 =>
            \/ dialog'.offer \in copied' \cup {serial + 1}
            \/ dialog.live /\ dialog'.offer = dialog.offer /\ dialog.offer # handler[h].offer
      BY <1>3, <2>2, Known, GoroutineTypes, DialogTypes DEF Shows, Carries, OfferMethods, ForwardedMethods
    <3> QED BY <2>1, <3>1, <3>2, DialogTypes, OfferKept
  <2> QED BY <2>3, <2>4, <2>5, <2>6 DEF CallInv
<1> QED BY <1>1, <1>2, <1>3 DEF beginInboundDialogOffer

LEMMA SendsOffer ==
  ASSUME CallInv, NEW h \in Handlers, SendOffer(h)
  PROVE  CallInv'
<1>1. CASE storeInboundDialog(handler[h].copy) /\ Goto(h, "await")
  <2>1. Moves(h, "await", handler[h].method, handler[h].copy, handler[h].provisional, handler[h].offer)
    BY <1>1, GoesTo DEF SendOffer, CallInv, Places
  <2>2. dialog' = handler[h].copy /\ dialog' \in Dialogs /\ dialog'.live
    BY <1>1, Known, GoroutineTypes DEF SendOffer, CallInv, Carries, storeInboundDialog, OfferMethods, ForwardedMethods, Places
  <2>3. CallType'
    BY <1>1, <2>1, <2>2, Known, DialogTypes, TypeKept DEF SendOffer
  <2>4. CarryInv'
    <3>1. /\ handler[h].method # "INVITE" => handler[h].copy.live
          /\ handler[h].offer # 0 => handler[h].method \in OfferMethods
      BY <1>1, <2>2, Known DEF SendOffer, Carries, OfferMethods, ForwardedMethods
    <3> QED BY <2>1, <3>1, CarryKept
  <2>5. RelayInv'
    <3>1. \A c : OneRelay(c) =>
          /\ dialog'.live => dialog'.relay = c
          /\ handler[h].copy.live => handler[h].copy.relay = c
          /\ handler[h].provisional.live => handler[h].provisional.relay = c
          /\ handler[h].method = "INVITE" => h = c
      BY <1>1, <2>2, Known, DialogTypes DEF SendOffer, Knows, Carries, ForwardedMethods
    <3>2. /\ relays' \subseteq relays /\ merged' = merged
          /\ \A r \in relays' : \/ dialog'.live
               \/ /\ dialog' = dialog \/ r # dialog.relay
                  /\ r = h /\ handler[h].method = "INVITE" => handler[h].method = "INVITE"
      BY <1>1, <2>2, Known, GoroutineTypes DEF SendOffer, Carries, OfferMethods, ForwardedMethods
    <3> QED BY <2>1, <3>1, <3>2, DialogTypes, RelayKept
  <2>6. OfferInv'
    <3>1. /\ copied \subseteq copied'
          /\ handler[h].copy.offer \in {0, handler[h].offer} \cup copied'
          /\ handler[h].provisional.offer \in {0, handler[h].offer} \cup copied'
      BY <1>1, <2>2, Known, DialogTypes DEF SendOffer, Shows, Carries
    <3>2. dialog'.live /\ dialog'.offer # 0 =>
            \/ dialog'.offer \in copied' \cup {handler[h].offer}
            \/ dialog.live /\ dialog'.offer = dialog.offer /\ dialog.offer # handler[h].offer
      BY <1>1, <2>2, Known, GoroutineTypes, DialogTypes DEF SendOffer, Shows, Carries, OfferMethods, ForwardedMethods
    <3> QED BY <2>1, <3>1, <3>2, DialogTypes, OfferKept
  <2> QED BY <2>3, <2>4, <2>5, <2>6 DEF CallInv
<1>2. CASE Release(h) /\ UNCHANGED dialog
  <2>1. Moves(h, "release", handler[h].method, NoDialog, NoDialog, handler[h].offer)
    BY <1>2, Releases DEF SendOffer, CallInv
  <2>2. dialog' = dialog /\ dialog \in Dialogs
    BY <1>2, Known DEF CallInv
  <2>3. CallType'
    BY <1>2, <2>1, <2>2, Known, DialogTypes, TypeKept DEF SendOffer
  <2>4. CarryInv'
    <3>1. handler[h].method \in OfferMethods
      BY <1>2, <2>2, Known DEF SendOffer, Carries, OfferMethods, ForwardedMethods
    <3> QED BY <2>1, <3>1, CarryKept
  <2>5. RelayInv'
    <3>1. \A c : OneRelay(c) =>
          /\ dialog'.live => dialog'.relay = c
          /\ handler[h].method = "INVITE" => h = c
      BY <1>2, <2>2, Known, DialogTypes DEF SendOffer, Knows, Carries, ForwardedMethods
    <3>2. /\ relays' \subseteq relays /\ merged' = merged
          /\ \A r \in relays' : \/ dialog'.live
               \/ /\ dialog' = dialog \/ r # dialog.relay
                  /\ r = h /\ handler[h].method = "INVITE" => handler[h].method = "INVITE"
      BY <1>2, <2>2, Known, GoroutineTypes DEF SendOffer, Carries, OfferMethods, ForwardedMethods
    <3> QED BY <2>1, <3>1, <3>2, DialogTypes, RelayKept
  <2>6. OfferInv'
    <3>1. copied \subseteq copied'
      BY <1>2, <2>2, Known, DialogTypes DEF SendOffer, Shows, Carries
    <3>2. dialog'.live /\ dialog'.offer # 0 =>
            \/ dialog'.offer \in copied' \cup {handler[h].offer}
            \/ dialog.live /\ dialog'.offer = dialog.offer /\ dialog.offer # handler[h].offer
      BY <1>2, <2>2, Known, GoroutineTypes, DialogTypes DEF SendOffer, Shows, Carries, OfferMethods, ForwardedMethods
    <3> QED BY <2>1, <3>1, <3>2, DialogTypes, OfferKept
  <2> QED BY <2>3, <2>4, <2>5, <2>6 DEF CallInv
<1> QED BY <1>1, <1>2 DEF SendOffer

LEMMA AnswersOffer ==
  ASSUME CallInv, NEW h \in Handlers, OfferAnswered(h)
  PROVE  CallInv'
<1>1. CASE Release(h) /\ UNCHANGED dialog
  <2>1. Moves(h, "release", handler[h].method, NoDialog, NoDialog, handler[h].offer)
    BY <1>1, Releases DEF OfferAnswered, CallInv
  <2>2. dialog' = dialog /\ dialog \in Dialogs
    BY <1>1, Known DEF CallInv
  <2>3. CallType'
    BY <1>1, <2>1, <2>2, Known, DialogTypes, TypeKept DEF OfferAnswered
  <2>4. CarryInv'
    <3>1. handler[h].method \in OfferMethods
      BY <1>1, <2>2, Known DEF OfferAnswered, Carries, OfferMethods, ForwardedMethods
    <3> QED BY <2>1, <3>1, CarryKept
  <2>5. RelayInv'
    <3>1. \A c : OneRelay(c) =>
          /\ dialog'.live => dialog'.relay = c
          /\ handler[h].method = "INVITE" => h = c
      BY <1>1, <2>2, Known, DialogTypes DEF OfferAnswered, Knows, Carries, ForwardedMethods
    <3>2. /\ relays' \subseteq relays /\ merged' = merged
          /\ \A r \in relays' : \/ dialog'.live
               \/ /\ dialog' = dialog \/ r # dialog.relay
                  /\ r = h /\ handler[h].method = "INVITE" => handler[h].method = "INVITE"
      BY <1>1, <2>2, Known, GoroutineTypes DEF OfferAnswered, Carries, OfferMethods, ForwardedMethods
    <3> QED BY <2>1, <3>1, <3>2, DialogTypes, RelayKept
  <2>6. OfferInv'
    <3>1. copied \subseteq copied'
      BY <1>1, <2>2, Known, DialogTypes DEF OfferAnswered, Shows, Carries
    <3>2. dialog'.live /\ dialog'.offer # 0 =>
            \/ dialog'.offer \in copied' \cup {handler[h].offer}
            \/ dialog.live /\ dialog'.offer = dialog.offer /\ dialog.offer # handler[h].offer
      BY <1>1, <2>2, Known, GoroutineTypes, DialogTypes DEF OfferAnswered, Shows, Carries, OfferMethods, ForwardedMethods
    <3> QED BY <2>1, <3>1, <3>2, DialogTypes, OfferKept
  <2> QED BY <2>3, <2>4, <2>5, <2>6 DEF CallInv
<1>2. CASE Retries(h) /\ UNCHANGED dialog
  <2>1. Moves(h, "send", handler[h].method, handler[h].copy, handler[h].provisional, handler[h].offer)
    BY <1>2, TriesAgain DEF OfferAnswered, CallInv
  <2>2. dialog' = dialog /\ dialog \in Dialogs
    BY <1>2, Known DEF CallInv
  <2>3. CallType'
    BY <1>2, <2>1, <2>2, Known, DialogTypes, TypeKept DEF OfferAnswered
  <2>4. CarryInv'
    <3>1. /\ handler[h].method # "INVITE" => handler[h].copy.live
          /\ handler[h].offer # 0 => handler[h].method \in OfferMethods
      BY <1>2, <2>2, Known DEF OfferAnswered, Carries, OfferMethods, ForwardedMethods
    <3> QED BY <2>1, <3>1, CarryKept
  <2>5. RelayInv'
    <3>1. \A c : OneRelay(c) =>
          /\ dialog'.live => dialog'.relay = c
          /\ handler[h].copy.live => handler[h].copy.relay = c
          /\ handler[h].provisional.live => handler[h].provisional.relay = c
          /\ handler[h].method = "INVITE" => h = c
      BY <1>2, <2>2, Known, DialogTypes DEF OfferAnswered, Knows, Carries, ForwardedMethods
    <3>2. /\ relays' \subseteq relays /\ merged' = merged
          /\ \A r \in relays' : \/ dialog'.live
               \/ /\ dialog' = dialog \/ r # dialog.relay
                  /\ r = h /\ handler[h].method = "INVITE" => handler[h].method = "INVITE"
      BY <1>2, <2>2, Known, GoroutineTypes DEF OfferAnswered, Carries, OfferMethods, ForwardedMethods
    <3> QED BY <2>1, <3>1, <3>2, DialogTypes, RelayKept
  <2>6. OfferInv'
    <3>1. /\ copied \subseteq copied'
          /\ handler[h].copy.offer \in {0, handler[h].offer} \cup copied'
          /\ handler[h].provisional.offer \in {0, handler[h].offer} \cup copied'
      BY <1>2, <2>2, Known, DialogTypes DEF OfferAnswered, Shows, Carries
    <3>2. dialog'.live /\ dialog'.offer # 0 =>
            \/ dialog'.offer \in copied' \cup {handler[h].offer}
            \/ dialog.live /\ dialog'.offer = dialog.offer /\ dialog.offer # handler[h].offer
      BY <1>2, <2>2, Known, GoroutineTypes, DialogTypes DEF OfferAnswered, Shows, Carries, OfferMethods, ForwardedMethods
    <3> QED BY <2>1, <3>1, <3>2, DialogTypes, OfferKept
  <2> QED BY <2>3, <2>4, <2>5, <2>6 DEF CallInv
<1>3. CASE storeInboundDialog(handler[h].copy) /\ Release(h)
  <2>1. Moves(h, "release", handler[h].method, NoDialog, NoDialog, handler[h].offer)
    BY <1>3, Releases DEF OfferAnswered, CallInv
  <2>2. dialog' = handler[h].copy /\ dialog' \in Dialogs /\ dialog'.live
    BY <1>3, Known, GoroutineTypes DEF OfferAnswered, CallInv, Carries, storeInboundDialog, OfferMethods, ForwardedMethods, Places
  <2>3. CallType'
    BY <1>3, <2>1, <2>2, Known, DialogTypes, TypeKept DEF OfferAnswered
  <2>4. CarryInv'
    <3>1. handler[h].method \in OfferMethods
      BY <1>3, <2>2, Known DEF OfferAnswered, Carries, OfferMethods, ForwardedMethods
    <3> QED BY <2>1, <3>1, CarryKept
  <2>5. RelayInv'
    <3>1. \A c : OneRelay(c) =>
          /\ dialog'.live => dialog'.relay = c
          /\ handler[h].method = "INVITE" => h = c
      BY <1>3, <2>2, Known, DialogTypes DEF OfferAnswered, Knows, Carries, ForwardedMethods
    <3>2. /\ relays' \subseteq relays /\ merged' = merged
          /\ \A r \in relays' : \/ dialog'.live
               \/ /\ dialog' = dialog \/ r # dialog.relay
                  /\ r = h /\ handler[h].method = "INVITE" => handler[h].method = "INVITE"
      BY <1>3, <2>2, Known, GoroutineTypes DEF OfferAnswered, Carries, OfferMethods, ForwardedMethods
    <3> QED BY <2>1, <3>1, <3>2, DialogTypes, RelayKept
  <2>6. OfferInv'
    <3>1. copied \subseteq copied'
      BY <1>3, <2>2, Known, DialogTypes DEF OfferAnswered, Shows, Carries
    <3>2. dialog'.live /\ dialog'.offer # 0 =>
            \/ dialog'.offer \in copied' \cup {handler[h].offer}
            \/ dialog.live /\ dialog'.offer = dialog.offer /\ dialog.offer # handler[h].offer
      BY <1>3, <2>2, Known, GoroutineTypes, DialogTypes DEF OfferAnswered, Shows, Carries, OfferMethods, ForwardedMethods
    <3> QED BY <2>1, <3>1, <3>2, DialogTypes, OfferKept
  <2> QED BY <2>3, <2>4, <2>5, <2>6 DEF CallInv
<1> QED BY <1>1, <1>2, <1>3 DEF OfferAnswered

LEMMA ReleasesOffer ==
  ASSUME CallInv, NEW h \in Handlers, releaseInboundPendingOffer(h)
  PROVE  CallInv'
<1>1. /\ dialog' \in Dialogs /\ dialog'.live = dialog.live /\ dialog'.relay = dialog.relay
      /\ dialog' = dialog \/ dialog'.live
      /\ dialog'.offer \in {0, dialog.offer} /\ (dialog'.live /\ dialog'.offer # 0 => dialog.offer # handler[h].offer)
  BY Known, DialogTypes, GoroutineTypes DEF releaseInboundPendingOffer, CallInv
<1>2. \A c : OneRelay(c) /\ dialog'.live => dialog'.relay = c
  BY <1>1, Known, DialogTypes DEF releaseInboundPendingOffer, Knows, Carries
<1>3. \A r \in relays' :
        \/ dialog'.live
        \/ (dialog' = dialog \/ r # dialog.relay) /\ (r = h => handler[h].method # "INVITE")
  BY <1>1, Known, DialogTypes DEF releaseInboundPendingOffer, Carries, OfferMethods, ForwardedMethods
<1>4. dialog'.live /\ dialog'.offer # 0 =>
        \/ dialog'.offer \in copied
        \/ dialog.live /\ dialog'.offer = dialog.offer /\ dialog.offer # handler[h].offer
  BY <1>1, Known DEF releaseInboundPendingOffer, Shows, Carries, OfferMethods, ForwardedMethods
<1> QED BY <1>1, <1>2, <1>3, <1>4, Known, DialogTypes, Returned DEF releaseInboundPendingOffer

LEMMA Reads ==
  ASSUME CallInv, NEW h \in Handlers, NEW method \in ForwardedMethods \cup {"CANCEL", "BYE"}, ReadDialog(h, method)
  PROVE  CallInv'
<1> DEFINE pc == IF method = "CANCEL" THEN "await" ELSE "send"
<1>1. Moves(h, pc, method, dialog, NoDialog, 0)
  BY StartsReading, Known DEF ReadDialog, CallInv, Places, Methods, ForwardedMethods
<1>2. dialog' = dialog /\ dialog \in Dialogs
  BY Known DEF ReadDialog, CallInv, Places, Methods, ForwardedMethods
<1>3. CallType'
  BY <1>1, <1>2, Known, DialogTypes, TypeKept DEF ReadDialog
<1>4. CarryInv'
  BY <1>1, <1>2, Known, CarryKept DEF ReadDialog, Carries, OfferMethods, ForwardedMethods
<1>5. RelayInv'
  <2>1. \A c : OneRelay(c) =>
        /\ dialog'.live => dialog'.relay = c
        /\ dialog.live => dialog.relay = c
        /\ method = "INVITE" => h = c
    BY <1>2, Known, DialogTypes DEF ReadDialog, Knows, Carries, ForwardedMethods
  <2>2. /\ relays' \subseteq relays /\ merged' = merged
        /\ \A r \in relays' : \/ dialog'.live
             \/ /\ dialog' = dialog \/ r # dialog.relay
                /\ r = h /\ handler[h].method = "INVITE" => method = "INVITE"
    BY <1>2, Known, GoroutineTypes DEF ReadDialog, Carries, OfferMethods, ForwardedMethods
  <2> QED BY <1>1, <2>1, <2>2, DialogTypes, RelayKept
<1>6. OfferInv'
  <2>1. /\ copied \subseteq copied'
        /\ dialog.offer \in {0} \cup copied'
    BY <1>2, Known, DialogTypes DEF ReadDialog, Shows, Carries
  <2>2. dialog'.live /\ dialog'.offer # 0 =>
          \/ dialog'.offer \in copied' \cup {0}
          \/ dialog.live /\ dialog'.offer = dialog.offer /\ dialog.offer # handler[h].offer
    BY <1>2, Known, GoroutineTypes, DialogTypes DEF ReadDialog, Shows, Carries, OfferMethods, ForwardedMethods
  <2> QED BY <1>1, <2>1, <2>2, DialogTypes, OfferKept
<1> QED BY <1>3, <1>4, <1>5, <1>6 DEF CallInv

LEMMA Forwards ==
  ASSUME CallInv, NEW h \in Handlers, SendForwarded(h)
  PROVE  CallInv'
<1>1. Moves(h, "await", handler[h].method, handler[h].copy, handler[h].provisional, handler[h].offer)
  BY GoesTo DEF SendForwarded, CallInv, Places
<1>2. dialog' = handler[h].copy /\ dialog' \in Dialogs /\ dialog'.live
  BY Known, GoroutineTypes DEF SendForwarded, CallInv, Carries, storeInboundDialog, OfferMethods, ForwardedMethods, Places
<1>3. CallType'
  BY <1>1, <1>2, Known, DialogTypes, TypeKept DEF SendForwarded
<1>4. CarryInv'
  <2>1. /\ handler[h].method # "INVITE" => handler[h].copy.live
        /\ handler[h].offer # 0 => handler[h].method \in OfferMethods
    BY <1>2, Known DEF SendForwarded, Carries, OfferMethods, ForwardedMethods
  <2> QED BY <1>1, <2>1, CarryKept
<1>5. RelayInv'
  <2>1. \A c : OneRelay(c) =>
        /\ dialog'.live => dialog'.relay = c
        /\ handler[h].copy.live => handler[h].copy.relay = c
        /\ handler[h].provisional.live => handler[h].provisional.relay = c
        /\ handler[h].method = "INVITE" => h = c
    BY <1>2, Known, DialogTypes DEF SendForwarded, Knows, Carries, ForwardedMethods
  <2>2. /\ relays' \subseteq relays /\ merged' = merged
        /\ \A r \in relays' : \/ dialog'.live
             \/ /\ dialog' = dialog \/ r # dialog.relay
                /\ r = h /\ handler[h].method = "INVITE" => handler[h].method = "INVITE"
    BY <1>2, Known, GoroutineTypes DEF SendForwarded, Carries, OfferMethods, ForwardedMethods
  <2> QED BY <1>1, <2>1, <2>2, DialogTypes, RelayKept
<1>6. OfferInv'
  <2>1. /\ copied \subseteq copied'
        /\ handler[h].copy.offer \in {0, handler[h].offer} \cup copied'
        /\ handler[h].provisional.offer \in {0, handler[h].offer} \cup copied'
    BY <1>2, Known, DialogTypes DEF SendForwarded, Shows, Carries
  <2>2. dialog'.live /\ dialog'.offer # 0 =>
          \/ dialog'.offer \in copied' \cup {handler[h].offer}
          \/ dialog.live /\ dialog'.offer = dialog.offer /\ dialog.offer # handler[h].offer
    BY <1>2, Known, GoroutineTypes, DialogTypes DEF SendForwarded, Shows, Carries, OfferMethods, ForwardedMethods
  <2> QED BY <1>1, <2>1, <2>2, DialogTypes, OfferKept
<1> QED BY <1>3, <1>4, <1>5, <1>6 DEF CallInv

LEMMA AnswersForwarded ==
  ASSUME CallInv, NEW h \in Handlers, ForwardedAnswered(h)
  PROVE  CallInv'
<1>1. CASE Return(h) /\ UNCHANGED dialog
  <2>1. dialog' = dialog /\ dialog \in Dialogs
    BY <1>1, Known DEF CallInv
  <2>2. \A c : OneRelay(c) /\ dialog'.live => dialog'.relay = c
    BY <1>1, <2>1, Known, DialogTypes DEF ForwardedAnswered, Knows, Carries
  <2>3. \A r \in relays' :
          \/ dialog'.live
          \/ (dialog' = dialog \/ r # dialog.relay) /\ (r = h => handler[h].method # "INVITE")
    BY <1>1, <2>1, Known, DialogTypes DEF ForwardedAnswered, Carries, OfferMethods, ForwardedMethods
  <2>4. dialog'.live /\ dialog'.offer # 0 =>
          \/ dialog'.offer \in copied
          \/ dialog.live /\ dialog'.offer = dialog.offer /\ dialog.offer # handler[h].offer
    BY <1>1, <2>1, Known DEF ForwardedAnswered, Shows, Carries, OfferMethods, ForwardedMethods
  <2> QED BY <1>1, <2>1, <2>2, <2>3, <2>4, Known, DialogTypes, Returned DEF ForwardedAnswered
<1>2. CASE Retries(h) /\ UNCHANGED dialog
  <2>1. Moves(h, "send", handler[h].method, handler[h].copy, handler[h].provisional, handler[h].offer)
    BY <1>2, TriesAgain DEF ForwardedAnswered, CallInv
  <2>2. dialog' = dialog /\ dialog \in Dialogs
    BY <1>2, Known DEF CallInv
  <2>3. CallType'
    BY <1>2, <2>1, <2>2, Known, DialogTypes, TypeKept DEF ForwardedAnswered
  <2>4. CarryInv'
    <3>1. /\ handler[h].method # "INVITE" => handler[h].copy.live
          /\ handler[h].offer # 0 => handler[h].method \in OfferMethods
      BY <1>2, <2>2, Known DEF ForwardedAnswered, Carries, OfferMethods, ForwardedMethods
    <3> QED BY <2>1, <3>1, CarryKept
  <2>5. RelayInv'
    <3>1. \A c : OneRelay(c) =>
          /\ dialog'.live => dialog'.relay = c
          /\ handler[h].copy.live => handler[h].copy.relay = c
          /\ handler[h].provisional.live => handler[h].provisional.relay = c
          /\ handler[h].method = "INVITE" => h = c
      BY <1>2, <2>2, Known, DialogTypes DEF ForwardedAnswered, Knows, Carries, ForwardedMethods
    <3>2. /\ relays' \subseteq relays /\ merged' = merged
          /\ \A r \in relays' : \/ dialog'.live
               \/ /\ dialog' = dialog \/ r # dialog.relay
                  /\ r = h /\ handler[h].method = "INVITE" => handler[h].method = "INVITE"
      BY <1>2, <2>2, Known, GoroutineTypes DEF ForwardedAnswered, Carries, OfferMethods, ForwardedMethods
    <3> QED BY <2>1, <3>1, <3>2, DialogTypes, RelayKept
  <2>6. OfferInv'
    <3>1. /\ copied \subseteq copied'
          /\ handler[h].copy.offer \in {0, handler[h].offer} \cup copied'
          /\ handler[h].provisional.offer \in {0, handler[h].offer} \cup copied'
      BY <1>2, <2>2, Known, DialogTypes DEF ForwardedAnswered, Shows, Carries
    <3>2. dialog'.live /\ dialog'.offer # 0 =>
            \/ dialog'.offer \in copied' \cup {handler[h].offer}
            \/ dialog.live /\ dialog'.offer = dialog.offer /\ dialog.offer # handler[h].offer
      BY <1>2, <2>2, Known, GoroutineTypes, DialogTypes DEF ForwardedAnswered, Shows, Carries, OfferMethods, ForwardedMethods
    <3> QED BY <2>1, <3>1, <3>2, DialogTypes, OfferKept
  <2> QED BY <2>3, <2>4, <2>5, <2>6 DEF CallInv
<1>3. CASE storeInboundDialog(handler[h].copy) /\ Return(h)
  <2>1. dialog' = handler[h].copy /\ dialog' \in Dialogs /\ dialog'.live
    BY <1>3, Known, GoroutineTypes DEF ForwardedAnswered, CallInv, Carries, storeInboundDialog, OfferMethods, ForwardedMethods, Places
  <2>2. \A c : OneRelay(c) /\ dialog'.live => dialog'.relay = c
    BY <1>3, <2>1, Known, DialogTypes DEF ForwardedAnswered, Knows, Carries
  <2>3. \A r \in relays' :
          \/ dialog'.live
          \/ (dialog' = dialog \/ r # dialog.relay) /\ (r = h => handler[h].method # "INVITE")
    BY <2>1
  <2>4. dialog'.live /\ dialog'.offer # 0 =>
          \/ dialog'.offer \in copied
          \/ dialog.live /\ dialog'.offer = dialog.offer /\ dialog.offer # handler[h].offer
    BY <1>3, <2>1, Known DEF ForwardedAnswered, Shows, Carries, OfferMethods, ForwardedMethods
  <2> QED BY <1>3, <2>1, <2>2, <2>3, <2>4, Known, DialogTypes, Returned DEF ForwardedAnswered
<1> QED BY <1>1, <1>2, <1>3 DEF ForwardedAnswered

LEMMA Cancels ==
  ASSUME CallInv, NEW h \in Handlers, CancelInboundCallWithResult(h)
  PROVE  CallInv'
<1>1. CASE UNCHANGED dialog
  <2>1. dialog' = dialog /\ dialog \in Dialogs
    BY <1>1, Known DEF CancelInboundCallWithResult, CallInv
  <2>2. \A c : OneRelay(c) /\ dialog'.live => dialog'.relay = c
    BY <1>1, <2>1, Known, DialogTypes DEF CancelInboundCallWithResult, Knows, Carries
  <2>3. \A r \in relays' :
          \/ dialog'.live
          \/ (dialog' = dialog \/ r # dialog.relay) /\ (r = h => handler[h].method # "INVITE")
    BY <1>1, <2>1, Known, DialogTypes DEF CancelInboundCallWithResult, Carries, OfferMethods, ForwardedMethods
  <2>4. dialog'.live /\ dialog'.offer # 0 =>
          \/ dialog'.offer \in copied
          \/ dialog.live /\ dialog'.offer = dialog.offer /\ dialog.offer # handler[h].offer
    BY <1>1, <2>1, Known DEF CancelInboundCallWithResult, Shows, Carries, OfferMethods, ForwardedMethods
  <2> QED BY <1>1, <2>1, <2>2, <2>3, <2>4, Known, DialogTypes, Returned DEF CancelInboundCallWithResult
<1>2. CASE storeInboundDialog([handler[h].copy EXCEPT !.canceled = TRUE, !.offer = 0])
  <2>1. dialog' \in Dialogs /\ dialog'.live /\ dialog'.relay = handler[h].copy.relay /\ dialog'.offer = 0
    BY <1>2, Known, GoroutineTypes, CanceledType DEF CancelInboundCallWithResult, CallInv, Carries, storeInboundDialog
  <2>2. \A c : OneRelay(c) /\ dialog'.live => dialog'.relay = c
    BY <1>2, <2>1, Known, DialogTypes DEF CancelInboundCallWithResult, Knows, Carries
  <2>3. \A r \in relays' :
          \/ dialog'.live
          \/ (dialog' = dialog \/ r # dialog.relay) /\ (r = h => handler[h].method # "INVITE")
    BY <2>1
  <2>4. dialog'.live /\ dialog'.offer # 0 =>
          \/ dialog'.offer \in copied
          \/ dialog.live /\ dialog'.offer = dialog.offer /\ dialog.offer # handler[h].offer
    BY <2>1
  <2> QED BY <1>2, <2>1, <2>2, <2>3, <2>4, Known, DialogTypes, Returned DEF CancelInboundCallWithResult
<1> QED BY <1>1, <1>2 DEF CancelInboundCallWithResult

LEMMA Ends ==
  ASSUME CallInv, NEW h \in Handlers, EndInboundCallWithResult(h)
  PROVE  CallInv'
<1>1. CASE UNCHANGED <<dialog, relays>>
  <2>1. dialog' = dialog /\ dialog \in Dialogs
    BY <1>1, Known DEF EndInboundCallWithResult, CallInv
  <2>2. \A c : OneRelay(c) /\ dialog'.live => dialog'.relay = c
    BY <1>1, <2>1, Known, DialogTypes DEF EndInboundCallWithResult, Knows, Carries
  <2>3. \A r \in relays' :
          \/ dialog'.live
          \/ (dialog' = dialog \/ r # dialog.relay) /\ (r = h => handler[h].method # "INVITE")
    BY <1>1, <2>1, Known, DialogTypes DEF EndInboundCallWithResult, Carries, OfferMethods, ForwardedMethods
  <2>4. dialog'.live /\ dialog'.offer # 0 =>
          \/ dialog'.offer \in copied
          \/ dialog.live /\ dialog'.offer = dialog.offer /\ dialog.offer # handler[h].offer
    BY <1>1, <2>1, Known DEF EndInboundCallWithResult, Shows, Carries, OfferMethods, ForwardedMethods
  <2> QED BY <1>1, <2>1, <2>2, <2>3, <2>4, Known, DialogTypes, Returned DEF EndInboundCallWithResult
<1>2. CASE deleteInboundDialog(NoRelay)
  <2>1. dialog' = NoDialog /\ relays' = relays \ {dialog.relay, NoRelay}
    BY <1>2, Known DEF EndInboundCallWithResult, deleteInboundDialog, CallInv
  <2>2. \A c : OneRelay(c) /\ dialog'.live => dialog'.relay = c
    BY <1>2, <2>1, Known, DialogTypes DEF EndInboundCallWithResult, Knows, Carries
  <2>3. \A r \in relays' :
          \/ dialog'.live
          \/ (dialog' = dialog \/ r # dialog.relay) /\ (r = h => handler[h].method # "INVITE")
    BY <1>2, <2>1, Known, DialogTypes DEF EndInboundCallWithResult, Carries, OfferMethods, ForwardedMethods
  <2>4. dialog'.live /\ dialog'.offer # 0 =>
          \/ dialog'.offer \in copied
          \/ dialog.live /\ dialog'.offer = dialog.offer /\ dialog.offer # handler[h].offer
    BY <2>1, DialogTypes
  <2> QED BY <1>2, <2>1, <2>2, <2>3, <2>4, Known, DialogTypes, Returned DEF EndInboundCallWithResult
<1> QED BY <1>1, <1>2 DEF EndInboundCallWithResult

LEMMA Opens ==
  ASSUME CallInv, NEW h \in Handlers, NEW hasOffer \in BOOLEAN, HandleInboundInvite(h, hasOffer)
  PROVE  CallInv'
<1>1. CASE dialog.live
  <2>1. Moves(h, "begin", "reINVITE", NoDialog, NoDialog, 0)
    BY <1>1, StartsAfresh DEF HandleInboundInvite, CallInv, Places, Methods, OfferMethods
  <2>2. dialog' = dialog /\ dialog \in Dialogs
    BY <1>1, Known DEF HandleInboundInvite, CallInv, Places, Methods, OfferMethods
  <2>3. CallType'
    BY <1>1, <2>1, <2>2, Known, DialogTypes, TypeKept DEF HandleInboundInvite
  <2>4. CarryInv'
    <3>1. "reINVITE" \in OfferMethods
      BY <1>1, <2>2, Known DEF HandleInboundInvite, Carries, OfferMethods, ForwardedMethods
    <3> QED BY <2>1, <3>1, CarryKept
  <2>5. RelayInv'
    <3>1. \A c : OneRelay(c) => (dialog'.live => dialog'.relay = c)
      BY <1>1, <2>2, Known, DialogTypes DEF HandleInboundInvite, Knows, Carries, ForwardedMethods
    <3>2. /\ relays' \subseteq relays /\ merged' = merged
          /\ \A r \in relays' : \/ dialog'.live
               \/ /\ dialog' = dialog \/ r # dialog.relay
                  /\ r = h /\ handler[h].method = "INVITE" => "reINVITE" = "INVITE"
      BY <1>1, <2>2, Known, GoroutineTypes DEF HandleInboundInvite, Carries, OfferMethods, ForwardedMethods
    <3> QED BY <2>1, <3>1, <3>2, DialogTypes, RelayKept
  <2>6. OfferInv'
    <3>1. copied \subseteq copied'
      BY <1>1, <2>2, Known, DialogTypes DEF HandleInboundInvite, Shows, Carries
    <3>2. dialog'.live /\ dialog'.offer # 0 =>
            \/ dialog'.offer \in copied' \cup {0}
            \/ dialog.live /\ dialog'.offer = dialog.offer /\ dialog.offer # handler[h].offer
      BY <1>1, <2>2, Known, GoroutineTypes, DialogTypes DEF HandleInboundInvite, Shows, Carries, OfferMethods, ForwardedMethods
    <3> QED BY <2>1, <3>1, <3>2, DialogTypes, OfferKept
  <2> QED BY <2>3, <2>4, <2>5, <2>6 DEF CallInv
<1>2. CASE ~ dialog.live
  <2>1. Moves(h, "send", "INVITE", NoDialog, NoDialog, 0)
    BY <1>2, StartsInvite DEF HandleInboundInvite, CallInv
  <2>2. dialog' = dialog /\ dialog \in Dialogs
    BY Known DEF HandleInboundInvite
  <2>3. merged' = (merged \/ \E g \in Handlers : handler[g].pc # "idle") /\ relays' = relays \cup {h}
    BY <1>2 DEF HandleInboundInvite
  <2>4. CallType'
    BY <1>2, <2>1, <2>2, <2>3, Known, TypeKept DEF HandleInboundInvite
  <2>5. CarryInv'
    BY <2>1, CarryKept
  <2>6. RelayInv'
    <3>1. CASE merged'
      BY <3>1 DEF RelayInv, RelayOwned
    <3>2. CASE ~ merged'
      <4>1. ~ merged /\ \A g \in Handlers : handler[g] = Idle
        BY <2>3, <3>2 DEF CallInv, CarryInv, Carries
      <4>2. relays = {}
        BY <1>2, <4>1, GoroutineTypes DEF CallInv, CallType, RelayInv, RelayOwned
      <4>3. \A g \in Handlers : Knows(handler'[g], h) /\ (handler'[g].method = "INVITE" => g = h)
        <5>1. Knows(handler'[h], h)
          BY <2>1, DialogTypes DEF Moves, Knows
        <5>2. \A g \in Handlers : g # h => handler'[g] = Idle
          BY <2>1, <4>1 DEF Moves
        <5>3. Knows(Idle, h) /\ Idle.method # "INVITE"
          BY GoroutineTypes, DialogTypes DEF Knows
        <5> QED BY <5>1, <5>2, <5>3
      <4>4. OneRelay(h)'
        BY <1>2, <2>2, <2>3, <4>2, <4>3 DEF OneRelay, Knows
      <4>5. RelayOwned'
        BY <2>1, <2>3, <4>2 DEF RelayOwned, Moves
      <4> QED BY <4>4, <4>5 DEF RelayInv
    <3> QED BY <3>1, <3>2, <2>4 DEF CallType
  <2>7. OfferInv'
    BY <1>2, <2>1, <2>2, DialogTypes, OfferKept DEF HandleInboundInvite
  <2> QED BY <2>4, <2>5, <2>6, <2>7 DEF CallInv
<1> QED BY <1>1, <1>2, Known DEF Dialogs

-----------------------------------------------------------------------------
LEMMA InitCall ==
  CallInit => CallInv
<1> SUFFICES ASSUME CallInit PROVE CallInv
  OBVIOUS
<1>1. \A h \in Handlers : handler[h] = Idle
  BY DEF CallInit
<1>2. CallType
  BY GoroutineTypes, DialogTypes DEF CallInit, CallType
<1>3. CarryInv
  BY <1>1, GoroutineTypes DEF CarryInv, Carries
<1>4. OneRelay(NoRelay) /\ RelayOwned
  BY <1>1, GoroutineTypes, DialogTypes DEF CallInit, OneRelay, Knows, RelayOwned
<1>5. OfferInv
  BY <1>1, GoroutineTypes, DialogTypes DEF CallInit, OfferInv, OfferReleased, Shows
<1> QED BY <1>2, <1>3, <1>4, <1>5 DEF CallInv, RelayInv

LEMMA CallStep ==
  CallInv /\ [CallNext]_callVars => CallInv'
<1> SUFFICES ASSUME CallInv, [CallNext]_callVars PROVE CallInv'
  OBVIOUS
<1>1. CASE CallNext
  <2>1. PICK h \in Handlers :
          \/ \E hasOffer \in BOOLEAN :
                HandleInboundInvite(h, hasOffer) \/ HandleInboundUpdate(h, hasOffer)
          \/ InviteSetupFails(h) \/ SendInvite(h) \/ InviteAnswered(h) \/ InviteAccepted(h)
          \/ Provisional(h) \/ applyInboundProvisionalDialogState(h)
          \/ beginInboundDialogOffer(h) \/ SendOffer(h) \/ OfferAnswered(h)
          \/ releaseInboundPendingOffer(h)
          \/ \E method \in ForwardedMethods \cup {"CANCEL", "BYE"} : ReadDialog(h, method)
          \/ SendForwarded(h) \/ ForwardedAnswered(h)
          \/ CancelInboundCallWithResult(h) \/ EndInboundCallWithResult(h)
    BY <1>1 DEF CallNext
  <2> QED BY <2>1, Opens, Updates, SetupFails, Invites, Answers, Accepts, Hears, Applies,
             Begins, SendsOffer, AnswersOffer, ReleasesOffer, Reads, Forwards,
             AnswersForwarded, Cancels, Ends
<1>2. CASE UNCHANGED callVars
  <2>1. CallType' /\ CarryInv'
    BY <1>2 DEF CallInv, CallType, CarryInv, callVars
  <2>2. RelayInv'
    BY <1>2 DEF CallInv, RelayInv, RelayOwned, OneRelay, callVars
  <2>3. OfferInv'
    BY <1>2 DEF CallInv, OfferInv, OfferReleased, callVars
  <2> QED BY <2>1, <2>2, <2>3 DEF CallInv
<1> QED BY <1>1, <1>2

\* Nothing of an inbound call is ever left without a handler that will end it: an open
\* relay belongs to the dialog in the table or to the INVITE at work, and a pending
\* offer to a running handler, for any number of goroutines of the call.
THEOREM CallEnds == CallSpec => []CallCleansUp
<1>1. CallInv => CallCleansUp
  BY DEF CallInv, RelayInv, OfferInv, CallCleansUp
<1> QED BY InitCall, CallStep, <1>1, PTL DEF CallSpec
=============================================================================

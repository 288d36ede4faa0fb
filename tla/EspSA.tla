------------------------------- MODULE EspSA --------------------------------
(***************************************************************************)
(* The receiving direction of an ESP security association of               *)
(* engine/swu/esp/esp.go: Open authenticates a packet, checks its number   *)
(* against the replay window and records it in the 64-bit bitmap.          *)
(*                                                                         *)
(* The bitmap is the set of its bit positions that are 1, bit d standing   *)
(* for the number HighestSequence - d; keys, IVs and payloads reduce to    *)
(* the verdicts of the integrity check and of the padding check.           *)
(***************************************************************************)
EXTENDS Integers

CONSTANTS MaxSeq,       \* largest sequence number: 2^32 - 1 in the code
          WordBits,     \* width of ReplayBitmap: 64 in the code
          WindowSizes,  \* values ReplayWindowSize may have
          MaxOpens      \* bound on how often one number is delivered

ASSUME MaxSeqAssumption == MaxSeq \in Nat \ {0}
ASSUME WordBitsAssumption == WordBits \in Nat \ {0}
ASSUME WindowSizesAssumption == WindowSizes \subseteq Nat
ASSUME MaxOpensAssumption == MaxOpens \in Nat \ {0}

SeqNumbers == 1 .. MaxSeq

\* A datagram handed to Open: does its SPI match, its sequence number, does
\* its ICV verify, is its decrypted trailer well formed.
Packets == [spi : BOOLEAN, seq : 0 .. MaxSeq, icv : BOOLEAN, plain : BOOLEAN]

VARIABLES
  windowSize,  \* SA.ReplayWindowSize
  highest,     \* SA.HighestSequence
  bitmap,      \* SA.ReplayBitmap
  accepted,    \* history: how often each number was delivered by Open
  verdict      \* result of the last Open

espVars == <<windowSize, highest, bitmap, accepted, verdict>>

TypeOK ==
  /\ windowSize \in WindowSizes
  /\ highest \in 0 .. MaxSeq
  /\ bitmap \subseteq 0 .. WordBits - 1
  /\ accepted \in [SeqNumbers -> Nat]
  /\ verdict \in [kind : {"none", "accepted", "replay", "invalid"},
                  seq : 0 .. MaxSeq]

\* NewSA with a non-zero SPI and acceptable keys; NewInboundSAFromChild sets a
\* window of 64, other callers any size.
EspInit ==
  /\ windowSize \in WindowSizes
  /\ highest = 0
  /\ bitmap = {}
  /\ accepted = [s \in SeqNumbers |-> 0]
  /\ verdict = [kind |-> "none", seq |-> 0]

-----------------------------------------------------------------------------
(* Opening.                                                                *)

Window == IF windowSize > WordBits THEN WordBits ELSE windowSize

\* Mutant: the far edge of the window is off by one.
CheckReplay_WideEdge(seq) ==
  \/ windowSize = 0
  \/ seq > highest
  \/ highest - seq <= Window /\ highest - seq \notin bitmap

\* checkReplay returns nil
CheckReplay(seq) ==
  \/ windowSize = 0
  \/ seq > highest
  \/ highest - seq < Window /\ highest - seq \notin bitmap

\* bits << n in a word of WordBits bits
ShiftLeft(bits, n) == {b + n : b \in bits} \cap (0 .. WordBits - 1)

\* Mutant: the window is moved without moving the bits in it.
AcceptSequence_NoShift(seq) ==
  IF windowSize = 0 \/ seq > highest
  THEN /\ highest' = IF seq > highest THEN seq ELSE highest
       /\ bitmap' = bitmap \cup {0}
  ELSE /\ bitmap' = bitmap \cup {highest - seq}
       /\ UNCHANGED highest

AcceptSequence(seq) ==
  \/ /\ seq > highest
     /\ highest' = seq
     /\ bitmap' = IF windowSize = 0 THEN bitmap
                  ELSE IF seq - highest >= WordBits THEN {0}
                  ELSE ShiftLeft(bitmap, seq - highest) \cup {0}
  \/ /\ seq <= highest
     /\ bitmap' = IF windowSize # 0 /\ highest - seq < WordBits
                  THEN bitmap \cup {highest - seq} ELSE bitmap
     /\ UNCHANGED highest

Authentic(p) == p.spi /\ p.seq # 0 /\ p.icv

OpenInvalid(p) ==
  /\ \/ ~ Authentic(p)
     \/ CheckReplay(p.seq) /\ ~ p.plain
  /\ verdict' = [kind |-> "invalid", seq |-> p.seq]
  /\ UNCHANGED <<highest, bitmap, accepted>>

OpenReplay(p) ==
  /\ Authentic(p)
  /\ ~ CheckReplay(p.seq)
  /\ verdict' = [kind |-> "replay", seq |-> p.seq]
  /\ UNCHANGED <<highest, bitmap, accepted>>

OpenAccept(p) ==
  /\ Authentic(p) /\ p.plain
  /\ CheckReplay(p.seq)
  /\ accepted[p.seq] < MaxOpens
  /\ AcceptSequence(p.seq)
  /\ accepted' = [accepted EXCEPT ![p.seq] = @ + 1]
  /\ verdict' = [kind |-> "accepted", seq |-> p.seq]

Open(p) ==
  /\ OpenInvalid(p) \/ OpenReplay(p) \/ OpenAccept(p)
  /\ UNCHANGED windowSize

EspNext == \E p \in Packets : Open(p)

EspSpec == EspInit /\ [][EspNext]_espVars

-----------------------------------------------------------------------------
(* Properties.                                                             *)

\* With a replay window, Open delivers no sequence number twice, however the
\* network reorders and repeats packets (checkReplay and acceptSequence).
AcceptedAtMostOnce ==
  windowSize # 0 => \A s \in SeqNumbers : accepted[s] <= 1

\* The bitmap is exactly the recent history: bit d is set if and only if the
\* number HighestSequence - d has been delivered; and HighestSequence is the
\* newest number delivered.  acceptSequence must keep this through shifts by
\* any distance, including one of the whole word.
HighestIsNewest ==
  /\ \A s \in SeqNumbers : accepted[s] > 0 => s <= highest
  /\ highest > 0 => accepted[highest] > 0

BitmapIsHistory ==
  windowSize # 0 =>
    /\ \A d \in bitmap : highest - d \in SeqNumbers
    /\ \A d \in 0 .. WordBits - 1 : highest - d \in SeqNumbers =>
         (d \in bitmap <=> accepted[highest - d] > 0)

WindowInvariant == HighestIsNewest /\ BitmapIsHistory

\* The association delivers exactly the packets the anti-replay service must.
Abstract == INSTANCE AntiReplay
  WITH Sizes <- {IF w > WordBits THEN WordBits ELSE w : w \in WindowSizes},
       size <- Window,
       seen <- {s \in SeqNumbers : accepted[s] > 0},
       answer <- verdict

RefinesAntiReplay == Abstract!Spec
=============================================================================

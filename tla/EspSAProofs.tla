---------------------------- MODULE EspSAProofs -----------------------------
(***************************************************************************)
(* Proofs about EspSA for every word width, window size and number range:  *)
(* the bitmap is the recent history, no number is delivered twice, and the *)
(* bitmap implements the abstract anti-replay service.                     *)
(***************************************************************************)
EXTENDS EspSA, TLAPS

\* The inductive invariant: types and the meaning of the bitmap, and that a
\* window never delivers twice.
Inv == TypeOK /\ WindowInvariant /\ AcceptedAtMostOnce

-----------------------------------------------------------------------------
\* A shift moves bit d - n to bit d, for every d within the word.
LEMMA ShiftLeftBits ==
  ASSUME NEW bits \in SUBSET (0 .. WordBits - 1), NEW n \in Nat \ {0},
         NEW d \in 0 .. WordBits - 1
  PROVE  d \in ShiftLeft(bits, n) <=> d - n \in bits
BY WordBitsAssumption DEF ShiftLeft

\* Arithmetic about the distance of a number to an older HighestSequence.
LEMMA Distance ==
  ASSUME NEW a \in Int, NEW b \in Int, NEW c \in Int, a <= b
  PROVE  b - c \in Int /\ a - (b - c) <= c
OBVIOUS

\* A shifted word is a word.
LEMMA ShiftLeftType ==
  ASSUME NEW bits, NEW n
  PROVE  ShiftLeft(bits, n) \subseteq 0 .. WordBits - 1
BY DEF ShiftLeft

\* The type invariant is preserved by acceptSequence of a valid number.
LEMMA AcceptSequenceType ==
  ASSUME TypeOK, NEW seq \in SeqNumbers, AcceptSequence(seq)
  PROVE  highest' \in 0 .. MaxSeq /\ bitmap' \subseteq 0 .. WordBits - 1
<1>1. highest' \in 0 .. MaxSeq
  BY MaxSeqAssumption DEF AcceptSequence, TypeOK, SeqNumbers
<1>2. bitmap \subseteq 0 .. WordBits - 1 /\ 0 \in 0 .. WordBits - 1
  BY WordBitsAssumption DEF TypeOK
<1>3. CASE seq > highest
  <2>1. \/ bitmap' = bitmap
        \/ bitmap' = {0}
        \/ bitmap' = ShiftLeft(bitmap, seq - highest) \cup {0}
    BY <1>3 DEF AcceptSequence, TypeOK, SeqNumbers
  <2> QED BY <1>1, <1>2, <2>1, ShiftLeftType
<1>4. CASE seq <= highest
  <2>1. \/ bitmap' = bitmap
        \/ highest - seq < WordBits /\ bitmap' = bitmap \cup {highest - seq}
    BY <1>4 DEF AcceptSequence, TypeOK, SeqNumbers
  <2>2. highest - seq < WordBits => highest - seq \in 0 .. WordBits - 1
    BY <1>4, WordBitsAssumption, MaxSeqAssumption DEF TypeOK, SeqNumbers
  <2> QED BY <1>1, <1>2, <2>1, <2>2
<1> QED BY <1>3, <1>4, MaxSeqAssumption DEF TypeOK, SeqNumbers

\* acceptSequence moves HighestSequence to the larger of the two numbers.
LEMMA AcceptSequenceHighest ==
  ASSUME TypeOK, NEW seq \in SeqNumbers, AcceptSequence(seq)
  PROVE  highest' = IF seq > highest THEN seq ELSE highest
BY MaxSeqAssumption DEF AcceptSequence, TypeOK, SeqNumbers

\* With a window, bit d of the new bitmap stands for the number that is d
\* below the new HighestSequence: it is set for seq and for what was set.
LEMMA AcceptSequenceBits ==
  ASSUME TypeOK, windowSize # 0, NEW seq \in SeqNumbers, AcceptSequence(seq),
         NEW d \in 0 .. WordBits - 1
  PROVE  d \in bitmap' <=> \/ highest' - d = seq
                           \/ highest - (highest' - d) \in bitmap
<1> USE MaxSeqAssumption, WordBitsAssumption DEF TypeOK, SeqNumbers
<1>1. CASE seq > highest /\ seq - highest >= WordBits
  <2>1. highest' = seq /\ bitmap' = {0}
    BY <1>1 DEF AcceptSequence
  <2>2. highest - (highest' - d) \notin bitmap
    BY <2>1, <1>1
  <2> QED BY <2>1, <2>2
<1>2. CASE seq > highest /\ ~ (seq - highest >= WordBits)
  <2>1. highest' = seq /\ bitmap' = ShiftLeft(bitmap, seq - highest) \cup {0}
    BY <1>2 DEF AcceptSequence
  <2>2. bitmap \in SUBSET (0 .. WordBits - 1) /\ seq - highest \in Nat \ {0}
    BY <1>2
  <2>3. d \in ShiftLeft(bitmap, seq - highest) <=> d - (seq - highest) \in bitmap
    BY <2>2, ShiftLeftBits
  <2>4. highest - (highest' - d) = d - (seq - highest)
    BY <2>1
  <2>5. highest' - d = seq <=> d = 0
    BY <2>1
  <2> QED BY <2>1, <2>3, <2>4, <2>5
<1>3. CASE seq <= highest
  <2>1. highest' = highest
    BY <1>3 DEF AcceptSequence
  <2>2. bitmap' = IF highest - seq < WordBits THEN bitmap \cup {highest - seq}
                                              ELSE bitmap
    BY <1>3 DEF AcceptSequence
  <2>3. highest - (highest' - d) = d /\ (highest' - d = seq <=> d = highest - seq)
    BY <2>1
  <2>4. d = highest - seq => highest - seq < WordBits
    OBVIOUS
  <2> QED BY <2>2, <2>3, <2>4
<1> QED BY <1>1, <1>2, <1>3

-----------------------------------------------------------------------------
\* What checkReplay decides, in terms of the history: with a window, a number
\* that passes has not been delivered yet.
LEMMA CheckReplayIsFresh ==
  ASSUME Inv, windowSize # 0, NEW seq \in SeqNumbers, CheckReplay(seq)
  PROVE  accepted[seq] = 0
<1> USE MaxSeqAssumption, WordBitsAssumption, WindowSizesAssumption
    DEF Inv, TypeOK, SeqNumbers
<1>1. CASE seq > highest
  BY <1>1 DEF WindowInvariant, HighestIsNewest
<1>2. CASE seq <= highest
  <2>1. highest - seq < Window /\ highest - seq \notin bitmap
    BY <1>2 DEF CheckReplay
  <2>2. highest - seq \in 0 .. WordBits - 1
    BY <1>2, <2>1 DEF Window
  <2>3. highest - (highest - seq) = seq
    OBVIOUS
  <2>4. ~ (accepted[seq] > 0)
    BY <2>1, <2>2, <2>3 DEF WindowInvariant, BitmapIsHistory
  <2> QED BY <2>4
<1> QED BY <1>1, <1>2

\* Delivering a packet keeps the bitmap equal to the recent history.
LEMMA AcceptKeepsHistory ==
  ASSUME Inv, windowSize' = windowSize, NEW seq \in SeqNumbers,
         AcceptSequence(seq), accepted' = [accepted EXCEPT ![seq] = @ + 1]
  PROVE  WindowInvariant'
<1> USE MaxSeqAssumption, WordBitsAssumption
<1>1. /\ highest \in 0 .. MaxSeq /\ highest' \in 0 .. MaxSeq
      /\ highest <= highest' /\ seq <= highest'
      /\ highest' = seq \/ highest' = highest
  <2>1. TypeOK /\ highest \in 0 .. MaxSeq
    BY DEF Inv, TypeOK
  <2>2. highest' = IF seq > highest THEN seq ELSE highest
    BY <2>1, AcceptSequenceHighest
  <2>3. highest' \in 0 .. MaxSeq
    BY <2>1, AcceptSequenceType
  <2> QED BY <2>1, <2>2, <2>3 DEF SeqNumbers
<1>2. \A s \in SeqNumbers : accepted'[s] > 0 <=> s = seq \/ accepted[s] > 0
  BY DEF Inv, TypeOK
<1>3. HighestIsNewest'
  <2>1. \A s \in SeqNumbers : accepted'[s] > 0 => s <= highest'
    BY <1>1, <1>2 DEF Inv, WindowInvariant, HighestIsNewest, SeqNumbers
  <2>2. highest' > 0 => accepted'[highest'] > 0
    BY <1>1, <1>2 DEF Inv, WindowInvariant, HighestIsNewest, SeqNumbers
  <2> QED BY <2>1, <2>2 DEF HighestIsNewest
<1>4. BitmapIsHistory'
  <2> SUFFICES ASSUME windowSize # 0
               PROVE  /\ \A d \in bitmap' : highest' - d \in SeqNumbers
                      /\ \A d \in 0 .. WordBits - 1 :
                           highest' - d \in SeqNumbers =>
                             (d \in bitmap' <=> accepted'[highest' - d] > 0)
    BY DEF BitmapIsHistory
  <2>1. \A d \in 0 .. WordBits - 1 :
          d \in bitmap' <=> \/ highest' - d = seq
                            \/ highest - (highest' - d) \in bitmap
    BY AcceptSequenceBits DEF Inv
  <2>2. ASSUME NEW d \in bitmap'
        PROVE  highest' - d \in SeqNumbers
    <3>1. d \in 0 .. WordBits - 1
      BY AcceptSequenceType DEF Inv
    <3>2. CASE highest - (highest' - d) \in bitmap
      <4>1. highest - (highest - (highest' - d)) \in SeqNumbers
        BY <3>2 DEF Inv, WindowInvariant, BitmapIsHistory
      <4> QED BY <4>1, <3>1, <1>1
    <3> QED BY <3>1, <3>2, <2>1
  <2>3. ASSUME NEW d \in 0 .. WordBits - 1, highest' - d \in SeqNumbers
        PROVE  d \in bitmap' <=> accepted'[highest' - d] > 0
    <3> DEFINE s == highest' - d
    <3>1. s \in SeqNumbers /\ s \in Int /\ highest - s <= d
      <4>1. d \in Int /\ highest \in Int /\ highest' \in Int /\ highest <= highest'
        BY <1>1
      <4>2. highest' - d \in Int /\ highest - (highest' - d) <= d
        BY <4>1, Distance
      <4> QED BY <2>3, <4>2
    <3> HIDE DEF s
    <3>2. highest - s \in bitmap <=> accepted[s] > 0
      <4>1. CASE highest - s \in 0 .. WordBits - 1
        <5>1. highest - (highest - s) = s
          BY <3>1, <1>1
        <5> QED BY <4>1, <5>1, <3>1 DEF Inv, WindowInvariant, BitmapIsHistory
      <4>2. CASE highest - s \notin 0 .. WordBits - 1
        <5>1. s > highest
          BY <4>2, <3>1, <1>1
        <5>2. ~ (accepted[s] > 0)
          BY <5>1, <3>1, <1>1 DEF Inv, WindowInvariant, HighestIsNewest, SeqNumbers
        <5> QED BY <4>2, <5>2 DEF Inv, TypeOK
      <4> QED BY <4>1, <4>2
    <3> QED BY <3>1, <3>2, <2>1, <1>2 DEF s
  <2> QED BY <2>2, <2>3
<1> QED BY <1>3, <1>4 DEF WindowInvariant

\* The initial state of NewSA satisfies the invariant.
LEMMA InitInv == EspInit => Inv
BY MaxSeqAssumption, WordBitsAssumption
   DEF EspInit, Inv, TypeOK, WindowInvariant, HighestIsNewest, BitmapIsHistory,
       AcceptedAtMostOnce, SeqNumbers

\* Every outcome of Open preserves the invariant.
LEMMA NextInv == Inv /\ [EspNext]_espVars => Inv'
<1> SUFFICES ASSUME Inv, [EspNext]_espVars PROVE Inv'
  OBVIOUS
<1>1. CASE UNCHANGED espVars
  BY <1>1 DEF espVars, Inv, TypeOK, WindowInvariant, HighestIsNewest,
              BitmapIsHistory, AcceptedAtMostOnce
<1>2. ASSUME NEW p \in Packets, Open(p)
      PROVE  Inv'
  <2>1. windowSize' = windowSize
    BY <1>2 DEF Open
  <2>2. p.seq \in 0 .. MaxSeq
    BY DEF Packets
  <2>3. CASE OpenInvalid(p) \/ OpenReplay(p)
    <3>1. /\ UNCHANGED <<highest, bitmap, accepted>>
          /\ verdict' \in [kind : {"none", "accepted", "replay", "invalid"},
                           seq : 0 .. MaxSeq]
      BY <2>2, <2>3 DEF OpenInvalid, OpenReplay
    <3>2. TypeOK'
      BY <3>1, <2>1 DEF Inv, TypeOK
    <3>3. WindowInvariant' /\ AcceptedAtMostOnce'
      BY <3>1, <2>1 DEF Inv, WindowInvariant, HighestIsNewest, BitmapIsHistory,
                        AcceptedAtMostOnce
    <3> QED BY <3>2, <3>3 DEF Inv
  <2>4. CASE OpenAccept(p)
    <3>1. /\ p.seq \in SeqNumbers /\ CheckReplay(p.seq) /\ AcceptSequence(p.seq)
          /\ accepted' = [accepted EXCEPT ![p.seq] = @ + 1]
      BY <2>4, <2>2, MaxSeqAssumption DEF OpenAccept, Authentic, SeqNumbers
    <3>2. verdict' = [kind |-> "accepted", seq |-> p.seq]
      BY <2>4 DEF OpenAccept
    <3>3. TypeOK'
      BY <3>1, <3>2, <2>1, <2>2, AcceptSequenceType DEF Inv, TypeOK
    <3>4. WindowInvariant'
      BY <3>1, <2>1, AcceptKeepsHistory
    <3>5. AcceptedAtMostOnce'
      BY <3>1, <2>1, CheckReplayIsFresh DEF Inv, TypeOK, AcceptedAtMostOnce
    <3> QED BY <3>3, <3>4, <3>5 DEF Inv
  <2> QED BY <1>2, <2>3, <2>4 DEF Open
<1> QED BY <1>1, <1>2 DEF EspNext

\* The invariant holds in every state of a security association.
LEMMA Invariance == EspSpec => []Inv
BY InitInv, NextInv, PTL DEF EspSpec

-----------------------------------------------------------------------------
\* The fields of the security association keep their types; in particular the
\* bitmap stays within its word through every shift of acceptSequence.
THEOREM TypeCorrect == EspSpec => []TypeOK
BY Invariance, PTL DEF Inv

\* The replay bitmap is always exactly the recent history of deliveries.
THEOREM BitmapCorrect == EspSpec => []WindowInvariant
BY Invariance, PTL DEF Inv

\* Open delivers no sequence number twice, for every width of the bitmap and
\* every size of the replay window other than zero.
THEOREM NoReplay == EspSpec => []AcceptedAtMostOnce
BY Invariance, PTL DEF Inv

-----------------------------------------------------------------------------
\* checkReplay decides what the abstract service decides.
LEMMA CheckReplayDecides ==
  ASSUME Inv, NEW seq \in SeqNumbers
  PROVE  CheckReplay(seq) <=> Abstract!Deliverable(seq)
<1> USE MaxSeqAssumption, WordBitsAssumption, WindowSizesAssumption
    DEF Inv, TypeOK, SeqNumbers
<1>1. CASE windowSize = 0
  BY <1>1 DEF CheckReplay, Abstract!Deliverable, Window
<1>2. CASE windowSize # 0
  <2>1. Window \in Nat \ {0} /\ Window <= WordBits
    BY <1>2 DEF Window
  <2>2. ASSUME CheckReplay(seq)
        PROVE  Abstract!Deliverable(seq)
    <3>1. accepted[seq] = 0
      BY <1>2, <2>2, CheckReplayIsFresh
    <3>2. highest < seq + Window
      BY <1>2, <2>1, <2>2 DEF CheckReplay
    <3>3. ASSUME NEW t \in SeqNumbers, accepted[t] > 0
          PROVE  t < seq + Window
      BY <3>2, <3>3, <2>1 DEF WindowInvariant, HighestIsNewest
    <3> QED BY <3>1, <3>3 DEF Abstract!Deliverable
  <2>3. ASSUME Abstract!Deliverable(seq)
        PROVE  CheckReplay(seq)
    <3>1. /\ ~ (accepted[seq] > 0)
          /\ \A t \in SeqNumbers : accepted[t] > 0 => t < seq + Window
      BY <2>1, <2>3 DEF Abstract!Deliverable
    <3>2. CASE seq <= highest
      <4>1. highest \in SeqNumbers /\ accepted[highest] > 0
        BY <3>2 DEF WindowInvariant, HighestIsNewest
      <4>2. highest - seq < Window /\ highest - seq \in 0 .. WordBits - 1
        BY <3>1, <3>2, <4>1, <2>1
      <4>3. highest - (highest - seq) = seq
        OBVIOUS
      <4>4. highest - seq \notin bitmap
        BY <3>1, <4>2, <4>3, <1>2 DEF WindowInvariant, BitmapIsHistory
      <4> QED BY <4>2, <4>4 DEF CheckReplay
    <3>3. CASE seq > highest
      BY <3>3 DEF CheckReplay
    <3> QED BY <3>2, <3>3
  <2> QED BY <2>2, <2>3
<1> QED BY <1>1, <1>2

\* The bitmap window implements the abstract anti-replay service: Open
\* delivers a packet exactly when the service must, and refuses the others.
THEOREM Refinement == EspSpec => RefinesAntiReplay
<1>1. EspInit => Abstract!Init
  BY DEF EspInit, Abstract!Init, Window
<1>2. Inv /\ [EspNext]_espVars
        => [Abstract!Next]_<<Window, {s \in SeqNumbers : accepted[s] > 0}, verdict>>
  <2> SUFFICES ASSUME Inv, [EspNext]_espVars
               PROVE  [Abstract!Next]_<<Window, {s \in SeqNumbers : accepted[s] > 0},
                                        verdict>>
    OBVIOUS
  <2>1. CASE UNCHANGED espVars
    BY <2>1 DEF espVars, Window
  <2>2. ASSUME NEW p \in Packets, Open(p)
        PROVE  Abstract!Next
    <3>1. Window' = Window
      BY <2>2 DEF Open, Window
    <3>2. p.seq \in SeqNumbers \cup {0}
      BY MaxSeqAssumption DEF Packets, SeqNumbers
    <3>3. CASE OpenInvalid(p)
      BY <3>1, <3>2, <3>3 DEF OpenInvalid, Abstract!Next, Abstract!RefuseInvalid
    <3>4. CASE OpenReplay(p)
      <4>1. p.seq \in SeqNumbers
        BY <3>2, <3>4 DEF OpenReplay, Authentic
      <4>2. Abstract!RefuseReplay(p.seq)
        BY <4>1, <3>1, <3>4, CheckReplayDecides DEF OpenReplay, Abstract!RefuseReplay
      <4> QED BY <4>1, <4>2 DEF Abstract!Next
    <3>5. CASE OpenAccept(p)
      <4>1. p.seq \in SeqNumbers
        BY <3>2, <3>5 DEF OpenAccept, Authentic
      <4>2. {s \in SeqNumbers : accepted'[s] > 0}
              = {s \in SeqNumbers : accepted[s] > 0} \cup {p.seq}
        BY <4>1, <3>5 DEF OpenAccept, Inv, TypeOK
      <4>3. Abstract!Deliver(p.seq)
        BY <4>1, <4>2, <3>1, <3>5, CheckReplayDecides DEF OpenAccept, Abstract!Deliver
      <4> QED BY <4>1, <4>3 DEF Abstract!Next
    <3> QED BY <2>2, <3>3, <3>4, <3>5 DEF Open
  <2> QED BY <2>1, <2>2 DEF EspNext
<1> QED BY <1>1, <1>2, Invariance, PTL DEF EspSpec, RefinesAntiReplay, Abstract!Spec

=============================================================================

----------------------------- MODULE AntiReplay -----------------------------
(***************************************************************************)
(* What the anti-replay service of an ESP security association promises,   *)
(* with no reference to bitmaps: it remembers every sequence number it has *)
(* delivered and delivers a packet exactly when that number is new and not *)
(* older than the newest one by the size of the window.  A window of zero  *)
(* turns the service off.                                                  *)
(***************************************************************************)
EXTENDS Integers

CONSTANTS SeqNumbers,   \* the sequence numbers a packet may carry
          Sizes         \* the window sizes a security association may have

VARIABLES size,         \* size of the window in force
          seen,         \* sequence numbers delivered so far
          answer        \* what the last operation on the association returned

Answers == [kind : {"none", "accepted", "replay", "invalid"},
            seq  : SeqNumbers \cup {0}]

Init ==
  /\ size \in Sizes
  /\ seen = {}
  /\ answer = [kind |-> "none", seq |-> 0]

\* The packet is new, and no delivered packet is ahead of it by a window.
Deliverable(s) ==
  \/ size = 0
  \/ /\ s \notin seen
     /\ \A t \in seen : t < s + size

Deliver(s) ==
  /\ Deliverable(s)
  /\ seen' = seen \cup {s}
  /\ answer' = [kind |-> "accepted", seq |-> s]
  /\ UNCHANGED size

RefuseReplay(s) ==
  /\ ~ Deliverable(s)
  /\ answer' = [kind |-> "replay", seq |-> s]
  /\ UNCHANGED <<size, seen>>

\* A packet that is not authentic or not well formed is refused whatever its
\* sequence number is, and leaves no trace.
RefuseInvalid(s) ==
  /\ answer' = [kind |-> "invalid", seq |-> s]
  /\ UNCHANGED <<size, seen>>

Next ==
  \/ \E s \in SeqNumbers : Deliver(s) \/ RefuseReplay(s)
  \/ \E s \in SeqNumbers \cup {0} : RefuseInvalid(s)

Spec == Init /\ [][Next]_<<size, seen, answer>>
=============================================================================

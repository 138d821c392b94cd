----------------------------- MODULE DelayLines -----------------------------
(***************************************************************************)
(* A window of length n, a delay buffer of n - 1 samples and a fractional   *)
(* delay of up to n - 1 and at most MaxDelay samples, given the same samples *)
(* by one owner, which also clears and re-creates them together: a          *)
(* fractional delay, which has no recreate(), is made anew and given the    *)
(* window's samples.  The three hold the same line in memory of different   *)
(* layout.                                                                  *)
(***************************************************************************)
EXTENDS Integers, Sequences, FiniteSetsExt

CONSTANTS Values, Zero, Lengths, Burst, MaxBits, npfb, Grid, Deltas, MaxDelay

ASSUME LineAssumption ==
  /\ {npfb, Grid, MaxDelay} \subseteq Nat \ {0} /\ Deltas \subseteq Nat
  /\ Zero \in Values /\ Burst \in Nat /\ MaxBits \in Nat
  /\ Lengths \subseteq Nat \ {0} /\ Lengths # {}
  /\ \A len \in Lengths \cup {MaxDelay + 1} : \E m \in 0..MaxBits : 2 ^ m > len /\ 2 ^ m <= 2 * len

VARIABLES
  window, wdelay, fdelay,
  choice  \* is fdelay's delay the one it began with, chosen, or in use since?

vars == <<window, wdelay, fdelay, choice>>

W == INSTANCE Window
D == INSTANCE WDelay
F == INSTANCE FDelay

Line == INSTANCE DelayLine WITH line <- W!read(window)

(* create() refuses a maximum of 0. *)
NoDelay == [nmax |-> 0]
NewDelay(len) == IF len > 1 THEN F!create(Min({len - 1, MaxDelay})) ELSE NoDelay
Fed(q, batch) == IF q = NoDelay THEN q ELSE F!write(q, batch)

Init ==
  \E len \in Lengths :
    /\ window = W!create(len) /\ wdelay = D!create(len - 1)
    /\ fdelay = NewDelay(len) /\ choice = "none"

(* window_write, and its samples pushed one by one into the delay buffer. *)
Write(batch) ==
  /\ window' = W!write(window, batch)
  /\ wdelay' = D!pushes(wdelay, batch)
  /\ fdelay' = Fed(fdelay, batch)
  /\ choice' = IF choice = "chosen" /\ batch # <<>> THEN "used" ELSE choice

Recreate(len) ==
  /\ window' = W!recreate(window, len)
  /\ wdelay' = D!recreate(wdelay, len - 1)
  /\ fdelay' = Fed(NewDelay(len), W!read(window')) /\ choice' = "none"

Reset ==
  /\ window' = W!reset(window) /\ wdelay' = D!reset(wdelay)
  /\ fdelay' = (IF fdelay = NoDelay THEN fdelay ELSE F!reset(fdelay)) /\ choice' = "none"

AdjustDelay(delta) ==
  /\ fdelay # NoDelay
  /\ fdelay' = F!adjust_delay(fdelay, delta)
  /\ choice' = IF fdelay' = fdelay THEN choice ELSE "chosen"
  /\ UNCHANGED <<window, wdelay>>

Next ==
  \/ \E batch \in Line!Batches : Write(batch)
  \/ \E len \in Lengths : Recreate(len)
  \/ Reset
  \/ \E delta \in Deltas : AdjustDelay(delta) \/ AdjustDelay(-delta)

Spec == Init /\ [][Next]_vars

-----------------------------------------------------------------------------
(* Every access of push() is inside the allocation: the fields keep their
   ranges however the objects were re-created.                               *)
TypeOK ==
  /\ window.len \in Lengths /\ window.n = W!Ring(window.len)
  /\ window.read_index \in 0..(window.n - 1)
  /\ window.v \in [0..(window.n + window.len - 2) -> Values]
  /\ wdelay.delay + 1 \in Lengths
  /\ wdelay.read_index \in 0..wdelay.delay
  /\ wdelay.v \in [0..wdelay.delay -> Values]
  /\ fdelay # NoDelay =>
       /\ fdelay.delay \in 0..(fdelay.nmax * Grid)
       /\ fdelay.w_index \in 0..fdelay.nmax /\ fdelay.f_index \in 0..(npfb - 1)
       /\ fdelay.v \in Values
  /\ choice \in {"none", "chosen", "used"}

(* The window holds the newest samples in order: across the carry at the end
   of its ring, stale cells behind it, and re-creation: shorter, when the
   oldest go, or longer, when zeros come before them.                        *)
ImplementsDelayLine == Line!Spec

(* What src/include/liquid.h:1001-1003 says of making the window longer: "the
   newest values are retained at the beginning of the buffer and the oldest
   values are truncated".  However many are retained, one at least, the longer
   window would begin with them.  recreate() pushes zeros first and then every
   old value, so they are retained at its end and nothing is truncated.       *)
RetainedAtBeginning ==
  [][window'.len > window.len =>
       \E n \in 1..window.len :
         SubSeq(W!read(window'), 1, n) = Line!Newest(n, W!read(window))]_vars

(* What the delay buffer gives out is at all times the oldest sample of the
   window, "delay" samples old: no re-creation, whatever the place of
   read_index or the two lengths, drops, repeats or reorders what it holds.  *)
SameOldest == D!read(wdelay) = Head(W!read(window))

(* What the fractional delay feeds its filters is the sample of the window that
   is a whole number of samples old, and the filter takes it back by the rest:
   together, within half a filter, the delay get_delay() tells, at both ends of
   its range and where the fraction rounds up to a whole sample.  A delay has
   to be chosen for that: after create() and reset() it is told as 0 and is 1. *)
ReadsItsDelay ==
  LET age == fdelay.nmax - fdelay.w_index
      error == npfb * fdelay.delay - Grid * (npfb * age - fdelay.f_index)
  IN  choice = "used" => /\ fdelay.v = W!read(window)[window.len - age]
                         /\ 2 * error \in (-Grid)..Grid
=============================================================================

----------------------------- MODULE DelayLine -----------------------------
(***************************************************************************)
(* What a delay line promises: it holds the newest samples, as many as it   *)
(* is long, oldest first; zeros stand for samples never given.  A shorter   *)
(* line keeps the newest samples, a longer one all of them behind zeros, as *)
(* recreate() and its test have it (src/src/buffer/tests/                   *)
(* buffer_window_autotest.c:122-126).  Of a longer one the documentation    *)
(* says otherwise: RetainedAtBeginning of DelayLines.                       *)
(***************************************************************************)
EXTENDS Integers, Sequences

CONSTANTS Values,   \* the samples
          Zero,     \* the sample a cleared line holds
          Lengths,  \* lengths the line may be given
          Burst     \* most samples one call pushes

VARIABLE line

Zeros(n) == [i \in 1..n |-> Zero]
Newest(n, s) == SubSeq(s, Len(s) - n + 1, Len(s))
Batches == UNION {[1..n -> Values] : n \in 0..Burst}

Init == \E n \in Lengths : line = Zeros(n)

Put(batch) == line' = Newest(Len(line), line \o batch)
Resize(n) == line' = Newest(n, Zeros(n) \o line)
Clear == line' = Zeros(Len(line))

Next ==
  \/ \E batch \in Batches : Put(batch)
  \/ \E n \in Lengths : Resize(n)
  \/ Clear

Spec == Init /\ [][Next]_line
=============================================================================

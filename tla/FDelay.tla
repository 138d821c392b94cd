------------------------------- MODULE FDelay -------------------------------
(***************************************************************************)
(* The fractional delay, src/src/filter/src/fdelay.proto.c, as operators on *)
(* the record of its fields: a window for whole samples and, behind it, a   *)
(* bank of npfb filters for the rest.  Delays are counted in 1/Grid of a    *)
(* sample; v is the sample pushed into the bank last.                       *)
(***************************************************************************)
EXTENDS Integers, Sequences

CONSTANTS Zero, MaxBits, npfb, Grid

W == INSTANCE Window

(* A delay of 0 with the index of a delay of 1: until set_delay() is called
   the two disagree.                                                         *)
reset(q) ==
  [q EXCEPT !.delay = 0, !.w_index = q.nmax - 1, !.f_index = 0, !.v = Zero,
            !.w = W!reset(q.w)]

create(nmax) ==
  reset([nmax |-> nmax, delay |-> 0, w_index |-> 0, f_index |-> 0, v |-> Zero,
         w |-> W!create(nmax + 1)])

(* roundf() of npfb times the fraction. *)
Nearest(fraction) == (2 * npfb * fraction + Grid) \div (2 * Grid)

(* mutant: the fraction that rounds to a whole sample is not carried. *)
WithOffsetUncarried(q, offset) ==
  [q EXCEPT !.w_index = offset \div Grid,
            !.f_index = Nearest(offset % Grid) % npfb]
WithOffset(q, offset) ==
  [q EXCEPT !.w_index = (offset \div Grid) + (Nearest(offset % Grid) \div npfb),
            !.f_index = Nearest(offset % Grid) % npfb]

(* A delay out of range is refused and changes nothing. *)
set_delay(q, delay) ==
  IF delay \in 0..(q.nmax * Grid)
  THEN [WithOffset(q, q.nmax * Grid - delay) EXCEPT !.delay = delay]
  ELSE q

adjust_delay(q, delta) == set_delay(q, q.delay + delta)

push(q, x) ==
  LET w == W!push(q.w, x) IN [q EXCEPT !.w = w, !.v = W!read(w)[q.w_index + 1]]

write(q, batch) ==
  LET after[i \in 0..Len(batch)] == IF i = 0 THEN q ELSE push(after[i - 1], batch[i])
  IN  after[Len(batch)]
=============================================================================

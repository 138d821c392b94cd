------------------------------- MODULE WDelay -------------------------------
(***************************************************************************)
(* The delay buffer, src/src/buffer/src/wdelay.proto.c, as operators on the *)
(* record of its fields: a ring of delay + 1 cells.                         *)
(***************************************************************************)
EXTENDS Integers, Sequences

CONSTANT Zero

create(delay) ==
  [delay |-> delay, read_index |-> 0, v |-> [c \in 0..delay |-> Zero]]

reset(q) == [q EXCEPT !.read_index = 0, !.v = [c \in DOMAIN q.v |-> Zero]]

(* The sample pushed "delay" pushes before the newest. *)
read(q) == q.v[q.read_index]

push(q, x) ==
  [q EXCEPT !.v[q.read_index] = x,
            !.read_index = (q.read_index + 1) % (q.delay + 1)]

(* The samples of a batch, one push after another. *)
pushes(q, batch) ==
  LET after[i \in 0..Len(batch)] == IF i = 0 THEN q ELSE push(after[i - 1], batch[i])
  IN  after[Len(batch)]

(* mutant: the cells are copied as they lie. *)
RealignedNot(q) == [i \in 1..(q.delay + 1) |-> q.v[i - 1]]
(* The cells, oldest first. *)
Realigned(q) == [i \in 1..(q.delay + 1) |-> q.v[(i - 1 + q.read_index) % (q.delay + 1)]]

(* Every old cell is pushed again, also when the new ring is shorter. *)
recreate(q, delay) == pushes(create(delay), Realigned(q))
=============================================================================

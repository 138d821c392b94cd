------------------------------- MODULE Window -------------------------------
(***************************************************************************)
(* The sliding window, src/src/buffer/src/window.proto.c, as the operators  *)
(* its owners call on the record of its fields.  A ring of n cells, n the   *)
(* power of two above the length, is followed by len - 1 more so that the   *)
(* samples always lie in one piece behind read_index.                       *)
(***************************************************************************)
EXTENDS Integers, Sequences

CONSTANTS Zero, MaxBits

(* 1 << liquid_msb_index(len): the power of two in len + 1 .. 2 * len. *)
Ring(len) == 2 ^ (CHOOSE m \in 0..MaxBits : 2 ^ m > len /\ 2 ^ m <= 2 * len)

create(len) ==
  [len |-> len, n |-> Ring(len), read_index |-> 0,
   v |-> [c \in 0..(Ring(len) + len - 2) |-> Zero]]

reset(q) == [q EXCEPT !.read_index = 0, !.v = [c \in DOMAIN q.v |-> Zero]]

read(q) == [i \in 1..q.len |-> q.v[q.read_index + i - 1]]

(* mutant: the pointer runs one cell too far before it wraps. *)
NextIndexLate(q) == (q.read_index + 1) % (q.n + 1)
NextIndex(q) == (q.read_index + 1) % q.n

(* mutant: one cell too few is carried over. *)
CarriedShort(q) == [c \in DOMAIN q.v |-> IF c < q.len - 2 THEN q.v[c + q.n] ELSE q.v[c]]
(* memmove(v, v + n, len - 1), once per turn of the ring. *)
Carried(q) == [c \in DOMAIN q.v |-> IF c < q.len - 1 THEN q.v[c + q.n] ELSE q.v[c]]

push(q, x) ==
  LET r == NextIndex(q)
  IN [q EXCEPT !.read_index = r,
               !.v = [(IF r = 0 THEN Carried(q) ELSE q.v) EXCEPT ![r + q.len - 1] = x]]

write(q, batch) ==
  LET after[i \in 0..Len(batch)] == IF i = 0 THEN q ELSE push(after[i - 1], batch[i])
  IN  after[Len(batch)]

(* A longer window starts with zeros, a shorter one with the newest samples. *)
recreate(q, len) ==
  IF len = q.len THEN q
  ELSE IF len > q.len THEN write(create(len), [i \in 1..(len - q.len) |-> Zero] \o read(q))
  ELSE write(create(len), SubSeq(read(q), q.len - len + 1, q.len))
=============================================================================

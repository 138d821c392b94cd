------------------------------- MODULE CBuffer -------------------------------
(***************************************************************************)
(* The circular buffer of src/src/buffer/src/cbuffer.proto.c.  Storage is   *)
(* a ring of MaxSize cells followed by an extension of MaxRead - 1 cells;   *)
(* a read that would run over the end of the ring first copies the start    *)
(* of the ring into the extension ("linearize") so that the caller sees a   *)
(* contiguous slice through a plain pointer.                                *)
(***************************************************************************)
EXTENDS Integers, Sequences

CONSTANTS
  Values,     \* samples
  MaxSize,    \* cbuffer.max_size
  MaxRead,    \* cbuffer.max_read
  PushAtEnd   \* may the caller push while write_index is one past the ring?

ASSUME SizeAssumption == MaxSize \in Nat \ {0} /\ MaxRead \in Nat \ {0}
ASSUME ValuesAssumption == Values # {}
ASSUME ClientAssumption == PushAtEnd \in BOOLEAN

VARIABLES
  v,             \* the memory array
  num_elements,
  read_index,
  write_index,
  slice,         \* the (pointer, length) the caller holds from its last read
  call,          \* the last call: what, how many, which samples, status
  out            \* samples the last call gave its caller

vars == <<v, num_elements, read_index, write_index, slice, call, out>>

num_allocated == MaxSize + MaxRead - 1
Cells == 0..(num_allocated - 1)

Call(op, n, given, status) ==
  [op |-> op, n |-> n, given |-> given, status |-> status]
NoSlice == [start |-> 0, len |-> 0]

(* create_max: the array comes from malloc and holds whatever was there. *)
Init ==
  /\ v \in [Cells -> Values]
  /\ num_elements = 0
  /\ read_index = 0
  /\ write_index = 0
  /\ slice = NoSlice
  /\ call = Call("clear", 0, <<>>, "OK")
  /\ out = <<>>

(* What callers ask for: up to one more than the buffer can hold. *)
Counts == 0..(MaxSize + 1)
Batches == UNION {[1..n -> Values] : n \in Counts}

(* mutant: the ring is taken to be one cell longer. *)
WrapLate(i) == i % (MaxSize + 1)
Wrap(i) == i % MaxSize

(* mutant: one sample more than the space left is let in. *)
SpacePlusOne == MaxSize - num_elements + 1
Space == MaxSize - num_elements

AtMost(n, limit) == IF n < limit THEN n ELSE limit

(* memmove(v + to, src, n) for n samples of a sequence, from its item k + 1;
   cells past the allocation are not part of the model.                      *)
Store(mem, to, src, k, n) ==
  [c \in Cells |-> IF c \in to..(to + n - 1) THEN src[k + c - to + 1] ELSE mem[c]]

Refuse(op, n) ==
  /\ call' = Call(op, n, <<>>, "EIRANGE")
  /\ out' = <<>>
  /\ UNCHANGED <<v, num_elements, read_index, write_index, slice>>

Push(x) ==
  IF num_elements = MaxSize THEN Refuse("put", 1)
  ELSE /\ PushAtEnd \/ write_index # MaxSize
       /\ v' = Store(v, write_index, <<x>>, 0, 1)
       /\ write_index' = Wrap(write_index + 1)
       /\ num_elements' = num_elements + 1
       /\ call' = Call("put", 1, <<x>>, "OK") /\ out' = <<>>
       /\ UNCHANGED <<read_index, slice>>

(* k samples fit before the end of the ring; the rest goes to its start.  A
   write that ends exactly at the end leaves write_index = MaxSize.          *)
Write(batch) ==
  LET n == Len(batch)
      k == MaxSize - write_index
  IN IF n > Space THEN Refuse("put", n)
     ELSE /\ num_elements' = num_elements + n
          /\ IF n > k
             THEN /\ v' = Store(Store(v, write_index, batch, 0, k), 0, batch, k, n - k)
                  /\ write_index' = n - k
             ELSE /\ v' = Store(v, write_index, batch, 0, n)
                  /\ write_index' = write_index + n
          /\ call' = Call("put", n, batch, "OK") /\ out' = <<>>
          /\ UNCHANGED <<read_index, slice>>

(* release(n): the caller gives back what it read. *)
Release(n) ==
  IF n > num_elements THEN Refuse("drop", n)
  ELSE /\ read_index' = Wrap(read_index + n)
       /\ num_elements' = num_elements - n
       /\ slice' = NoSlice
       /\ call' = Call("drop", n, <<>>, "OK") /\ out' = <<>>
       /\ UNCHANGED <<v, write_index>>

Pop ==
  IF num_elements = 0 THEN Refuse("get", 1)
  ELSE /\ out' = <<v[read_index]>>
       /\ read_index' = Wrap(read_index + 1)
       /\ num_elements' = num_elements - 1
       /\ slice' = NoSlice
       /\ call' = Call("get", 1, <<>>, "OK")
       /\ UNCHANGED <<v, write_index>>

(* mutant: the last cell of the extension is not copied. *)
LinearizedShort(mem) ==
  [c \in Cells |-> IF c >= MaxSize /\ c < num_allocated - 1
                    THEN mem[c - MaxSize] ELSE mem[c]]

(* linearize: memmove(v + max_size, v, max_read - 1). *)
Linearized(mem) ==
  [c \in Cells |-> IF c >= MaxSize THEN mem[c - MaxSize] ELSE mem[c]]

(* read(requested): the caller gets a pointer to v[read_index]. *)
Read(requested) ==
  LET n == AtMost(AtMost(requested, num_elements), MaxRead)
  IN /\ v' = IF n > MaxSize - read_index THEN Linearized(v) ELSE v
     /\ slice' = [start |-> read_index, len |-> n]
     /\ out' = [i \in 1..n |-> v'[read_index + i - 1]]
     /\ call' = Call("peek", requested, <<>>, "OK")
     /\ UNCHANGED <<num_elements, read_index, write_index>>

(* mutant: the write index survives a reset. *)
ResetKeepsWrite ==
  /\ num_elements' = 0
  /\ read_index' = 0
  /\ slice' = NoSlice
  /\ call' = Call("clear", 0, <<>>, "OK") /\ out' = <<>>
  /\ UNCHANGED <<v, write_index>>

(* reset forgets the samples; memory keeps them. *)
Reset ==
  /\ num_elements' = 0
  /\ read_index' = 0
  /\ write_index' = 0
  /\ slice' = NoSlice
  /\ call' = Call("clear", 0, <<>>, "OK") /\ out' = <<>>
  /\ UNCHANGED v

Next ==
  \/ \E x \in Values : Push(x)
  \/ \E batch \in Batches : Write(batch)
  \/ Pop
  \/ \E n \in Counts : Read(n)
  \/ \E n \in Counts : Release(n)
  \/ Reset

Spec == Init /\ [][Next]_vars

-----------------------------------------------------------------------------
(* The samples held, oldest first. *)
Queue == [i \in 1..num_elements |-> v[Wrap(read_index + i - 1)]]

(* Every index stays in the range the code relies on; write_index alone may
   stand one past the ring.                                                  *)
TypeOK ==
  /\ v \in [Cells -> Values]
  /\ num_elements \in 0..MaxSize
  /\ read_index \in 0..(MaxSize - 1)
  /\ write_index \in 0..MaxSize
  /\ slice \in [start : 0..(MaxSize - 1), len : 0..MaxRead]
  /\ call \in [op : {"put", "get", "peek", "drop", "clear"}, n : Counts, given : Batches,
               status : {"OK", "EIRANGE"}]
  /\ out \in Batches

(* The three counters describe one queue: where the next write goes is where
   the oldest sample plus the fill level ends, across every mix of push,
   write, pop, release and reset.                                            *)
IndicesAgree == Wrap(write_index) = Wrap(read_index + num_elements)

(* The pointer read() handed out keeps showing the oldest samples, in order,
   through any number of later pushes and writes, and through further reads
   that re-linearize the extension under it, until samples are given back.   *)
SliceHolds ==
  /\ slice.len <= num_elements
  /\ slice.len > 0 => slice.start = read_index
  /\ \A i \in 1..slice.len : v[slice.start + i - 1] = Queue[i]

(* The buffer is a first-in/first-out queue of MaxSize samples. *)
Abstract == INSTANCE Fifo WITH queue <- Queue, Capacity <- MaxSize
ImplementsFifo == Abstract!Spec
=============================================================================

---------------------------- MODULE CBufferProofs ----------------------------
(***************************************************************************)
(* For every MaxSize, MaxRead and set of samples CBuffer keeps its indices  *)
(* and slices right, and implements Fifo as long as its caller does not     *)
(* push while write_index stands one past the ring.                         *)
(***************************************************************************)
EXTENDS CBuffer, SequenceTheorems, TLAPS

(* The inductive invariant: each of the three parts needs the others.  The
   indices say that a put lands outside the cells a slice shows; the types
   keep every sum of an index and a count below twice the ring.              *)
IInv == TypeOK /\ IndicesAgree /\ SliceHolds

(* The modulus the code writes, on the sums it is applied to. *)
LEMMA WrapCases ==
  \A i \in 0..(2 * MaxSize - 1) :
    Wrap(i) = IF i < MaxSize THEN i ELSE i - MaxSize
BY SizeAssumption DEF Wrap

(* A batch of the enumerated sizes is a sequence of samples. *)
LEMMA BatchIsSeq ==
  ASSUME NEW batch \in Batches
  PROVE  batch \in Seq(Values) /\ Len(batch) \in Counts
         /\ batch \in [1..Len(batch) -> Values]
<1>1. PICK n \in Counts : batch \in [1..n -> Values]
  BY DEF Batches
<1>2. n \in Nat
  BY SizeAssumption DEF Counts
<1>3. batch \in Seq(Values)
  BY <1>1, <1>2, SeqDef
<1>4. Len(batch) = n
  BY <1>1, <1>2, <1>3, LenProperties
<1> QED
  BY <1>1, <1>3, <1>4

LEMMA SampleIsBatch ==
  ASSUME NEW x \in Values
  PROVE  <<x>> \in Batches /\ Len(<<x>>) = 1 /\ <<x>>[1] = x
<1>1. <<x>> \in [1..1 -> Values]
  OBVIOUS
<1> QED
  BY <1>1, SizeAssumption DEF Batches, Counts

(* What a put must do to the memory: item k of the batch lands k - 1 cells
   after the youngest sample, and no other cell changes.                     *)
Puts(mem, batch) ==
  /\ mem \in [Cells -> Values]
  /\ \A k \in 1..Len(batch) :
       mem[Wrap(read_index + num_elements + k - 1)] = batch[k]
  /\ \A c \in Cells :
       (\A k \in 1..Len(batch) : c # Wrap(read_index + num_elements + k - 1))
         => mem[c] = v[c]

(* push() puts one sample, provided write_index is inside the ring. *)
LEMMA PushPuts ==
  ASSUME TypeOK, IndicesAgree, num_elements # MaxSize, write_index # MaxSize,
         NEW x \in Values
  PROVE  Puts(Store(v, write_index, <<x>>, 0, 1), <<x>>)
<1> DEFINE mem == Store(v, write_index, <<x>>, 0, 1)
<1>1. mem = [c \in Cells |-> IF c = write_index THEN x ELSE v[c]]
  BY SizeAssumption DEF Store, TypeOK, Cells, num_allocated
<1>2. mem \in [Cells -> Values]
  BY <1>1 DEF TypeOK
<1>3. /\ read_index + num_elements \in 0..(2 * MaxSize - 1)
      /\ write_index \in 0..(2 * MaxSize - 1)
      /\ write_index < MaxSize /\ write_index \in Cells
  BY SizeAssumption DEF TypeOK, Cells, num_allocated
<1>4. Wrap(read_index + num_elements + 1 - 1) = write_index
  <2>1. Wrap(write_index) = write_index
    BY <1>3, WrapCases
  <2>2. read_index + num_elements + 1 - 1 = read_index + num_elements
    BY <1>3
  <2> QED
    BY <2>1, <2>2 DEF IndicesAgree
<1>5. Len(<<x>>) = 1 /\ <<x>>[1] = x
  BY SampleIsBatch
<1> QED
  BY <1>1, <1>2, <1>3, <1>4, <1>5 DEF Puts

(* write() puts its batch, whether or not it wraps around. *)
LEMMA WritePuts ==
  ASSUME TypeOK, IndicesAgree, NEW batch \in Batches,
         Len(batch) <= MaxSize - num_elements
  PROVE  LET n == Len(batch)
             k == MaxSize - write_index
         IN Puts(IF n > k
                 THEN Store(Store(v, write_index, batch, 0, k), 0, batch, k, n - k)
                 ELSE Store(v, write_index, batch, 0, n), batch)
<1> DEFINE n == Len(batch)
           k == MaxSize - write_index
           mem == IF n > k
                  THEN Store(Store(v, write_index, batch, 0, k), 0, batch, k, n - k)
                  ELSE Store(v, write_index, batch, 0, n)
<1>1. /\ batch \in [1..n -> Values] /\ n \in Nat /\ n <= MaxSize
      /\ k \in 0..MaxSize /\ num_elements \in 0..MaxSize
      /\ write_index \in 0..MaxSize /\ read_index \in 0..(MaxSize - 1)
      /\ 0..(MaxSize - 1) \subseteq Cells /\ MaxSize \in Nat \ {0}
      /\ Cells \subseteq Nat
      /\ n <= MaxSize - num_elements /\ k = MaxSize - write_index
  BY SizeAssumption, BatchIsSeq DEF TypeOK, Cells, num_allocated, Counts
<1>2. Wrap(read_index + num_elements) =
        IF write_index = MaxSize THEN 0 ELSE write_index
  <2>1. Wrap(write_index) = IF write_index = MaxSize THEN 0 ELSE write_index
    BY <1>1, WrapCases
  <2> QED
    BY <2>1 DEF IndicesAgree
<1>3. \A i \in 1..n : Wrap(read_index + num_elements + i - 1) =
         IF i <= k THEN write_index + i - 1 ELSE i - k - 1
  <2> SUFFICES ASSUME NEW i \in 1..n
               PROVE  Wrap(read_index + num_elements + i - 1) =
                        IF i <= k THEN write_index + i - 1 ELSE i - k - 1
    OBVIOUS
  <2>1. /\ read_index + num_elements + i - 1 \in 0..(2 * MaxSize - 1)
        /\ read_index + num_elements \in 0..(2 * MaxSize - 1)
    BY <1>1
  <2>2. Wrap(read_index + num_elements + i - 1) =
          IF read_index + num_elements + i - 1 < MaxSize
          THEN read_index + num_elements + i - 1
          ELSE read_index + num_elements + i - 1 - MaxSize
    BY <1>1, <2>1, WrapCases
  <2>3. Wrap(read_index + num_elements) =
          IF read_index + num_elements < MaxSize
          THEN read_index + num_elements
          ELSE read_index + num_elements - MaxSize
    BY <1>1, <2>1, WrapCases
  <2> QED
    BY <1>1, <1>2, <2>2, <2>3
<1> HIDE DEF n, k
<1>4. \A c \in Cells : mem[c] =
         IF c >= write_index /\ c < write_index + n /\ c < MaxSize
         THEN batch[c - write_index + 1]
         ELSE IF c < n - k THEN batch[c + k + 1] ELSE v[c]
  <2> SUFFICES ASSUME NEW c \in Cells
               PROVE  mem[c] = IF c >= write_index /\ c < write_index + n /\ c < MaxSize
                               THEN batch[c - write_index + 1]
                               ELSE IF c < n - k THEN batch[c + k + 1] ELSE v[c]
    OBVIOUS
  <2>2. /\ (c \in write_index..(write_index + k - 1)) <=> (c >= write_index /\ c < MaxSize)
        /\ (c \in write_index..(write_index + n - 1)) <=> (c >= write_index /\ c < write_index + n)
        /\ (c \in 0..(0 + (n - k) - 1)) <=> (c < n - k)
    BY <1>1
  <2>3. CASE n > k
    <3>1. mem[c] = IF c < n - k THEN batch[k + c - 0 + 1]
                   ELSE IF c >= write_index /\ c < MaxSize
                        THEN batch[0 + c - write_index + 1] ELSE v[c]
      BY <2>2, <2>3 DEF Store
    <3> QED
      BY <1>1, <2>3, <3>1
  <2>4. CASE ~(n > k)
    <3>1. mem[c] = IF c >= write_index /\ c < write_index + n
                   THEN batch[0 + c - write_index + 1] ELSE v[c]
      BY <2>2, <2>4 DEF Store
    <3> QED
      BY <1>1, <2>4, <3>1
  <2> QED
    BY <2>3, <2>4
<1>5. mem \in [Cells -> Values]
  <2>1. mem = [c \in Cells |-> mem[c]]
    BY DEF Store
  <2>2. \A c \in Cells : mem[c] \in Values
    BY <1>1, <1>4 DEF TypeOK
  <2> QED
    BY <2>1, <2>2
<1> HIDE DEF mem
<1>6. \A i \in 1..n : mem[Wrap(read_index + num_elements + i - 1)] = batch[i]
  <2> SUFFICES ASSUME NEW i \in 1..n
               PROVE  mem[Wrap(read_index + num_elements + i - 1)] = batch[i]
    OBVIOUS
  <2> DEFINE c == Wrap(read_index + num_elements + i - 1)
  <2>1. c = IF i <= k THEN write_index + i - 1 ELSE i - k - 1
    BY <1>3
  <2>2. c \in Cells
    BY <1>1, <2>1
  <2>3. mem[c] = batch[i]
    <3> HIDE DEF c
    <3>1. CASE i <= k
      <4>1. c >= write_index /\ c < write_index + n /\ c < MaxSize
            /\ c - write_index + 1 = i
        BY <1>1, <2>1, <3>1
      <4> QED
        BY <1>4, <2>2, <4>1
    <3>2. CASE ~(i <= k)
      <4>1. /\ ~(c >= write_index /\ c < write_index + n /\ c < MaxSize)
            /\ c < n - k /\ c + k + 1 = i
        BY <1>1, <2>1, <3>2
      <4> QED
        BY <1>4, <2>2, <4>1
    <3> QED
      BY <3>1, <3>2
  <2> QED
    BY <2>3
<1>7. ASSUME NEW c \in Cells,
             \A i \in 1..n : c # Wrap(read_index + num_elements + i - 1)
      PROVE  mem[c] = v[c]
  <2>1. ~(c >= write_index /\ c < write_index + n /\ c < MaxSize)
    <3> SUFFICES ASSUME c >= write_index, c < write_index + n, c < MaxSize
                 PROVE  FALSE
      OBVIOUS
    <3> DEFINE i == c - write_index + 1
    <3>1. i \in 1..n /\ i <= k /\ write_index + i - 1 = c
      BY <1>1
    <3>2. Wrap(read_index + num_elements + i - 1) = c
      <4> HIDE DEF i
      <4> QED
        BY <1>3, <3>1
    <3> QED
      BY <1>7, <3>1, <3>2
  <2>2. ~(c < n - k)
    <3> SUFFICES ASSUME c < n - k
                 PROVE  FALSE
      OBVIOUS
    <3> DEFINE i == c + k + 1
    <3>1. i \in 1..n /\ ~(i <= k) /\ i - k - 1 = c
      BY <1>1
    <3>2. Wrap(read_index + num_elements + i - 1) = c
      <4> HIDE DEF i
      <4> QED
        BY <1>3, <3>1
    <3> QED
      BY <1>7, <3>1, <3>2
  <2> QED
    BY <1>4, <2>1, <2>2
<1> QED
  BY <1>5, <1>6, <1>7 DEF Puts, mem, n, k

(* The mapped queue is a sequence as long as the fill level says. *)
QueueShape ==
  /\ Queue \in Seq(Values) /\ Len(Queue) = num_elements
  /\ \A i \in 1..num_elements : /\ Wrap(read_index + i - 1) \in 0..(MaxSize - 1)
                                /\ Queue[i] = v[Wrap(read_index + i - 1)]

LEMMA QueueIsSeq == TypeOK => QueueShape
<1> SUFFICES ASSUME TypeOK
             PROVE  QueueShape
  OBVIOUS
<1>1. num_elements \in Nat /\ 0..(MaxSize - 1) \subseteq Cells
  BY SizeAssumption DEF TypeOK, Cells, num_allocated
<1>2. ASSUME NEW i \in 1..num_elements
      PROVE  Wrap(read_index + i - 1) \in 0..(MaxSize - 1)
  <2>1. read_index + i - 1 \in 0..(2 * MaxSize - 1) /\ MaxSize \in Nat
    BY SizeAssumption DEF TypeOK
  <2> QED
    BY <2>1, WrapCases
<1>3. Queue \in [1..num_elements -> Values]
  BY <1>1, <1>2 DEF Queue, TypeOK
<1>4. Queue \in Seq(Values)
  BY <1>1, <1>3, SeqDef
<1>5. Len(Queue) = num_elements
  BY <1>1, <1>3, <1>4, LenProperties
<1> QED
  BY <1>2, <1>4, <1>5 DEF Queue, QueueShape

(* A put touches neither a cell that holds a sample nor the extension. *)
LEMMA PutKeeps ==
  ASSUME TypeOK, NEW batch \in Batches, NEW mem,
         Len(batch) <= MaxSize - num_elements, Puts(mem, batch)
  PROVE  /\ \A i \in 1..num_elements :
              mem[Wrap(read_index + i - 1)] = v[Wrap(read_index + i - 1)]
         /\ \A c \in Cells : c >= MaxSize => mem[c] = v[c]
<1>1. /\ Len(batch) \in Nat /\ MaxSize \in Nat \ {0}
      /\ num_elements \in 0..MaxSize /\ read_index \in 0..(MaxSize - 1)
      /\ 0..(MaxSize - 1) \subseteq Cells /\ Cells \subseteq Nat
  BY SizeAssumption, BatchIsSeq DEF TypeOK, Cells, num_allocated, Counts
<1>2. \A k \in 1..Len(batch) :
        /\ read_index + num_elements + k - 1 \in 0..(2 * MaxSize - 1)
        /\ Wrap(read_index + num_elements + k - 1) =
             IF read_index + num_elements + k - 1 < MaxSize
             THEN read_index + num_elements + k - 1
             ELSE read_index + num_elements + k - 1 - MaxSize
  BY <1>1, WrapCases
<1>3. ASSUME NEW i \in 1..num_elements
      PROVE  mem[Wrap(read_index + i - 1)] = v[Wrap(read_index + i - 1)]
  <2>1. Wrap(read_index + i - 1) \in Cells
    BY <1>1, QueueIsSeq DEF QueueShape
  <2>2. /\ read_index + i - 1 \in 0..(2 * MaxSize - 1)
        /\ Wrap(read_index + i - 1) = IF read_index + i - 1 < MaxSize
                                      THEN read_index + i - 1
                                      ELSE read_index + i - 1 - MaxSize
    BY <1>1, WrapCases
  <2>3. \A k \in 1..Len(batch) :
          Wrap(read_index + i - 1) # Wrap(read_index + num_elements + k - 1)
    BY <1>1, <1>2, <2>2
  <2> QED
    BY <2>1, <2>3 DEF Puts
<1>4. ASSUME NEW c \in Cells, c >= MaxSize
      PROVE  mem[c] = v[c]
  <2>1. \A k \in 1..Len(batch) : c # Wrap(read_index + num_elements + k - 1)
    BY <1>1, <1>2, <1>4
  <2> QED
    BY <2>1 DEF Puts
<1> QED
  BY <1>3, <1>4

(* A put appends its batch to the queue and leaves the slice readable. *)
LEMMA PutAppends ==
  ASSUME IInv, TypeOK', NEW batch \in Batches,
         Len(batch) <= MaxSize - num_elements, Puts(v', batch),
         num_elements' = num_elements + Len(batch),
         UNCHANGED <<read_index, slice>>
  PROVE  Queue' = Queue \o batch /\ SliceHolds'
<1> USE DEF IInv
<1>1. /\ Len(batch) \in Nat /\ MaxSize \in Nat \ {0} /\ batch \in Seq(Values)
      /\ num_elements \in Nat /\ read_index \in 0..(MaxSize - 1)
      /\ slice.len \in Nat
  BY SizeAssumption, BatchIsSeq DEF TypeOK, Counts
<1>2. /\ Queue' \in Seq(Values) /\ Len(Queue') = num_elements'
      /\ \A i \in 1..num_elements' : Queue'[i] = v'[Wrap(read_index + i - 1)]
  <2>1. QueueShape'
    BY QueueIsSeq, PTL
  <2> QED
    BY <2>1 DEF QueueShape
<1>3. /\ Queue \in Seq(Values) /\ Len(Queue) = num_elements
      /\ \A i \in 1..num_elements : Queue[i] = v[Wrap(read_index + i - 1)]
  BY QueueIsSeq DEF QueueShape
<1>4. /\ Queue \o batch \in Seq(Values) /\ Len(Queue \o batch) = num_elements'
      /\ \A i \in 1..num_elements' : (Queue \o batch)[i] =
           IF i <= num_elements THEN Queue[i] ELSE batch[i - num_elements]
  <2>1. /\ Queue \o batch \in Seq(Values)
        /\ Len(Queue \o batch) = Len(Queue) + Len(batch)
        /\ \A i \in 1..(Len(Queue) + Len(batch)) : (Queue \o batch)[i] =
             IF i <= Len(Queue) THEN Queue[i] ELSE batch[i - Len(Queue)]
    BY <1>1, <1>3, ConcatProperties
  <2> QED
    BY <1>3, <2>1
<1>5. \A i \in 1..num_elements : Queue'[i] = Queue[i]
  <2>1. \A i \in 1..num_elements :
          v'[Wrap(read_index + i - 1)] = v[Wrap(read_index + i - 1)]
    BY PutKeeps
  <2>2. \A i \in 1..num_elements : i \in 1..num_elements'
    BY <1>1
  <2> QED
    BY <1>2, <1>3, <2>1, <2>2
<1>6. \A i \in 1..num_elements' : Queue'[i] = (Queue \o batch)[i]
  <2> SUFFICES ASSUME NEW i \in 1..num_elements'
               PROVE  Queue'[i] = (Queue \o batch)[i]
    OBVIOUS
  <2>1. CASE i <= num_elements
    BY <1>1, <1>4, <1>5, <2>1
  <2>2. CASE ~(i <= num_elements)
    <3>1. /\ i - num_elements \in 1..Len(batch)
          /\ num_elements + (i - num_elements) = i
          /\ read_index + num_elements + (i - num_elements) - 1 = read_index + i - 1
      BY <1>1, <2>2
    <3>2. v'[Wrap(read_index + i - 1)] = batch[i - num_elements]
      BY <3>1 DEF Puts
    <3> QED
      BY <1>2, <1>4, <2>2, <3>2
  <2> QED
    BY <2>1, <2>2
<1>7. Queue' = Queue \o batch
  BY <1>2, <1>4, <1>6, SeqEqual
<1>8. SliceHolds'
  <2>1. /\ slice'.len <= num_elements'
        /\ slice'.len > 0 => slice'.start = read_index'
    BY <1>1 DEF SliceHolds
  <2>2. ASSUME NEW i \in 1..slice'.len
        PROVE  v'[slice'.start + i - 1] = Queue'[i]
    <3>1. i \in 1..num_elements /\ slice.start = read_index /\ i \in 1..slice.len
      BY <1>1, <2>1 DEF SliceHolds
    <3>2. v[slice.start + i - 1] = Queue[i] /\ Queue'[i] = Queue[i]
      BY <1>5, <3>1 DEF SliceHolds
    <3>3. slice.start + i - 1 \in Cells
      BY <1>1, <3>1, SizeAssumption DEF TypeOK, Cells, num_allocated
    <3>4. CASE slice.start + i - 1 < MaxSize
      <4>1. Wrap(read_index + i - 1) = slice.start + i - 1
        BY <1>1, <3>1, <3>4, WrapCases
      <4> QED
        BY <1>2, <1>1, <3>1, <3>2, <4>1
    <3>5. CASE slice.start + i - 1 >= MaxSize
      BY <3>2, <3>3, <3>5, PutKeeps
    <3> QED
      BY <1>1, <3>1, <3>4, <3>5
  <2> QED
    BY <2>1, <2>2 DEF SliceHolds
<1> QED
  BY <1>7, <1>8

(* A call record and an output keep their types. *)
LEMMA CallType ==
  ASSUME NEW op \in {"put", "get", "peek", "drop", "clear"}, NEW n \in Counts,
         NEW given \in Batches, NEW status \in {"OK", "EIRANGE"}
  PROVE  /\ Call(op, n, given, status) \in
              [op : {"put", "get", "peek", "drop", "clear"}, n : Counts,
               given : Batches, status : {"OK", "EIRANGE"}]
         /\ <<>> \in Batches
<1>1. <<>> \in [1..0 -> Values]
  OBVIOUS
<1> QED
  BY <1>1, SizeAssumption DEF Call, Batches, Counts

LEMMA EmptyIsBatch == <<>> \in Batches /\ 0 \in Counts /\ 1 \in Counts
<1>1. <<>> \in [1..0 -> Values]
  OBVIOUS
<1> QED
  BY <1>1, SizeAssumption DEF Batches, Counts

(* A refused call changes nothing but the status, and is refused by Fifo. *)
LEMMA RefuseStep ==
  ASSUME IInv, NEW op \in {"put", "get", "drop"}, NEW n \in Counts, Refuse(op, n),
         \/ op = "put" /\ num_elements + n > MaxSize
         \/ op = "get" /\ n = 1 /\ num_elements = 0
         \/ op = "drop" /\ n > num_elements
  PROVE  IInv' /\ Abstract!Next
<1>1. /\ num_elements' = num_elements /\ read_index' = read_index
      /\ write_index' = write_index /\ v' = v /\ slice' = slice
      /\ out' = <<>> /\ call' = Call(op, n, <<>>, "EIRANGE")
  BY DEF Refuse
<1>2. Queue' = Queue
  BY <1>1 DEF Queue
<1>3. IInv'
  <2>1. TypeOK'
    BY <1>1, CallType, EmptyIsBatch DEF IInv, TypeOK, Cells, Counts, Batches
  <2>2. IndicesAgree' /\ SliceHolds'
    BY <1>1, <1>2 DEF IInv, IndicesAgree, SliceHolds
  <2> QED
    BY <2>1, <2>2 DEF IInv
<1>4. /\ Len(Queue) = num_elements
      /\ num_elements = 0 => Queue = <<>>
  <2>1. Len(Queue) = num_elements /\ Queue \in Seq(Values)
    BY QueueIsSeq DEF QueueShape, IInv
  <2>2. Queue # <<>> => Len(Queue) \in Nat \ {0}
    BY <2>1, EmptySeq
  <2> QED
    BY <2>1, <2>2
<1>5. Abstract!Refused(op, n)
  BY <1>1, <1>2, <1>4 DEF Abstract!Refused, Abstract!Call, Call
<1> QED
  BY <1>3, <1>5 DEF Abstract!Next, Abstract!Counts, Counts

(* An accepted put of either kind. *)
LEMMA PutStep ==
  ASSUME IInv, NEW batch \in Batches, Len(batch) <= MaxSize - num_elements,
         Puts(v', batch),
         num_elements' = num_elements + Len(batch),
         write_index' \in 0..MaxSize,
         Wrap(write_index') = Wrap(read_index + num_elements + Len(batch)),
         call' = Call("put", Len(batch), batch, "OK"), out' = <<>>,
         UNCHANGED <<read_index, slice>>
  PROVE  IInv' /\ Abstract!Next
<1>1. /\ Len(batch) \in Nat /\ Len(batch) \in Counts /\ num_elements \in 0..MaxSize
      /\ MaxSize \in Nat /\ read_index \in Nat
  BY BatchIsSeq, SizeAssumption DEF IInv, TypeOK, Counts
<1>2. TypeOK'
  <2>1. v' \in [Cells -> Values]
    BY DEF Puts
  <2>2. call' \in [op : {"put", "get", "peek", "drop", "clear"}, n : Counts,
                   given : Batches, status : {"OK", "EIRANGE"}]
    BY <1>1, CallType
  <2>3. num_elements' \in 0..MaxSize
    BY <1>1
  <2>4. out' \in Batches
    BY EmptyIsBatch
  <2> QED
    BY <2>1, <2>2, <2>3, <2>4 DEF IInv, TypeOK
<1>3. Queue' = Queue \o batch /\ SliceHolds'
  BY <1>2, PutAppends
<1>4. IndicesAgree'
  <2>1. read_index + (num_elements + Len(batch)) = read_index + num_elements + Len(batch)
    BY <1>1
  <2> QED
    BY <2>1 DEF IndicesAgree, Wrap
<1>5. Abstract!Put(batch)
  <2>1. Len(Queue) = num_elements
    BY QueueIsSeq DEF QueueShape, IInv
  <2> QED
    BY <1>1, <1>3, <2>1 DEF Abstract!Put, Abstract!Call, Call
<1>6. batch \in Abstract!Batches
  BY DEF Abstract!Batches, Abstract!Counts, Batches, Counts
<1> QED
  BY <1>2, <1>3, <1>4, <1>5, <1>6 DEF Abstract!Next, IInv

LEMMA PushStep ==
  ASSUME IInv, NEW x \in Values, Push(x), num_elements = MaxSize \/ write_index # MaxSize
  PROVE  IInv' /\ Abstract!Next
<1>1. /\ num_elements \in 0..MaxSize /\ MaxSize \in Nat \ {0}
      /\ read_index \in 0..(MaxSize - 1) /\ write_index \in 0..MaxSize
  BY SizeAssumption DEF IInv, TypeOK
<1>2. CASE num_elements = MaxSize
  BY <1>1, <1>2, RefuseStep, EmptyIsBatch DEF Push
<1>3. CASE num_elements # MaxSize
  <2>1. /\ write_index # MaxSize
        /\ v' = Store(v, write_index, <<x>>, 0, 1)
        /\ write_index' = Wrap(write_index + 1)
        /\ num_elements' = num_elements + 1
        /\ call' = Call("put", 1, <<x>>, "OK") /\ out' = <<>>
        /\ UNCHANGED <<read_index, slice>>
    BY <1>3 DEF Push
  <2>2. <<x>> \in Batches /\ Len(<<x>>) = 1
    BY SampleIsBatch
  <2>3. Puts(v', <<x>>)
    BY <1>3, <2>1, PushPuts DEF IInv
  <2>4. /\ write_index' \in 0..MaxSize
        /\ Wrap(write_index') = Wrap(read_index + num_elements + 1)
    <3>1. /\ write_index \in 0..(2 * MaxSize - 1)
          /\ write_index + 1 \in 0..(2 * MaxSize - 1)
          /\ read_index + num_elements \in 0..(2 * MaxSize - 1)
          /\ read_index + num_elements + 1 \in 0..(2 * MaxSize - 1)
          /\ 0 \in 0..(2 * MaxSize - 1)
      BY <1>1, <1>3, <2>1
    <3>2. Wrap(write_index) = Wrap(read_index + num_elements)
      BY DEF IInv, IndicesAgree
    <3>3. write_index' = IF write_index + 1 < MaxSize THEN write_index + 1 ELSE 0
      BY <1>1, <2>1, <3>1, WrapCases
    <3>4. Wrap(write_index') = write_index'
      BY <1>1, <2>1, <3>1, <3>3, WrapCases
    <3>5. Wrap(read_index + num_elements) = write_index
      BY <1>1, <2>1, <3>1, <3>2, WrapCases
    <3> QED
      BY <1>1, <2>1, <3>1, <3>3, <3>4, <3>5, WrapCases
  <2>5. 1 <= MaxSize - num_elements
    BY <1>1, <1>3
  <2> DEFINE batch == <<x>>
  <2>6. /\ batch \in Batches /\ Len(batch) = 1 /\ Puts(v', batch)
        /\ call' = Call("put", Len(batch), batch, "OK")
    BY <2>1, <2>2, <2>3
  <2> HIDE DEF batch
  <2> QED
    BY <2>1, <2>4, <2>5, <2>6, PutStep
<1> QED
  BY <1>2, <1>3

(* A push one past the ring loses its sample, but it counts it and goes on
   from the right place: it spares the cells of the queue, and of its slice.  *)
LEMMA LatePushStep ==
  ASSUME IInv, NEW x \in Values, Push(x), num_elements # MaxSize, write_index = MaxSize
  PROVE  IInv'
<1>1. /\ num_elements \in 0..MaxSize /\ MaxSize \in Nat \ {0}
      /\ read_index \in 0..(MaxSize - 1) /\ v \in [Cells -> Values] /\ Cells \subseteq Int
  BY SizeAssumption DEF IInv, TypeOK, Cells
<1>2. /\ v' = Store(v, MaxSize, <<x>>, 0, 1)
      /\ write_index' = Wrap(MaxSize + 1)
      /\ num_elements' = num_elements + 1
      /\ call' = Call("put", 1, <<x>>, "OK") /\ out' = <<>>
      /\ UNCHANGED <<read_index, slice>>
  BY DEF Push
<1>3. v' = [c \in Cells |-> IF c = MaxSize THEN x ELSE v[c]]
  <2>1. \A c \in Cells : c \in MaxSize..(MaxSize + 1 - 1) <=> c = MaxSize
    BY <1>1
  <2>2. \A c \in Cells : c = MaxSize => <<x>>[0 + c - MaxSize + 1] = x
    BY <1>1
  <2> QED
    BY <1>2, <2>1, <2>2 DEF Store
<1>4. \A i \in 0..(2 * MaxSize - 1) :
        Wrap(i) \in 0..(MaxSize - 1) /\ (Wrap(i) = 0 => i \in {0, MaxSize})
  BY <1>1, WrapCases
<1>5. read_index + num_elements <= MaxSize /\ read_index + num_elements \in Nat
  <2>1. /\ read_index + num_elements \in 0..(2 * MaxSize - 1)
        /\ MaxSize \in 0..(2 * MaxSize - 1)
    BY <1>1
  <2>2. Wrap(MaxSize) = 0
    BY <1>1, <2>1, WrapCases
  <2>3. Wrap(read_index + num_elements) = 0
    BY <2>2 DEF IInv, IndicesAgree
  <2> QED
    BY <1>1, <1>4, <2>1, <2>3
<1>6. TypeOK'
  <2>1. v' \in [Cells -> Values]
    BY <1>1, <1>3
  <2>2. call' \in [op : {"put", "get", "peek", "drop", "clear"}, n : Counts,
                   given : Batches, status : {"OK", "EIRANGE"}]
    BY <1>2, CallType, SampleIsBatch, EmptyIsBatch
  <2>3. num_elements' \in 0..MaxSize
    BY <1>1, <1>2
  <2>4. write_index' \in 0..MaxSize
    BY <1>1, <1>2, SizeAssumption DEF Wrap
  <2> QED
    BY <1>2, <2>1, <2>2, <2>3, <2>4, EmptyIsBatch DEF IInv, TypeOK
<1>7. IndicesAgree'
  <2>1. Wrap(MaxSize) = Wrap(read_index + num_elements)
    BY DEF IInv, IndicesAgree
  <2>2. CASE read_index + num_elements = 0
    <3>1. read_index + (num_elements + 1) = 1 /\ MaxSize + 1 = 1 + MaxSize
      BY <1>1, <2>2
    <3>2. (MaxSize + 1) % MaxSize = 1 % MaxSize /\ (1 % MaxSize) % MaxSize = 1 % MaxSize
      BY <1>1
    <3> QED
      BY <1>2, <3>1, <3>2 DEF IndicesAgree, Wrap
  <2>3. CASE read_index + num_elements = MaxSize
    <3>1. read_index + (num_elements + 1) = MaxSize + 1
      BY <1>1, <2>3
    <3>2. ((MaxSize + 1) % MaxSize) % MaxSize = (MaxSize + 1) % MaxSize
      BY <1>1
    <3> QED
      BY <1>2, <3>1, <3>2 DEF IndicesAgree, Wrap
  <2>4. read_index + num_elements \in {0, MaxSize}
    <3>1. read_index + num_elements \in 0..(2 * MaxSize - 1) /\ MaxSize \in 0..(2 * MaxSize - 1)
      BY <1>1
    <3>2. Wrap(MaxSize) = 0
      BY <1>1, <3>1, WrapCases
    <3> QED
      BY <1>4, <2>1, <3>1, <3>2
  <2> QED
    BY <2>2, <2>3, <2>4
<1>8. SliceHolds'
  <2>1. /\ slice.len \in Nat /\ slice.len <= num_elements
        /\ slice.len > 0 => slice.start = read_index
    BY SizeAssumption DEF IInv, TypeOK, SliceHolds
  <2>2. slice'.len <= num_elements' /\ (slice'.len > 0 => slice'.start = read_index')
    BY <1>1, <1>2, <2>1
  <2>3. ASSUME NEW i \in 1..slice.len PROVE v'[slice.start + i - 1] = Queue'[i]
    <3>1. /\ i \in 1..num_elements /\ i \in 1..(num_elements + 1)
          /\ slice.start = read_index
      BY <1>1, <2>1
    <3>2. read_index + i - 1 \in 0..(MaxSize - 1)
      BY <1>1, <1>5, <3>1
    <3>3. read_index + i - 1 \in Cells /\ read_index + i - 1 # MaxSize
      BY <1>1, <3>2, SizeAssumption DEF Cells, num_allocated
    <3>4. v'[read_index + i - 1] = v[read_index + i - 1]
      BY <1>3, <3>3
    <3>5. Wrap(read_index + i - 1) = read_index + i - 1
      BY <1>1, <3>2, WrapCases
    <3>6. Queue'[i] = v'[Wrap(read_index + i - 1)]
      BY <1>2, <3>1 DEF Queue
    <3> QED
      BY <3>1, <3>4, <3>5, <3>6
  <2> QED
    BY <1>2, <2>2, <2>3 DEF SliceHolds
<1> QED
  BY <1>6, <1>7, <1>8 DEF IInv

LEMMA WriteStep ==
  ASSUME IInv, NEW batch \in Batches, Write(batch)
  PROVE  IInv' /\ Abstract!Next
<1> DEFINE n == Len(batch)
           k == MaxSize - write_index
<1>1. /\ num_elements \in 0..MaxSize /\ MaxSize \in Nat \ {0}
      /\ read_index \in 0..(MaxSize - 1) /\ write_index \in 0..MaxSize
      /\ n \in Nat /\ n \in Counts
  BY SizeAssumption, BatchIsSeq DEF IInv, TypeOK, Counts
<1>2. CASE n > MaxSize - num_elements
  <2>1. Refuse("put", n)
    BY <1>2 DEF Write, Space
  <2> QED
    BY <1>1, <1>2, <2>1, RefuseStep
<1>3. CASE ~(n > MaxSize - num_elements)
  <2>1. /\ num_elements' = num_elements + n
        /\ v' = IF n > k
                THEN Store(Store(v, write_index, batch, 0, k), 0, batch, k, n - k)
                ELSE Store(v, write_index, batch, 0, n)
        /\ write_index' = IF n > k THEN n - k ELSE write_index + n
        /\ call' = Call("put", n, batch, "OK") /\ out' = <<>>
        /\ UNCHANGED <<read_index, slice>>
    BY <1>3 DEF Write, Space
  <2>2. n <= MaxSize - num_elements
    BY <1>1, <1>3
  <2>3. Puts(v', batch)
    BY <2>1, <2>2, WritePuts DEF IInv
  <2>4. /\ write_index' \in 0..MaxSize
        /\ Wrap(write_index') = Wrap(read_index + num_elements + n)
    <3> HIDE DEF n
    <3>1. /\ write_index \in 0..(2 * MaxSize - 1)
          /\ write_index' \in 0..MaxSize
          /\ write_index' \in 0..(2 * MaxSize - 1)
          /\ read_index + num_elements \in 0..(2 * MaxSize - 1)
          /\ read_index + num_elements + n \in 0..(2 * MaxSize - 1)
      BY <1>1, <2>1, <2>2
    <3>2. Wrap(write_index) = Wrap(read_index + num_elements)
      BY DEF IInv, IndicesAgree
    <3>3. /\ Wrap(write_index) = IF write_index < MaxSize THEN write_index ELSE 0
          /\ Wrap(write_index') = IF write_index' < MaxSize THEN write_index' ELSE 0
      BY <1>1, <3>1, WrapCases
    <3>4. /\ Wrap(read_index + num_elements) =
               IF read_index + num_elements < MaxSize
               THEN read_index + num_elements
               ELSE read_index + num_elements - MaxSize
          /\ Wrap(read_index + num_elements + n) =
               IF read_index + num_elements + n < MaxSize
               THEN read_index + num_elements + n
               ELSE read_index + num_elements + n - MaxSize
      BY <1>1, <3>1, WrapCases
    <3> QED
      BY <1>1, <2>1, <2>2, <3>1, <3>2, <3>3, <3>4
  <2> QED
    BY <2>1, <2>2, <2>3, <2>4, PutStep
<1> QED
  BY <1>2, <1>3

(* Advancing the read index by n drops the n oldest samples. *)
LEMMA DropShape ==
  ASSUME IInv, NEW n \in 0..num_elements,
         read_index' = Wrap(read_index + n),
         num_elements' = num_elements - n, v' = v, write_index' = write_index
  PROVE  /\ read_index' \in 0..(MaxSize - 1)
         /\ IndicesAgree'
         /\ TypeOK' => Queue' = SubSeq(Queue, n + 1, num_elements)
<1>1. /\ num_elements \in 0..MaxSize /\ MaxSize \in Nat \ {0}
      /\ read_index \in 0..(MaxSize - 1) /\ n \in Nat
  BY SizeAssumption DEF IInv, TypeOK
<1>2. /\ read_index + n \in 0..(2 * MaxSize - 1)
      /\ read_index' = IF read_index + n < MaxSize THEN read_index + n
                       ELSE read_index + n - MaxSize
  BY <1>1, WrapCases
<1>3. ASSUME NEW i \in 0..(num_elements - n)
      PROVE  Wrap(read_index' + i) = Wrap(read_index + n + i)
  <2>1. /\ read_index' + i \in 0..(2 * MaxSize - 1)
        /\ read_index + n + i \in 0..(2 * MaxSize - 1)
    BY <1>1, <1>2
  <2>2. /\ Wrap(read_index' + i) = IF read_index' + i < MaxSize
                                   THEN read_index' + i
                                   ELSE read_index' + i - MaxSize
        /\ Wrap(read_index + n + i) = IF read_index + n + i < MaxSize
                                      THEN read_index + n + i
                                      ELSE read_index + n + i - MaxSize
    BY <1>1, <2>1, WrapCases
  <2> QED
    BY <1>1, <1>2, <2>2
<1>4. IndicesAgree'
  <2>1. Wrap(read_index' + num_elements') = Wrap(read_index + num_elements)
    <3>1. num_elements - n \in 0..(num_elements - n)
          /\ read_index + n + (num_elements - n) = read_index + num_elements
      BY <1>1
    <3> QED
      BY <1>3, <3>1
  <2> QED
    BY <2>1 DEF IInv, IndicesAgree, Wrap
<1>5. ASSUME TypeOK'
      PROVE  Queue' = SubSeq(Queue, n + 1, num_elements)
  <2>1. QueueShape /\ QueueShape'
    BY <1>5, QueueIsSeq, PTL DEF IInv
  <2>2. /\ Queue' \in Seq(Values) /\ Len(Queue') = num_elements - n
        /\ \A i \in 1..(num_elements - n) : Queue'[i] = v[Wrap(read_index' + i - 1)]
    BY <2>1 DEF QueueShape
  <2>3. \A i \in 1..num_elements : Queue[i] \in Values
                                   /\ Queue[i] = v[Wrap(read_index + i - 1)]
    BY <2>1, ElementOfSeq DEF QueueShape
  <2>4. /\ SubSeq(Queue, n + 1, num_elements) \in Seq(Values)
        /\ Len(SubSeq(Queue, n + 1, num_elements)) = num_elements - n
        /\ \A i \in 1..(num_elements - n) :
             SubSeq(Queue, n + 1, num_elements)[i] = Queue[n + i]
    <3>1. \A i \in (n + 1)..num_elements : Queue[i] \in Values
      BY <1>1, <2>3
    <3>2. n + 1 \in Int /\ num_elements \in Int
      BY <1>1
    <3>3. /\ SubSeq(Queue, n + 1, num_elements) \in Seq(Values)
          /\ Len(SubSeq(Queue, n + 1, num_elements)) =
               IF n + 1 <= num_elements THEN num_elements - (n + 1) + 1 ELSE 0
          /\ \A i \in 1..(num_elements - (n + 1) + 1) :
               SubSeq(Queue, n + 1, num_elements)[i] = Queue[n + 1 + i - 1]
      BY <3>1, <3>2, SubSeqProperties
    <3>4. num_elements - (n + 1) + 1 = num_elements - n
          /\ \A i \in 1..(num_elements - n) : n + 1 + i - 1 = n + i
      BY <1>1
    <3> QED
      BY <1>1, <3>3, <3>4
  <2>5. ASSUME NEW i \in 1..(num_elements - n)
        PROVE  Queue'[i] = SubSeq(Queue, n + 1, num_elements)[i]
    <3>1. /\ i - 1 \in 0..(num_elements - n) /\ n + i \in 1..num_elements
          /\ read_index' + (i - 1) = read_index' + i - 1
          /\ read_index + n + (i - 1) = read_index + (n + i) - 1
      BY <1>1, <1>2
    <3>2. Wrap(read_index' + i - 1) = Wrap(read_index + (n + i) - 1)
      BY <1>3, <3>1
    <3> QED
      BY <2>2, <2>3, <2>4, <3>1, <3>2
  <2> QED
    BY <2>2, <2>4, <2>5, SeqEqual
<1>6. read_index' \in 0..(MaxSize - 1)
  BY <1>1, <1>2
<1> QED
  BY <1>4, <1>5, <1>6

LEMMA ReleaseStep ==
  ASSUME IInv, NEW n \in Counts, Release(n)
  PROVE  IInv' /\ Abstract!Next
<1>1. /\ num_elements \in 0..MaxSize /\ MaxSize \in Nat \ {0} /\ MaxRead \in Nat
      /\ n \in Nat
  BY SizeAssumption DEF IInv, TypeOK, Counts
<1>2. CASE n > num_elements
  BY <1>2, RefuseStep DEF Release
<1>3. CASE ~(n > num_elements)
  <2>1. /\ read_index' = Wrap(read_index + n) /\ num_elements' = num_elements - n
        /\ slice' = NoSlice /\ call' = Call("drop", n, <<>>, "OK") /\ out' = <<>>
        /\ v' = v /\ write_index' = write_index
    BY <1>3 DEF Release
  <2>2. n \in 0..num_elements
    BY <1>1, <1>3
  <2>3. /\ read_index' \in 0..(MaxSize - 1) /\ IndicesAgree'
        /\ TypeOK' => Queue' = SubSeq(Queue, n + 1, num_elements)
    BY <2>1, <2>2, DropShape
  <2>4. TypeOK'
    <3>1. call' \in [op : {"put", "get", "peek", "drop", "clear"}, n : Counts,
                     given : Batches, status : {"OK", "EIRANGE"}]
      BY <2>1, CallType, EmptyIsBatch
    <3>2. out' \in Batches
      BY <2>1, EmptyIsBatch
    <3>3. slice' \in [start : 0..(MaxSize - 1), len : 0..MaxRead]
      BY <1>1, <2>1 DEF NoSlice
    <3>4. num_elements' \in 0..MaxSize
      BY <1>1, <2>1, <2>2
    <3> QED
      BY <2>1, <2>3, <3>1, <3>2, <3>3, <3>4 DEF IInv, TypeOK
  <2>5. SliceHolds'
    BY <1>1, <2>1, <2>2 DEF SliceHolds, NoSlice
  <2>6. Abstract!Drop(n)
    <3>1. Len(Queue) = num_elements
      BY QueueIsSeq DEF QueueShape, IInv
    <3> QED
      BY <1>1, <2>1, <2>2, <2>3, <2>4, <3>1 DEF Abstract!Drop, Abstract!Call, Call
  <2> QED
    BY <2>3, <2>4, <2>5, <2>6 DEF IInv, Abstract!Next, Abstract!Counts, Counts
<1> QED
  BY <1>2, <1>3

LEMMA PopStep ==
  ASSUME IInv, Pop
  PROVE  IInv' /\ Abstract!Next
<1>1. /\ num_elements \in 0..MaxSize /\ MaxSize \in Nat \ {0} /\ MaxRead \in Nat
      /\ read_index \in 0..(MaxSize - 1)
  BY SizeAssumption DEF IInv, TypeOK
<1>2. CASE num_elements = 0
  BY <1>2, RefuseStep, EmptyIsBatch DEF Pop
<1>3. CASE num_elements # 0
  <2>1. /\ read_index' = Wrap(read_index + 1) /\ num_elements' = num_elements - 1
        /\ slice' = NoSlice /\ call' = Call("get", 1, <<>>, "OK")
        /\ out' = <<v[read_index]>> /\ v' = v /\ write_index' = write_index
    BY <1>3 DEF Pop
  <2>2. 1 \in 0..num_elements
    BY <1>1, <1>3
  <2>3. /\ read_index' \in 0..(MaxSize - 1) /\ IndicesAgree'
        /\ TypeOK' => Queue' = SubSeq(Queue, 1 + 1, num_elements)
    BY <2>1, <2>2, DropShape
  <2>4. TypeOK'
    <3>1. call' \in [op : {"put", "get", "peek", "drop", "clear"}, n : Counts,
                     given : Batches, status : {"OK", "EIRANGE"}]
      BY <2>1, CallType, EmptyIsBatch
    <3>2. out' \in Batches
      <4>1. v[read_index] \in Values
        BY <1>1, SizeAssumption DEF IInv, TypeOK, Cells, num_allocated
      <4> QED
        BY <2>1, <4>1, SampleIsBatch
    <3>3. slice' \in [start : 0..(MaxSize - 1), len : 0..MaxRead]
      BY <1>1, <2>1 DEF NoSlice
    <3>4. num_elements' \in 0..MaxSize
      BY <1>1, <1>3, <2>1
    <3> QED
      BY <2>1, <2>3, <3>1, <3>2, <3>3, <3>4 DEF IInv, TypeOK
  <2>5. SliceHolds'
    BY <1>1, <1>3, <2>1 DEF SliceHolds, NoSlice
  <2>6. Abstract!Get
    <3>1. Len(Queue) = num_elements /\ Queue \in Seq(Values)
          /\ Queue[1] = v[Wrap(read_index + 1 - 1)]
      BY <1>1, <1>3, QueueIsSeq DEF QueueShape, IInv
    <3>2. Wrap(read_index + 1 - 1) = read_index
      <4>1. read_index + 1 - 1 = read_index /\ read_index \in 0..(2 * MaxSize - 1)
        BY <1>1
      <4> QED
        BY <1>1, <4>1, WrapCases
    <3>3. Queue # <<>>
      BY <1>1, <1>3, <3>1, EmptySeq
    <3>4. Queue' = Tail(Queue)
      <4>1. Tail(Queue) = SubSeq(Queue, 2, Len(Queue))
        BY <3>1, <3>3, TailIsSubSeq
      <4> QED
        BY <2>3, <2>4, <3>1, <4>1
    <3>5. Head(Queue) = Queue[1]
      BY <3>1, <3>3
    <3> QED
      BY <2>1, <3>1, <3>2, <3>3, <3>4, <3>5 DEF Abstract!Get, Abstract!Call, Call
  <2> QED
    BY <2>3, <2>4, <2>5, <2>6 DEF IInv, Abstract!Next
<1> QED
  BY <1>2, <1>3

LEMMA ResetStep ==
  ASSUME IInv, Reset
  PROVE  IInv' /\ Abstract!Next
<1>1. /\ num_elements' = 0 /\ read_index' = 0 /\ write_index' = 0
      /\ slice' = NoSlice /\ call' = Call("clear", 0, <<>>, "OK") /\ out' = <<>>
      /\ v' = v
  BY DEF Reset
<1>2. TypeOK'
  <2>1. call' \in [op : {"put", "get", "peek", "drop", "clear"}, n : Counts,
                   given : Batches, status : {"OK", "EIRANGE"}]
    BY <1>1, CallType, EmptyIsBatch
  <2>2. slice' \in [start : 0..(MaxSize - 1), len : 0..MaxRead]
    BY <1>1, SizeAssumption DEF NoSlice
  <2> QED
    BY <1>1, <2>1, <2>2, EmptyIsBatch, SizeAssumption DEF IInv, TypeOK
<1>3. IndicesAgree' /\ SliceHolds'
  <2>1. 0 + 0 = 0
    OBVIOUS
  <2> QED
    BY <1>1, <2>1 DEF IndicesAgree, SliceHolds, NoSlice
<1>4. Queue' = <<>>
  <2>1. QueueShape'
    BY <1>2, QueueIsSeq, PTL
  <2>2. Queue' \in Seq(Values) /\ Len(Queue') = 0
    BY <1>1, <2>1 DEF QueueShape
  <2> QED
    BY <2>2, EmptySeq
<1>5. Abstract!Clear
  BY <1>1, <1>4 DEF Abstract!Clear, Abstract!Call, Call
<1> QED
  BY <1>2, <1>3, <1>5 DEF IInv, Abstract!Next

(* read() shows the oldest samples through its pointer, across the end of
   the ring too.                                                             *)
LEMMA ReadShows ==
  ASSUME IInv, NEW requested \in Counts, Read(requested)
  PROVE  /\ v' \in [Cells -> Values]
         /\ Queue' = Queue
         /\ slice'.start = read_index
         /\ slice'.len = AtMost(AtMost(requested, num_elements), MaxRead)
         /\ slice'.len \in 0..num_elements /\ slice'.len <= MaxRead
         /\ \A i \in 1..slice'.len : v'[read_index + i - 1] = Queue[i]
         /\ out' = [i \in 1..slice'.len |-> v'[read_index + i - 1]]
<1> DEFINE n == AtMost(AtMost(requested, num_elements), MaxRead)
<1>1. /\ num_elements \in 0..MaxSize /\ MaxSize \in Nat \ {0} /\ MaxRead \in Nat \ {0}
      /\ read_index \in 0..(MaxSize - 1) /\ requested \in Nat
      /\ Cells = 0..(MaxSize + MaxRead - 1 - 1)
      /\ v \in [Cells -> Values]
  BY SizeAssumption DEF IInv, TypeOK, Counts, Cells, num_allocated
<1>2. n \in 0..num_elements /\ n <= MaxRead
  BY <1>1 DEF AtMost
<1>3. /\ v' = IF n > MaxSize - read_index THEN Linearized(v) ELSE v
      /\ slice' = [start |-> read_index, len |-> n]
      /\ out' = [i \in 1..n |-> v'[read_index + i - 1]]
      /\ num_elements' = num_elements /\ read_index' = read_index
  BY DEF Read
<1> HIDE DEF n
<1>4. /\ v' \in [Cells -> Values]
      /\ \A c \in 0..(MaxSize - 1) : v'[c] = v[c]
  <2>1. CASE n > MaxSize - read_index
    <3>1. v' = [c \in Cells |-> IF c >= MaxSize THEN v[c - MaxSize] ELSE v[c]]
      BY <1>3, <2>1 DEF Linearized
    <3>2. \A c \in Cells : c >= MaxSize => c - MaxSize \in Cells
      BY <1>1
    <3> QED
      BY <1>1, <3>1, <3>2
  <2>2. CASE ~(n > MaxSize - read_index)
    BY <1>1, <1>3, <2>2
  <2> QED
    BY <2>1, <2>2
<1>5. \A i \in 1..num_elements : Wrap(read_index + i - 1) \in 0..(MaxSize - 1)
                                 /\ Queue[i] = v[Wrap(read_index + i - 1)]
  BY QueueIsSeq DEF QueueShape, IInv
<1>6. Queue' = Queue
  BY <1>3, <1>4, <1>5 DEF Queue, Wrap
<1>7. ASSUME NEW i \in 1..n
      PROVE  v'[read_index + i - 1] = Queue[i]
  <2>1. i \in 1..num_elements /\ read_index + i - 1 \in Cells
        /\ read_index + i - 1 \in 0..(2 * MaxSize - 1)
    BY <1>1, <1>2
  <2>2. CASE read_index + i - 1 < MaxSize
    <3>1. Wrap(read_index + i - 1) = read_index + i - 1
      BY <1>1, <2>1, <2>2, WrapCases
    <3> QED
      BY <1>4, <1>5, <2>1, <3>1
  <2>3. CASE ~(read_index + i - 1 < MaxSize)
    <3>1. Wrap(read_index + i - 1) = read_index + i - 1 - MaxSize
      BY <1>1, <2>1, <2>3, WrapCases
    <3>2. n > MaxSize - read_index
      BY <1>1, <1>2, <2>3
    <3>3. v'[read_index + i - 1] = v[read_index + i - 1 - MaxSize]
      BY <1>1, <1>3, <2>1, <2>3, <3>2 DEF Linearized
    <3> QED
      BY <1>5, <2>1, <3>1, <3>3
  <2> QED
    BY <2>2, <2>3
<1> QED
  BY <1>2, <1>3, <1>4, <1>6, <1>7 DEF n

LEMMA ReadStep ==
  ASSUME IInv, NEW requested \in Counts, Read(requested)
  PROVE  IInv' /\ Abstract!Next
<1> DEFINE n == AtMost(AtMost(requested, num_elements), MaxRead)
<1>1. /\ v' \in [Cells -> Values] /\ Queue' = Queue
      /\ slice'.start = read_index /\ slice'.len = n
      /\ slice' = [start |-> read_index, len |-> n]
      /\ n \in 0..num_elements /\ n <= MaxRead
      /\ \A i \in 1..n : v'[read_index + i - 1] = Queue[i]
      /\ out' = [i \in 1..n |-> v'[read_index + i - 1]]
      /\ call' = Call("peek", requested, <<>>, "OK")
      /\ UNCHANGED <<num_elements, read_index, write_index>>
  BY ReadShows DEF Read
<1>2. /\ num_elements \in 0..MaxSize /\ MaxSize \in Nat \ {0} /\ MaxRead \in Nat \ {0}
      /\ requested \in Nat
  BY SizeAssumption DEF IInv, TypeOK, Counts
<1>3. Queue \in Seq(Values) /\ Len(Queue) = num_elements
  BY QueueIsSeq DEF QueueShape, IInv
<1> HIDE DEF n
<1>4. \A i \in 1..n : Queue[i] \in Values
  BY <1>1, <1>2, <1>3, ElementOfSeq
<1>5. out' \in [1..n -> Values]
  BY <1>1, <1>4
<1>6. out' \in Batches
  BY <1>1, <1>2, <1>5 DEF Batches, Counts
<1>7. TypeOK'
  <2>1. call' \in [op : {"put", "get", "peek", "drop", "clear"}, n : Counts,
                   given : Batches, status : {"OK", "EIRANGE"}]
    BY <1>1, CallType, EmptyIsBatch
  <2>2. slice' \in [start : 0..(MaxSize - 1), len : 0..MaxRead]
    BY <1>1, <1>2 DEF IInv, TypeOK
  <2> QED
    BY <1>1, <1>6, <2>1, <2>2 DEF IInv, TypeOK
<1>8. IndicesAgree' /\ SliceHolds'
  BY <1>1, <1>2 DEF IInv, IndicesAgree, SliceHolds
<1>9. out' = SubSeq(Queue, 1, n)
  <2>1. /\ SubSeq(Queue, 1, n) \in Seq(Values)
        /\ Len(SubSeq(Queue, 1, n)) = n
        /\ \A i \in 1..n : SubSeq(Queue, 1, n)[i] = Queue[i]
    <3>1. 1 \in Int /\ n \in Int
      BY <1>1, <1>2
    <3>2. /\ SubSeq(Queue, 1, n) \in Seq(Values)
          /\ Len(SubSeq(Queue, 1, n)) = IF 1 <= n THEN n - 1 + 1 ELSE 0
          /\ \A i \in 1..(n - 1 + 1) : SubSeq(Queue, 1, n)[i] = Queue[1 + i - 1]
      BY <1>4, <3>1, SubSeqProperties
    <3>3. n - 1 + 1 = n /\ n \in Nat /\ \A i \in 1..n : 1 + i - 1 = i
      BY <1>1, <1>2
    <3> QED
      BY <3>2, <3>3
  <2>2. out' \in Seq(Values) /\ Len(out') = n
    <3>1. n \in Nat
      BY <1>1, <1>2
    <3>2. out' \in Seq(Values)
      BY <1>5, <3>1, SeqDef
    <3> QED
      BY <1>5, <3>1, <3>2, LenProperties
  <2> QED
    BY <1>1, <2>1, <2>2, SeqEqual
<1>10. Abstract!Peek(requested)
  BY <1>1, <1>3, <1>9
  DEF n, AtMost, Abstract!Peek, Abstract!AtMost, Abstract!Call, Call
<1> QED
  BY <1>7, <1>8, <1>10 DEF IInv, Abstract!Next, Abstract!Counts, Counts

(* Every step keeps the invariant, and all but that push are steps of the FIFO
   queue.                                                                    *)
LEMMA NextStep ==
  ASSUME IInv, Next
  PROVE  IInv' /\ (~PushAtEnd => Abstract!Next)
<1>1. ASSUME NEW x \in Values, Push(x)
      PROVE  IInv' /\ (~PushAtEnd => Abstract!Next)
  <2>1. CASE num_elements = MaxSize \/ write_index # MaxSize
    BY <1>1, <2>1, PushStep
  <2>2. CASE num_elements # MaxSize /\ write_index = MaxSize
    <3>1. PushAtEnd
      BY <1>1, <2>2 DEF Push
    <3> QED
      BY <1>1, <2>2, <3>1, LatePushStep
  <2> QED
    BY <2>1, <2>2
<1>2. ASSUME NEW batch \in Batches, Write(batch)
      PROVE  IInv' /\ Abstract!Next
  BY <1>2, WriteStep
<1>3. CASE Pop
  BY <1>3, PopStep
<1>4. ASSUME NEW n \in Counts, Read(n)
      PROVE  IInv' /\ Abstract!Next
  BY <1>4, ReadStep
<1>5. ASSUME NEW n \in Counts, Release(n)
      PROVE  IInv' /\ Abstract!Next
  BY <1>5, ReleaseStep
<1>6. CASE Reset
  BY <1>6, ResetStep
<1> QED
  BY <1>1, <1>2, <1>3, <1>4, <1>5, <1>6 DEF Next

LEMMA StutterStep ==
  ASSUME IInv, UNCHANGED vars
  PROVE  IInv' /\ UNCHANGED <<Queue, call, out>>
<1>1. Queue' = Queue
  BY DEF vars, Queue
<1> QED
  BY <1>1 DEF vars, IInv, TypeOK, IndicesAgree, SliceHolds

LEMMA InitHolds ==
  ASSUME Init
  PROVE  IInv /\ Abstract!Init
<1>1. TypeOK
  <2>1. call \in [op : {"put", "get", "peek", "drop", "clear"}, n : Counts,
                  given : Batches, status : {"OK", "EIRANGE"}]
    BY CallType, EmptyIsBatch DEF Init
  <2> QED
    BY <2>1, EmptyIsBatch, SizeAssumption DEF Init, TypeOK, NoSlice
<1>2. IndicesAgree /\ SliceHolds
  <2>1. 0 + 0 = 0
    OBVIOUS
  <2> QED
    BY <2>1 DEF Init, IndicesAgree, SliceHolds, NoSlice
<1>3. Queue = <<>>
  <2>1. Queue \in Seq(Values) /\ Len(Queue) = 0
    BY <1>1, QueueIsSeq DEF QueueShape, Init
  <2> QED
    BY <2>1, EmptySeq
<1> QED
  BY <1>1, <1>2, <1>3 DEF IInv, Init, Abstract!Init, Abstract!Call, Call

(* Types, indices and slices are right in every reachable state. *)
THEOREM Invariance == Spec => []IInv
<1>1. Init => IInv
  BY InitHolds
<1>2. IInv /\ [Next]_vars => IInv'
  BY NextStep, StutterStep
<1> QED
  BY <1>1, <1>2, PTL DEF Spec

(* No index leaves the range the memory is allocated for, however calls are
   mixed.                                                                    *)
THEOREM TypeTheorem == Spec => []TypeOK
<1>1. IInv => TypeOK
  BY DEF IInv
<1> QED
  BY <1>1, Invariance, PTL

(* The three counters never disagree, however calls are mixed. *)
THEOREM IndicesTheorem == Spec => [](TypeOK /\ IndicesAgree)
<1>1. IInv => TypeOK /\ IndicesAgree
  BY DEF IInv
<1> QED
  BY <1>1, Invariance, PTL

(* The pointer a read returned shows the oldest samples until some are given
   back, whatever else is called meanwhile.                                  *)
THEOREM SliceTheorem == Spec => []SliceHolds
<1>1. IInv => SliceHolds
  BY DEF IInv
<1> QED
  BY <1>1, Invariance, PTL

(* The circular buffer implements the first-in/first-out queue. *)
THEOREM RefinementTheorem ==
  ASSUME ~PushAtEnd
  PROVE  Spec => ImplementsFifo
<1>1. Init => Abstract!Init
  BY InitHolds
<1>2. IInv /\ [Next]_vars => [Abstract!Next]_(Abstract!vars)
  BY NextStep, StutterStep DEF Abstract!vars
<1> QED
  BY <1>1, <1>2, Invariance, PTL DEF Spec, ImplementsFifo, Abstract!Spec
=============================================================================

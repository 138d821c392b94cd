-------------------------------- MODULE Fifo --------------------------------
(***************************************************************************)
(* What a first-in/first-out sample buffer promises its caller: the         *)
(* samples come out in the order they went in, none is lost or repeated,    *)
(* and a call is refused exactly when the buffer cannot serve it, in which  *)
(* case nothing changes.  CBuffer is shown to implement it.                 *)
(***************************************************************************)
EXTENDS Integers, Sequences

CONSTANTS Values,    \* the samples
          Capacity,  \* the most samples held at once
          MaxRead    \* the most samples one read shows

VARIABLES queue,  \* the samples held, oldest first
          call,   \* the last call: what, how many, which samples, status
          out     \* the samples the last call gave its caller

vars == <<queue, call, out>>

Call(op, n, given, status) ==
  [op |-> op, n |-> n, given |-> given, status |-> status]

Init == queue = <<>> /\ call = Call("clear", 0, <<>>, "OK") /\ out = <<>>

Counts == 0..(Capacity + 1)
Batches == UNION {[1..n -> Values] : n \in Counts}

AtMost(n, limit) == IF n < limit THEN n ELSE limit

Put(batch) ==
  /\ Len(queue) + Len(batch) <= Capacity
  /\ queue' = queue \o batch
  /\ call' = Call("put", Len(batch), batch, "OK") /\ out' = <<>>

Get ==
  /\ queue # <<>>
  /\ queue' = Tail(queue)
  /\ call' = Call("get", 1, <<>>, "OK") /\ out' = <<Head(queue)>>

Peek(n) ==
  /\ out' = SubSeq(queue, 1, AtMost(AtMost(n, Len(queue)), MaxRead))
  /\ call' = Call("peek", n, <<>>, "OK") /\ UNCHANGED queue

Drop(n) ==
  /\ n <= Len(queue)
  /\ queue' = SubSeq(queue, n + 1, Len(queue))
  /\ call' = Call("drop", n, <<>>, "OK") /\ out' = <<>>

Clear == queue' = <<>> /\ call' = Call("clear", 0, <<>>, "OK") /\ out' = <<>>

(* A put is refused only for want of space, a get or a drop only for want of
   samples.                                                                  *)
Refused(op, n) ==
  /\ \/ op = "put" /\ Len(queue) + n > Capacity
     \/ op = "get" /\ n = 1 /\ queue = <<>>
     \/ op = "drop" /\ n > Len(queue)
  /\ call' = Call(op, n, <<>>, "EIRANGE") /\ out' = <<>> /\ UNCHANGED queue

Next ==
  \/ \E batch \in Batches : Put(batch)
  \/ Get
  \/ \E n \in Counts : Peek(n) \/ Drop(n)
  \/ Clear
  \/ \E op \in {"put", "get", "drop"}, n \in Counts : Refused(op, n)

Spec == Init /\ [][Next]_vars
=============================================================================

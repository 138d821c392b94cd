----------------------------- MODULE FrameSource -----------------------------
(***************************************************************************)
(* What a frame generator promises: after a frame is assembled its symbols  *)
(* come out one at a time, in order and each once - preamble, header,       *)
(* payload, then a tail of silence - and it reports the frame complete      *)
(* exactly when the last one is out.  Without a frame it emits silence.     *)
(* FlexFrameGen is shown to implement it.                                   *)
(***************************************************************************)
EXTENDS Integers, Sequences

CONSTANTS Preamble,     \* symbols of the preamble
          Tail_len,     \* symbols of silence after the payload
          HeaderLens,   \* lengths a header may have, in symbols
          PayloadLens,  \* lengths a payload may have, in symbols
          MaxFrames

VARIABLES todo,    \* symbols of the current frame that are still to come
          last,    \* the symbol emitted last
          done,    \* the frame was reported complete
          frame    \* the number of the current frame

vars == <<todo, last, done, frame>>

Symbol(f, part, i) == [frame |-> f, part |-> part, at |-> i]
Silence == Symbol(0, "none", 0)

(* Frame f, with h header and l payload symbols, in transmission order. *)
Frame(f, h, l) ==
  [i \in 1..(Preamble + h + l + Tail_len) |->
     IF i <= Preamble THEN Symbol(f, "preamble", i - 1)
     ELSE IF i <= Preamble + h THEN Symbol(f, "header", i - Preamble - 1)
     ELSE IF i <= Preamble + h + l THEN Symbol(f, "payload", i - Preamble - h - 1)
     ELSE Silence]

Init == todo = <<>> /\ last = Silence /\ done = FALSE /\ frame = 0

Assemble(h, l) ==
  /\ frame < MaxFrames
  /\ frame' = frame + 1
  /\ todo' = Frame(frame + 1, h, l)
  /\ done' = FALSE
  /\ UNCHANGED last

Emit ==
  IF todo = <<>>
  THEN last' = Silence /\ UNCHANGED <<todo, done, frame>>
  ELSE /\ last' = Head(todo)
       /\ todo' = Tail(todo)
       /\ done' = (Tail(todo) = <<>>)
       /\ UNCHANGED frame

Abandon == todo' = <<>> /\ done' = FALSE /\ UNCHANGED <<last, frame>>

Next ==
  \/ \E h \in HeaderLens, l \in PayloadLens : Assemble(h, l)
  \/ Emit
  \/ Abandon

Spec == Init /\ [][Next]_vars
=============================================================================

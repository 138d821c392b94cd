------------------------------ MODULE QDetector ------------------------------
(***************************************************************************)
(* The preamble detector, src/src/framing/src/qdetector.proto.c, as the     *)
(* operators its owner calls.  Samples are known by their number, counted   *)
(* modulo Window; whether a correlation peak clears the threshold, and      *)
(* where, is the signal's choice.                                           *)
(***************************************************************************)
EXTENDS Integers

CONSTANTS
  NFFT,       \* transform and buffer length
  SLen,       \* template length s_len
  Window,     \* modulus of the sample numbers
  ZeroIndex   \* may a peak be found at index 0 of the buffer?

ASSUME DetectorAssumption ==
  /\ SLen \in Nat \ {0} /\ NFFT \in Nat /\ NFFT % 2 = 0 /\ 2 * SLen <= NFFT
  /\ Window \in Nat /\ Window > NFFT
  /\ ZeroIndex \in BOOLEAN

VARIABLES
  qstate,      \* "SEEK" or "ALIGN"
  counter,     \* where the next sample is written
  buf_time_0,  \* samples waiting for a transform
  buf_time_1,  \* output of the inverse transform, or the aligned samples
  start        \* the sample the last peak was found at

qvars == <<qstate, counter, buf_time_0, buf_time_1, start>>

Samples == 0..(Window - 1)
Zero  == -1    \* a cleared cell
Noise == -2    \* a cell holding correlator output
Cells == Samples \cup {Zero, Noise}
Half  == NFFT \div 2
Index == 0..(NFFT - 1)

Successor(n) == (n + 1) % Window

create ==
  /\ qstate = "SEEK"
  /\ counter = Half
  /\ buf_time_0 = [j \in Index |-> Zero]
  /\ buf_time_1 = [j \in Index |-> Noise]
  /\ start = Zero

(* buf_time_1 keeps what it had. *)
reset ==
  /\ qstate' = "SEEK"
  /\ counter' = Half
  /\ buf_time_0' = [j \in Index |-> Zero]
  /\ start' = Zero
  /\ UNCHANGED buf_time_1

(* buf_time_0[counter++] = x.  With counter = NFFT the write falls behind the
   array and the sample is in no cell of it.                                 *)
Filled(x) == [j \in Index |-> IF j = counter THEN x ELSE buf_time_0[j]]

(* mutant: one cell too few is moved. *)
FromShort(b, r) == [j \in Index |-> IF j + r < NFFT - 1 THEN b[j + r] ELSE b[j]]
(* memmove(buf, buf + r, nfft - r) *)
From(b, r) == [j \in Index |-> IF j + r < NFFT THEN b[j + r] ELSE b[j]]

(* A peak counts when the template fits behind it; over cleared cells the
   correlation is zero.                                                      *)
Peaks(b) ==
  {r \in 0..(NFFT - SLen - 1) :
     /\ ZeroIndex \/ r # 0
     /\ \E j \in r..(r + SLen - 1) : b[j] # Zero}

Collect(x) ==
  /\ counter + 1 < NFFT
  /\ buf_time_0' = Filled(x)
  /\ counter' = counter + 1
  /\ UNCHANGED <<qstate, buf_time_1, start>>

(* No peak, or too little signal to transform (then buf_time_1 is spared). *)
Miss(x) ==
  /\ counter + 1 >= NFFT
  /\ buf_time_0' = From(Filled(x), Half)
  /\ counter' = Half
  /\ buf_time_1' \in {buf_time_1, [j \in Index |-> Noise]}
  /\ UNCHANGED <<qstate, start>>

Peak(x, r) ==
  /\ counter + 1 >= NFFT
  /\ qstate' = "ALIGN"
  /\ buf_time_0' = From(Filled(x), r)
  /\ counter' = NFFT - r
  /\ buf_time_1' = [j \in Index |-> Noise]
  /\ start' = Filled(x)[r]

execute_seek(x) ==
  /\ qstate = "SEEK"
  /\ \/ Collect(x)
     \/ Miss(x)
     \/ \E r \in Peaks(Filled(x)) : Peak(x, r)

(* The aligned samples are saved in buf_time_1 before the estimates are
   computed in place; the last half goes back to seeking.                    *)
Save(x) ==
  /\ counter + 1 >= NFFT
  /\ buf_time_1' = Filled(x)
  /\ buf_time_0' = [j \in Index |-> IF j < Half THEN Filled(x)[j + Half] ELSE Zero]
  /\ qstate' = "SEEK"
  /\ counter' = Half
  /\ UNCHANGED start

execute_align(x) ==
  /\ qstate = "ALIGN"
  /\ Collect(x) \/ Save(x)

(* execute() returns buf_time_1 in exactly the step that saves it. *)
Returns == qstate = "ALIGN" /\ counter + 1 >= NFFT
execute(x) == execute_seek(x) \/ execute_align(x)

(* y may follow x in the order the samples came. *)
Follows(x, y) == IF x = Zero THEN y # Noise ELSE y = Successor(x)
=============================================================================

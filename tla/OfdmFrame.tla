------------------------------ MODULE OfdmFrame ------------------------------
(***************************************************************************)
(* What both ends of an OFDM frame agree on: the sizes of one OFDM symbol   *)
(* and where a frame's parts lie, counted in samples from its first one     *)
(* (src/src/multichannel/src/ofdmframegen.c, figure above write_S0a).       *)
(***************************************************************************)
EXTENDS Integers

CONSTANTS
  M,          \* subcarriers
  cp_len,     \* cyclic prefix, in samples
  taper_len,  \* overlap of neighbouring symbols, in samples
  M_data,     \* data subcarriers
  header_bps  \* bits per header symbol

ASSUME OfdmAssumption ==
  /\ M \in Nat /\ M >= 8 /\ M % 2 = 0
  /\ cp_len \in 0..M /\ taper_len \in 0..cp_len
  /\ M_data \in 1..M /\ header_bps \in 1..8

M2 == M \div 2
frame_len == M + cp_len

(* The quotient rounded up, as div() and its remainder are used. *)
Quotient(n, d) == (n + d - 1) \div d

(* Two S0 symbols, then S1; OFDM symbol n of header and payload is the n-th
   after it.  The short sequence repeats every M2 samples up to S0Len.       *)
S0Len == 2 * frame_len
S1Start == 2 * frame_len + cp_len
SymbolStart(n) == (2 + n) * frame_len
=============================================================================

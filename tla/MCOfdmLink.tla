------------------------------ MODULE MCOfdmLink ------------------------------
(***************************************************************************)
(* OfdmLink for TLC: payloads of one and of two symbols, with bits that do  *)
(* and do not fill the last subcarrier.                                     *)
(***************************************************************************)
EXTENDS OfdmLink

MCPayloads == {[enc |-> 1, bps |-> 2], [enc |-> 4, bps |-> 5]}
=============================================================================

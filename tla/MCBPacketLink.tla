----------------------------- MODULE MCBPacketLink -----------------------------
(***************************************************************************)
(* BPacketLink for TLC: the P/N sequence and the header of the code, and    *)
(* a payload of 15 bytes.  Of the two lengths past the maximum the header   *)
(* says 0 and 1.                                                            *)
(***************************************************************************)
EXTENDS BPacketLink

MCGenPoly == <<1, 1, 0, 0, 0, 0>>
MCConfigs ==
  {[len |-> 3, crc |-> "crc32", fec0 |-> "hamming74", fec1 |-> "secded7264"],
   [len |-> 8, crc |-> "none", fec0 |-> "none", fec1 |-> "none"],
   [len |-> 9, crc |-> "crc8", fec0 |-> "none", fec1 |-> "none"]}
=============================================================================

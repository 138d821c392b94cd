------------------------------ MODULE Packetizer ------------------------------
(***************************************************************************)
(* The lengths of a packetizer, src/src/fec/src/packetizer.c, and what its  *)
(* decoder can say, for the schemes of a build without libfec               *)
(* (src/src/fec/src/fec.c, src/src/fec/src/crc.c).  A configuration is      *)
(* [len: bytes, crc, fec0, fec1]; the code's bits are not modelled.         *)
(***************************************************************************)
EXTENDS Integers

CrcLength ==
  [none |-> 0, checksum |-> 1, crc8 |-> 1, crc16 |-> 2, crc24 |-> 3, crc32 |-> 4]

Repetition == [none |-> 1, rep3 |-> 3, rep5 |-> 5]
Block == [hamming74 |-> <<4, 7>>, hamming84 |-> <<4, 8>>, hamming128 |-> <<8, 12>>,
          golay2412 |-> <<12, 24>>]
Secded == [secded2216 |-> 2, secded3932 |-> 4, secded7264 |-> 8]

Schemes == DOMAIN Repetition \cup DOMAIN Block \cup DOMAIN Secded
PacketConfigs == [len : Nat, crc : DOMAIN CrcLength, fec0 : Schemes, fec1 : Schemes]

(* The quotient rounded up. *)
Whole(n, d) == (n + d - 1) \div d

(* n bytes in blocks of m bits, each sent as k bits. *)
fec_block_get_enc_msg_len(n, m, k) == Whole(Whole(8 * n, m) * k, 8)

fec_get_enc_msg_length(fs, n) ==
  CASE fs \in DOMAIN Repetition -> Repetition[fs] * n
    [] fs \in DOMAIN Block  -> fec_block_get_enc_msg_len(n, Block[fs][1], Block[fs][2])
    [] fs \in DOMAIN Secded -> n + Whole(n, Secded[fs])

packetizer_compute_enc_msg_len(c) ==
  fec_get_enc_msg_length(c.fec1, fec_get_enc_msg_length(c.fec0, c.len + CrcLength[c.crc]))

(* What packetizer_decode() may return.  Without a check anything is valid.
   Otherwise what was not encoded by this configuration, or not received from
   its first bit to its last, fails; wrong bits may be repaired by a code.    *)
packetizer_decode(sent, mine, whole, hit) ==
  IF mine.crc = "none" THEN {TRUE}
  ELSE IF sent # mine \/ ~whole THEN {FALSE}
  ELSE IF ~hit THEN {TRUE}
  ELSE IF mine.fec0 = "none" /\ mine.fec1 = "none" THEN {FALSE}
  ELSE BOOLEAN
=============================================================================

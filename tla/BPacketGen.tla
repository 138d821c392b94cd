------------------------------ MODULE BPacketGen ------------------------------
(***************************************************************************)
(* The binary packet generator, src/src/framing/src/bpacketgen.c, and the   *)
(* m-sequence its packets begin with (src/src/sequence/src/msequence.c).    *)
(* A packet is what its header says and how its payload was encoded.        *)
(***************************************************************************)
EXTENDS Packetizer, Sequences, FiniteSets

CONSTANTS
  GenPoly,         \* generator polynomial, most significant bit first
  pnsequence_len,  \* bytes
  MaxPayloadLen,   \* LIQUID_MAX_PAYLOAD_LEN
  LengthField,     \* values of the header's length field, 2^16 in the code
  Configs          \* configurations the user asks for

ASSUME BPacketAssumption ==
  /\ GenPoly \in Seq({0, 1}) /\ Len(GenPoly) > 1
  /\ pnsequence_len \in Nat \ {0}
  /\ MaxPayloadLen \in Nat \ {0} /\ LengthField \in Nat /\ LengthField > MaxPayloadLen
  /\ Configs \subseteq PacketConfigs

VARIABLES
  gen_config,   \* dec_msg_len, crc, fec0, fec1
  gen_header,   \* what header_enc says
  gen_payload,  \* how p_payload is configured
  packet_len    \* bytes

bgen_vars == <<gen_config, gen_header, gen_payload, packet_len>>

PnBits == 8 * pnsequence_len

(* The shift register starts at 0..01 and is fed back the parity of its bits
   under the polynomial.                                                     *)
(* mutant: the taps are left out, the sequence repeats itself. *)
msequence_bitOldest(s) == s[1]
msequence_bit(s) ==
  Cardinality({i \in DOMAIN GenPoly : s[i] = 1 /\ GenPoly[i] = 1}) % 2
msequence_advance(s) == Append(Tail(s), msequence_bit(s))
shift_register[i \in 1..PnBits] ==
  IF i = 1 THEN [j \in DOMAIN GenPoly |-> IF j = Len(GenPoly) THEN 1 ELSE 0]
           ELSE msequence_advance(shift_register[i - 1])
pnsequence == [i \in 1..PnBits |-> msequence_bit(shift_register[i])]

HeaderConfig == [len |-> 6, crc |-> "crc16", fec0 |-> "none", fec1 |-> "hamming128"]
header_len == packetizer_compute_enc_msg_len(HeaderConfig)

(* Two bytes hold the length. *)
assemble_header(c) == [c EXCEPT !.len = @ % LengthField]

compute_packet_len(c) ==
  pnsequence_len + header_len + packetizer_compute_enc_msg_len(c)

BGenInit ==
  /\ gen_config \in Configs /\ gen_config.len \in 1..MaxPayloadLen
  /\ gen_header = assemble_header(gen_config) /\ gen_payload = gen_config
  /\ packet_len = compute_packet_len(gen_config)

(* The length is validated by create() only. *)
bpacketgen_recreate(c) ==
  /\ gen_config' = c /\ gen_payload' = c
  /\ packet_len' = compute_packet_len(c)
  /\ gen_header' = assemble_header(c)

(* The caller has packet_len bytes for what encode() writes, and sends them.
   encode() complains when it has written another number, but not to it.     *)
bpacketgen_encode ==
  [header |-> gen_header, payload |-> gen_payload, bits |-> 8 * packet_len]

(* Bit n of a packet, as far as it matters to the correlator, which is blind to
   the rest when it works: the header is zeros, and the payload, at its worst,
   begins with the P/N sequence.                                             *)
PacketBit(n) ==
  LET payload == PnBits + 8 * header_len
  IN  IF n <= PnBits THEN pnsequence[n]
      ELSE IF n \in (payload + 1)..(payload + PnBits) THEN pnsequence[n - payload]
      ELSE 0
=============================================================================

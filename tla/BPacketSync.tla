------------------------------ MODULE BPacketSync ------------------------------
(***************************************************************************)
(* The binary packet synchronizer, src/src/framing/src/bpacketsync.c, with  *)
(* its correlator (src/src/sequence/src/bsequence.c), one step for each bit *)
(* executed: execute(), execute_byte() and execute_sym() are loops of it.   *)
(* whole says that every bit since the P/N sequence is the next one of      *)
(* packet p with the polarity found, hit that one of them is wrong.         *)
(***************************************************************************)
EXTENDS BPacketGen

VARIABLES
  bstate, brx, byte_mask,
  num_bits_received, num_bytes_received,
  rx_config,        \* dec_msg_len, crc, fec0, fec1
  p_payload,        \* how the payload's packetizer is configured
  enc_msg_len, payload_enc_room, payload_dec_room,
  given             \* what the callback was given in this step

bcounters == <<num_bits_received, num_bytes_received>>
bconfig == <<p_payload, enc_msg_len, payload_enc_room, payload_dec_room>>
bsync_vars == <<bstate, brx, byte_mask, bcounters, rx_config, bconfig, given>>

Default == [len |-> 1, crc |-> "none", fec0 |-> "none", fec1 |-> "none"]
NoCall == [valid |-> FALSE, config |-> Default]
Zeros == [i \in 1..PnBits |-> 0]

BSyncInit ==
  /\ bstate = "SEEKPN" /\ brx = Zeros /\ byte_mask = 0
  /\ num_bits_received = 0 /\ num_bytes_received = 0
  /\ rx_config = Default /\ p_payload = Default
  /\ enc_msg_len = packetizer_compute_enc_msg_len(Default)
  /\ payload_enc_room = packetizer_compute_enc_msg_len(Default)
  /\ payload_dec_room = Default.len
  /\ given = NoCall

(* mutant: the counters are left. *)
bpacketsync_resetCounters ==
  /\ brx' = Zeros /\ byte_mask' = 0
  /\ bstate' = "SEEKPN"
  /\ UNCHANGED bcounters
bpacketsync_reset ==
  /\ brx' = Zeros /\ byte_mask' = 0
  /\ num_bits_received' = 0 /\ num_bytes_received' = 0
  /\ bstate' = "SEEKPN"

BReset == bpacketsync_reset /\ given' = NoCall /\ UNCHANGED <<rx_config, bconfig>>

bsequence_push(s, bit) == Append(Tail(s), bit)
bsequence_correlate(s) == Cardinality({i \in DOMAIN s : s[i] = pnsequence[i]})

(* mutant: inverted packets are not found. *)
foundUpright(rxy) == 5 * (2 * rxy - PnBits) > 4 * PnBits
(* |2 rxy / n - 1| > 0.8 *)
found(rxy) ==
  \/ 5 * (2 * rxy - PnBits) > 4 * PnBits
  \/ 5 * (PnBits - 2 * rxy) > 4 * PnBits

(* mutant: the mask is never set. *)
execute_seekpnUpright(bit) ==
  LET rx == bsequence_push(brx, bit)
      rxy == bsequence_correlate(rx)
  IN  /\ UNCHANGED <<bcounters, rx_config, bconfig, byte_mask>>
      /\ IF found(rxy)
         THEN bstate' = "RXHEADER" /\ brx' = Zeros
         ELSE brx' = rx /\ UNCHANGED bstate
(* brx is not looked at again before reset() clears it; it is cleared here. *)
execute_seekpn(bit) ==
  LET rx == bsequence_push(brx, bit)
      rxy == bsequence_correlate(rx)
  IN  /\ UNCHANGED <<bcounters, rx_config, bconfig>>
      /\ IF found(rxy)
         THEN /\ bstate' = "RXHEADER" /\ brx' = Zeros
              /\ byte_mask' = IF 2 * rxy > PnBits THEN 0 ELSE 1
         ELSE brx' = rx /\ UNCHANGED <<bstate, byte_mask>>

(* mutant: the packetizer is told, the buffers are not. *)
bpacketsync_reconfigBuffers(c) ==
  /\ p_payload' = c
  /\ enc_msg_len' = packetizer_compute_enc_msg_len(c)
  /\ UNCHANGED <<payload_enc_room, payload_dec_room>>
bpacketsync_reconfig(c) ==
  /\ p_payload' = c
  /\ enc_msg_len' = packetizer_compute_enc_msg_len(c)
  /\ payload_enc_room' = packetizer_compute_enc_msg_len(c)
  /\ payload_dec_room' = c.len

(* Bits are gathered into bytes, and bytes into a section of the packet. *)
Gather ==
  /\ num_bits_received' = (num_bits_received + 1) % 8
  /\ num_bytes_received' = num_bytes_received + (num_bits_received + 1) \div 8
  /\ UNCHANGED <<bstate, brx, byte_mask>>
SectionEnds(bytes) == num_bits_received = 7 /\ num_bytes_received + 1 = bytes

(* Length and schemes are overwritten before they are known to be valid. *)
decode_header(p, decoded) ==
  IF decoded
  THEN /\ rx_config' = p.header
       /\ IF p.header.len \in 1..MaxPayloadLen
          THEN /\ bpacketsync_reconfig(p.header)
               /\ bstate' = "RXPAYLOAD"
               /\ num_bits_received' = 0 /\ num_bytes_received' = 0
               /\ UNCHANGED <<brx, byte_mask>>
          ELSE bpacketsync_reset /\ UNCHANGED bconfig
  ELSE bpacketsync_reset /\ UNCHANGED <<rx_config, bconfig>>

execute_rxheader(p, whole, hit) ==
  IF SectionEnds(header_len)
  THEN \E decoded \in packetizer_decode(HeaderConfig, HeaderConfig, whole, hit) :
         decode_header(p, decoded)
  ELSE Gather /\ UNCHANGED <<rx_config, bconfig>>

(* mutant: a byte too few. *)
PayloadEndsEarly == SectionEnds(enc_msg_len - 1)
PayloadEnds == SectionEnds(enc_msg_len)
execute_rxpayload(p, whole, hit) ==
  /\ IF PayloadEnds
     THEN /\ \E valid \in packetizer_decode(p.payload, p_payload, whole, hit) :
               given' = [valid |-> valid, config |-> rx_config]
          /\ bpacketsync_reset
     ELSE Gather /\ given' = NoCall
  /\ UNCHANGED <<rx_config, bconfig>>

execute_bit(bit, p, whole, hit) ==
  \/ bstate = "SEEKPN" /\ execute_seekpn(bit) /\ given' = NoCall
  \/ bstate = "RXHEADER" /\ execute_rxheader(p, whole, hit) /\ given' = NoCall
  \/ bstate = "RXPAYLOAD" /\ execute_rxpayload(p, whole, hit)
=============================================================================

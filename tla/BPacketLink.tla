------------------------------ MODULE BPacketLink ------------------------------
(***************************************************************************)
(* A packet generator and a synchronizer over a line that inverts bits,     *)
(* loses one, repeats one or changes its polarity, or a user who resets the *)
(* synchronizer: one such trouble a packet.  Between packets the line       *)
(* idles; packets may also follow one another without a pause.              *)
(***************************************************************************)
EXTENDS BPacketSync

CONSTANTS
  Bursts,  \* lengths of runs of inverted bits
  Pauses   \* bits between packets, the largest for any more

ASSUME LinkAssumption ==
  Bursts \subseteq Nat \ {0} /\ Pauses \subseteq 0..PnBits /\ PnBits \in Pauses

VARIABLES
  packet, pos,  \* the packet on the line, and its bits sent so far
  paused,       \* bits since the last packet, counted up to PnBits
  polarity,     \* 1 when the line inverts
  trouble,      \* 0 when none yet, bits left of a burst, or -1 when over
  lock, wrong,  \* in step with the packet, with a wrong bit in this section
  armed, misses \* it was seeking when the packet began; wrong bits of its P/N

line_vars == <<packet, pos, paused, polarity, trouble, lock, wrong, armed, misses>>
vars == <<bgen_vars, bsync_vars, line_vars>>

NoPacket == [header |-> Default, payload |-> Default, bits |-> 0]

Init ==
  /\ BGenInit /\ BSyncInit
  /\ packet = NoPacket /\ pos = 0 /\ paused = 0 /\ polarity \in {0, 1} /\ trouble = -1
  /\ lock = FALSE /\ wrong = FALSE /\ armed = FALSE /\ misses = 0

Idle == pos = packet.bits
Flip(bit, invert) == (bit + invert) % 2

(* Fewer than one in ten bits of the P/N sequence wrong, and none behind it. *)
Fair(bad, n) ==
  /\ armed \/ (pos = 0 /\ bstate = "SEEKPN")
  /\ bad => pos < PnBits
  /\ 10 * n < PnBits

(* The receiver's side of a step: n is the place of the bit in the packet,
   next that it is the one after the bit before.                             *)
Hear(n, bit, next, bad) ==
  LET w == lock /\ next
      h == wrong \/ bad
  IN  /\ execute_bit(Flip(bit, polarity'), packet, w, h)
      /\ lock' = IF bstate = "SEEKPN"
                 THEN bstate' = "RXHEADER" /\ n = PnBits /\ byte_mask' = polarity'
                 ELSE w /\ bstate' # "SEEKPN"
      /\ wrong' = (h /\ bstate' = bstate /\ lock')

Send ==
  /\ ~Idle
  /\ pos' = pos + 1
  /\ UNCHANGED <<packet, paused, polarity, bgen_vars>>
  /\ \E bad \in BOOLEAN :
       /\ \/ bad /\ trouble > 0
             /\ trouble' = IF trouble > 1 THEN trouble - 1 ELSE -1
          \/ ~bad /\ trouble <= 0 /\ UNCHANGED trouble
       /\ misses' = IF pos >= PnBits THEN 0 ELSE IF bad THEN misses + 1 ELSE misses
       /\ armed' = Fair(bad, misses')
       /\ Hear(pos', Flip(PacketBit(pos'), IF bad THEN 1 ELSE 0), TRUE, bad)

(* Trouble comes once a packet, beside the edge of a byte, and where it can
   tell: in the P/N sequence, and where the synchronizer is not seeking.     *)
Exposed ==
  /\ ~Idle /\ trouble = 0 /\ pos % 8 \in {0, 7}
  /\ pos < PnBits \/ bstate # "SEEKPN"

Burst ==
  /\ Exposed
  /\ trouble' \in Bursts
  /\ UNCHANGED <<packet, pos, paused, polarity, lock, wrong, armed, misses>>
  /\ UNCHANGED <<bgen_vars, bsync_vars>>

(* A bit is lost, sent twice, or the first of the other polarity. *)
Slip ==
  /\ Exposed /\ trouble' = -1
  /\ \/ pos + 2 <= packet.bits /\ pos' = pos + 2 /\ UNCHANGED polarity
     \/ pos > 0 /\ pos' = pos /\ UNCHANGED polarity
     \/ pos' = pos + 1 /\ polarity' = 1 - polarity
  /\ armed' = FALSE /\ misses' = 0
  /\ Hear(pos', PacketBit(pos'), FALSE, FALSE)
  /\ UNCHANGED <<packet, paused, bgen_vars>>

(* The idle line is at 1, or at 0 when it inverts. *)
Pause ==
  /\ Idle
  /\ packet' = NoPacket /\ pos' = 0 /\ trouble' = -1
  /\ paused' = IF paused < PnBits THEN paused + 1 ELSE paused
  /\ armed' = FALSE /\ misses' = 0
  /\ UNCHANGED <<polarity, bgen_vars>>
  /\ Hear(0, 1, FALSE, FALSE)

Encode ==
  /\ Idle /\ paused \in Pauses /\ paused' = 0
  /\ packet' = bpacketgen_encode
  /\ pos' = 0 /\ trouble' = 0 /\ armed' = FALSE /\ misses' = 0
  /\ lock' = FALSE /\ wrong' = FALSE
  /\ given' = NoCall
  /\ UNCHANGED <<bstate, brx, byte_mask, bcounters, rx_config, bconfig>>
  /\ UNCHANGED <<polarity, bgen_vars>>

(* encode() has copied all it needs: recreate() may come at any time, and is
   called between packets here.                                              *)
Recreate ==
  /\ Idle
  /\ \E c \in Configs : bpacketgen_recreate(c)
  /\ UNCHANGED <<line_vars, bsync_vars>>

(* The user has the line in bytes. *)
Reset ==
  /\ Exposed /\ trouble' = -1 /\ pos % 8 = 0
  /\ BReset
  /\ lock' = FALSE /\ wrong' = FALSE /\ armed' = FALSE /\ misses' = 0
  /\ UNCHANGED <<packet, pos, paused, polarity, bgen_vars>>

Next == Send \/ Burst \/ Slip \/ Pause \/ Encode \/ Recreate \/ Reset

Spec == Init /\ [][Next]_vars
-----------------------------------------------------------------------------
Deliverable(c) == c.len \in 1..MaxPayloadLen

(* Every variable has its type and every counter its range. *)
TypeOK ==
  /\ gen_config \in Configs /\ gen_payload \in Configs /\ packet_len \in Nat
  /\ gen_header \in PacketConfigs /\ gen_header.len < LengthField
  /\ bstate \in {"SEEKPN", "RXHEADER", "RXPAYLOAD"}
  /\ brx \in [1..PnBits -> {0, 1}] /\ byte_mask \in {0, 1}
  /\ num_bits_received \in 0..7
  /\ bstate = "SEEKPN" => num_bits_received = 0 /\ num_bytes_received = 0
  /\ bstate = "RXHEADER" => num_bytes_received < header_len
  /\ rx_config \in PacketConfigs /\ p_payload \in PacketConfigs
  /\ pos \in 0..packet.bits /\ polarity \in {0, 1}

(* While a payload is gathered, its buffers, its packetizer and what the
   callback will be told are of the same packet, however many invalid headers
   have overwritten the fields before, and the next byte has room.           *)
BuffersMatch ==
  bstate = "RXPAYLOAD" =>
    /\ rx_config = p_payload /\ payload_dec_room = p_payload.len
    /\ payload_enc_room = packetizer_compute_enc_msg_len(p_payload)
    /\ num_bytes_received < payload_enc_room

(* A packet that finds the synchronizer seeking, with fewer than one in ten
   bits of its P/N sequence wrong and none behind it, is delivered at its last
   bit, valid and with its length and schemes, in either polarity and whatever
   the correlator still held when it began; nothing is delivered before.     *)
DeliversOnTime ==
  armed /\ pos > 0 /\ Deliverable(packet.payload) =>
    given = IF pos = packet.bits THEN [valid |-> TRUE, config |-> packet.payload]
                                 ELSE NoCall

(* Nothing is taken for the P/N sequence of such a packet before its last bit:
   neither a part of it after what the correlator held, nor its inverse.     *)
NoEarlyAlarm == armed /\ pos \in 1..(PnBits - 1) => bstate = "SEEKPN"

(* At its last bit it is found, wrong bits and all, and with the polarity of
   the line.                                                                 *)
PnFound == armed /\ pos = PnBits => lock

(* A payload with a check is reported valid only at the last bit of its packet,
   with the length and the schemes its sender gave it: never for a bit lost or
   repeated, a polarity that changed, or a length the header cannot say.     *)
ValidIsWhole ==
  given.valid /\ given.config.crc # "none" =>
    pos = packet.bits /\ given.config = packet.payload
=============================================================================

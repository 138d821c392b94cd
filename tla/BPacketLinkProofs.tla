--------------------------- MODULE BPacketLinkProofs ---------------------------
(***************************************************************************)
(* For every generator polynomial, every length of P/N sequence and every   *)
(* configuration: a synchronizer that found a P/N sequence, the right one   *)
(* or not, gathers no more than its buffers hold, and reports as valid only *)
(* what it heard to its last bit; one that takes nothing for a P/N sequence *)
(* too soon finds the right one and delivers.  That it takes nothing, which *)
(* is the m-sequence's merit, is left to TLC.                               *)
(***************************************************************************)
EXTENDS BPacketLink, FiniteSetTheorems, SequenceTheorems, TLAPS

GenTypes ==
  /\ gen_config \in Configs /\ gen_payload \in Configs /\ packet_len \in Nat
  /\ gen_header \in PacketConfigs /\ gen_header.len < LengthField
SyncTypes ==
  /\ bstate \in {"SEEKPN", "RXHEADER", "RXPAYLOAD"}
  /\ brx \in [1..PnBits -> {0, 1}] /\ byte_mask \in {0, 1}
  /\ num_bits_received \in 0..7
  /\ bstate = "SEEKPN" => num_bits_received = 0 /\ num_bytes_received = 0
  /\ bstate = "RXHEADER" => num_bytes_received < header_len
  /\ rx_config \in PacketConfigs /\ p_payload \in PacketConfigs
LineTypes == pos \in 0..packet.bits /\ polarity \in {0, 1}

(* What the generator was configured with is what its packets are made of. *)
Packets ==
  /\ packet_len = compute_packet_len(gen_payload)
  /\ packet \in [header : PacketConfigs, payload : PacketConfigs, bits : Nat]
  /\ packet.bits = 0 \/ packet.bits = 8 * compute_packet_len(packet.payload)

(* In its payload the synchronizer counts to the length of the header it
   decoded, not of one it only read.                                         *)
Gathering ==
  /\ num_bytes_received \in Nat
  /\ BuffersMatch
  /\ bstate = "RXPAYLOAD" => enc_msg_len = packetizer_compute_enc_msg_len(p_payload)

(* Bits gathered since the P/N sequence. *)
Counted ==
  (IF bstate = "RXPAYLOAD" THEN 8 * header_len ELSE 0)
  + 8 * num_bytes_received + num_bits_received

(* In lock, they are the place in the packet. *)
Locked == lock => bstate \in {"RXHEADER", "RXPAYLOAD"} /\ pos = PnBits + Counted

IInv == GenTypes /\ SyncTypes /\ LineTypes /\ Packets /\ Gathering /\ Locked /\ ValidIsWhole

-----------------------------------------------------------------------------
(* Lengths. *)

LEMMA WholeIs ==
  ASSUME NEW n \in Nat, NEW d \in Nat \ {0}
  PROVE  Whole(n, d) \in Nat /\ n <= d * Whole(n, d)
<1> DEFINE q == (n + d - 1) \div d
<1>1. q \in Int /\ d * q <= n + d - 1 /\ n + d - 1 < d * q + d
  OBVIOUS
<1>2. q >= 0
  <2> HIDE DEF q
  <2>1. CASE q <= -1
    <3>1. d * q <= -d
      BY <1>1, <2>1
    <3> QED
      BY <1>1, <3>1
  <2> QED
    BY <1>1, <2>1
<1>3. n <= d * q
  <2> HIDE DEF q
  <2> QED
    BY <1>1
<1> QED
  BY <1>1, <1>2, <1>3 DEF Whole

(* A block code is no shorter than what it codes. *)
LEMMA BlockLonger ==
  ASSUME NEW n \in Nat, NEW m \in Nat \ {0}, NEW k \in Nat, m <= k
  PROVE  /\ fec_block_get_enc_msg_len(n, m, k) \in Nat
         /\ fec_block_get_enc_msg_len(n, m, k) >= n
<1> DEFINE q == Whole(8 * n, m)
<1>1. q \in Nat /\ 8 * n <= m * q
  BY WholeIs
<1> HIDE DEF q
<1>2. (k - m) * q >= 0 /\ (k - m) * q = k * q - m * q /\ q * k = k * q /\ q * k \in Nat
      /\ m * q \in Int
  BY <1>1
<1>3. 8 * n <= q * k
  BY <1>1, <1>2
<1>4. Whole(q * k, 8) \in Nat /\ q * k <= 8 * Whole(q * k, 8)
  BY <1>2, WholeIs
<1>5. n <= Whole(q * k, 8)
  BY <1>2, <1>3, <1>4
<1> QED
  BY <1>4, <1>5 DEF fec_block_get_enc_msg_len, q

LEMMA FecLonger ==
  ASSUME NEW fs \in Schemes, NEW n \in Nat
  PROVE  fec_get_enc_msg_length(fs, n) \in Nat /\ fec_get_enc_msg_length(fs, n) >= n
<1>1. /\ DOMAIN Repetition = {"none", "rep3", "rep5"}
      /\ DOMAIN Block = {"hamming74", "hamming84", "hamming128", "golay2412"}
      /\ DOMAIN Secded = {"secded2216", "secded3932", "secded7264"}
  BY DEF Repetition, Block, Secded
<1>2. CASE fs \in DOMAIN Repetition
  <2>1. fec_get_enc_msg_length(fs, n) = Repetition[fs] * n
    BY <1>1, <1>2 DEF fec_get_enc_msg_length
  <2>2. Repetition[fs] \in {1, 3, 5}
    BY <1>1, <1>2 DEF Repetition
  <2> QED
    BY <2>1, <2>2
<1>3. CASE fs \in DOMAIN Block
  <2>1. fec_get_enc_msg_length(fs, n) = fec_block_get_enc_msg_len(n, Block[fs][1], Block[fs][2])
    BY <1>1, <1>3 DEF fec_get_enc_msg_length
  <2>2. Block[fs][1] \in Nat \ {0} /\ Block[fs][2] \in Nat /\ Block[fs][1] <= Block[fs][2]
    BY <1>1, <1>3 DEF Block
  <2> QED
    BY <2>1, <2>2, BlockLonger
<1>4. CASE fs \in DOMAIN Secded
  <2>1. fec_get_enc_msg_length(fs, n) = n + Whole(n, Secded[fs])
    BY <1>1, <1>4 DEF fec_get_enc_msg_length
  <2>2. Secded[fs] \in Nat \ {0}
    BY <1>1, <1>4 DEF Secded
  <2> QED
    BY <2>1, <2>2, WholeIs
<1> QED
  BY <1>2, <1>3, <1>4 DEF Schemes

(* A packet is no shorter than its payload. *)
LEMMA Encoded ==
  ASSUME NEW c \in PacketConfigs
  PROVE  /\ packetizer_compute_enc_msg_len(c) \in Nat
         /\ packetizer_compute_enc_msg_len(c) >= c.len
<1>1. /\ c.len \in Nat /\ c.crc \in DOMAIN CrcLength /\ c.fec0 \in Schemes /\ c.fec1 \in Schemes
  BY DEF PacketConfigs
<1>2. CrcLength[c.crc] \in Nat
  <2>1. DOMAIN CrcLength = {"none", "checksum", "crc8", "crc16", "crc24", "crc32"}
    BY DEF CrcLength
  <2> QED
    BY <1>1, <2>1 DEF CrcLength
<1>3. c.len + CrcLength[c.crc] \in Nat
  BY <1>1, <1>2
<1>4. /\ fec_get_enc_msg_length(c.fec0, c.len + CrcLength[c.crc]) \in Nat
      /\ fec_get_enc_msg_length(c.fec0, c.len + CrcLength[c.crc]) >= c.len + CrcLength[c.crc]
  BY <1>1, <1>3, FecLonger
<1>5. /\ packetizer_compute_enc_msg_len(c) \in Nat
      /\ packetizer_compute_enc_msg_len(c)
           >= fec_get_enc_msg_length(c.fec0, c.len + CrcLength[c.crc])
  BY <1>1, <1>4, FecLonger DEF packetizer_compute_enc_msg_len
<1> QED
  BY <1>1, <1>2, <1>3, <1>4, <1>5

LEMMA Configurations ==
  /\ HeaderConfig \in PacketConfigs /\ Default \in PacketConfigs
  /\ Configs \subseteq PacketConfigs /\ HeaderConfig.len = 6 /\ Default.len = 1
<1>1. HeaderConfig.crc \in DOMAIN CrcLength /\ Default.crc \in DOMAIN CrcLength
  BY DEF HeaderConfig, Default, CrcLength
<1>2. /\ HeaderConfig.fec0 \in Schemes /\ HeaderConfig.fec1 \in Schemes
      /\ Default.fec0 \in Schemes /\ Default.fec1 \in Schemes
  BY DEF HeaderConfig, Default, Schemes, Repetition, Block
<1>3. HeaderConfig.len = 6 /\ Default.len = 1
  BY DEF HeaderConfig, Default
<1>4. /\ HeaderConfig = [len |-> HeaderConfig.len, crc |-> HeaderConfig.crc,
                         fec0 |-> HeaderConfig.fec0, fec1 |-> HeaderConfig.fec1]
      /\ Default = [len |-> Default.len, crc |-> Default.crc,
                    fec0 |-> Default.fec0, fec1 |-> Default.fec1]
  BY DEF HeaderConfig, Default
<1>5. HeaderConfig \in PacketConfigs /\ Default \in PacketConfigs
  BY <1>1, <1>2, <1>3, <1>4 DEF PacketConfigs
<1> QED
  BY <1>3, <1>5, BPacketAssumption

LEMMA Sizes ==
  /\ header_len \in Nat \ {0} /\ PnBits \in Nat \ {0} /\ pnsequence_len \in Nat \ {0}
  /\ PnBits = 8 * pnsequence_len
  /\ MaxPayloadLen \in Nat /\ LengthField \in Nat \ {0}
<1>1. header_len \in Nat /\ header_len >= 6
  BY Encoded, Configurations DEF header_len
<1> QED
  BY <1>1, BPacketAssumption DEF PnBits

LEMMA PacketLength ==
  ASSUME NEW c \in PacketConfigs
  PROVE  /\ compute_packet_len(c) \in Nat \ {0}
         /\ 8 * compute_packet_len(c)
              = PnBits + 8 * header_len + 8 * packetizer_compute_enc_msg_len(c)
BY Sizes, Encoded DEF compute_packet_len

LEMMA HeaderSays ==
  ASSUME NEW c \in PacketConfigs
  PROVE  assemble_header(c) \in PacketConfigs /\ assemble_header(c).len < LengthField
<1>1. c.len \in Nat /\ c.len % LengthField \in 0..(LengthField - 1)
  BY Sizes DEF PacketConfigs
<1>2. c.len % LengthField \in Nat /\ c.len % LengthField < LengthField
  BY <1>1, Sizes
<1> QED
  BY <1>2 DEF assemble_header, PacketConfigs

-----------------------------------------------------------------------------
(* Bits. *)

LEMMA PnBit ==
  \A n \in 1..PnBits : pnsequence[n] \in {0, 1}
<1>1. \A s : msequence_bit(s) \in {0, 1}
  <2> TAKE s
  <2> DEFINE T == {i \in DOMAIN GenPoly : s[i] = 1 /\ GenPoly[i] = 1}
  <2>1. DOMAIN GenPoly = 1..Len(GenPoly) /\ Len(GenPoly) \in Nat
    BY BPacketAssumption, LenProperties
  <2>2. IsFiniteSet(DOMAIN GenPoly)
    BY <2>1, FS_Interval
  <2>3. T \in SUBSET (DOMAIN GenPoly)
    OBVIOUS
  <2>4. Cardinality(T) \in Nat
    BY <2>2, <2>3, FS_Subset, FS_CardinalityType
  <2>5. Cardinality(T) % 2 \in {0, 1}
    <3> HIDE DEF T
    <3> QED
      BY <2>4
  <2> QED
    BY <2>5 DEF msequence_bit
<1> QED
  BY <1>1 DEF pnsequence

LEMMA FlipBit ==
  ASSUME NEW a \in {0, 1}, NEW b \in {0, 1} PROVE Flip(a, b) \in {0, 1}
BY DEF Flip

LEMMA ABit ==
  ASSUME NEW n \in Nat \ {0} PROVE PacketBit(n) \in {0, 1}
<1> DEFINE p == PnBits + 8 * header_len
<1>1. n <= PnBits => n \in 1..PnBits
  BY Sizes
<1>2. n \in (p + 1)..(p + PnBits) => n - p \in 1..PnBits
  BY Sizes
<1>3. PacketBit(n) = IF n <= PnBits THEN pnsequence[n]
                     ELSE IF n \in (p + 1)..(p + PnBits) THEN pnsequence[n - p] ELSE 0
  BY DEF PacketBit
<1> HIDE DEF p
<1> QED
  BY <1>1, <1>2, <1>3, PnBit

(* The correlator's window keeps its length. *)
LEMMA WindowStays ==
  ASSUME NEW s \in [1..PnBits -> {0, 1}], NEW bit \in {0, 1}
  PROVE  bsequence_push(s, bit) \in [1..PnBits -> {0, 1}]
<1>1. s \in Seq({0, 1}) /\ Len(s) = PnBits
  <2>1. s \in Seq({0, 1})
    BY Sizes, SeqDef
  <2> QED
    BY <2>1, Sizes, LenProperties
<1>2. s # << >>
  BY <1>1, Sizes, EmptySeq
<1>3. Tail(s) \in Seq({0, 1}) /\ Len(Tail(s)) = PnBits - 1
  BY <1>1, <1>2, HeadTailProperties
<1>4. Append(Tail(s), bit) \in Seq({0, 1}) /\ Len(Append(Tail(s), bit)) = (PnBits - 1) + 1
  BY <1>3, AppendProperties
<1>5. (PnBits - 1) + 1 = PnBits
  BY Sizes
<1> QED
  BY <1>4, <1>5, LenProperties DEF bsequence_push

-----------------------------------------------------------------------------
(* The generator and the line. *)

LEMMA InitLemma == Init => IInv
<1> SUFFICES ASSUME Init PROVE IInv
  OBVIOUS
<1>1. gen_config \in PacketConfigs /\ gen_config \in Configs
  BY Configurations DEF Init, BGenInit
<1>2. GenTypes /\ packet_len = compute_packet_len(gen_payload)
  BY <1>1, HeaderSays, PacketLength DEF GenTypes, Init, BGenInit
<1>3. Zeros \in [1..PnBits -> {0, 1}]
  BY DEF Zeros
<1>4. SyncTypes
  BY <1>3, Sizes, Configurations DEF SyncTypes, Init, BSyncInit
<1>5. /\ packet \in [header : PacketConfigs, payload : PacketConfigs, bits : Nat]
      /\ packet.bits = 0
  BY Configurations DEF Init, NoPacket
<1>6. LineTypes
  BY <1>5 DEF LineTypes, Init
<1>7. Gathering
  BY DEF Gathering, BuffersMatch, Init, BSyncInit
<1>8. Locked /\ ValidIsWhole
  BY DEF Locked, ValidIsWhole, Init, BSyncInit, NoCall
<1> QED
  BY <1>2, <1>4, <1>5, <1>6, <1>7, <1>8 DEF IInv, Packets

(* No bit is sent past the packet's last. *)
LEMMA LineStep ==
  ASSUME GenTypes, LineTypes, Packets, [Next]_vars
  PROVE  GenTypes' /\ LineTypes' /\ Packets'
<1>1. ASSUME UNCHANGED <<packet, bgen_vars>>, LineTypes' PROVE GenTypes' /\ LineTypes' /\ Packets'
  BY <1>1 DEF GenTypes, Packets, bgen_vars
<1>2. /\ packet.bits \in Nat /\ pos \in 0..packet.bits /\ polarity \in {0, 1}
  BY DEF Packets, LineTypes
<1>3. CASE Send
  <2>1. pos' \in 0..packet.bits /\ UNCHANGED <<packet, bgen_vars, polarity>>
    BY <1>2, <1>3 DEF Send, Idle
  <2> QED
    BY <1>1, <1>2, <2>1 DEF LineTypes
<1>4. CASE Burst
  BY <1>1, <1>2, <1>4 DEF Burst, LineTypes
<1>5. CASE Slip
  <2>1. pos' \in 0..packet.bits /\ polarity' \in {0, 1} /\ UNCHANGED <<packet, bgen_vars>>
    BY <1>2, <1>5 DEF Slip, Exposed, Idle
  <2> QED
    BY <1>1, <2>1 DEF LineTypes
<1>6. CASE Pause
  <2>1. packet' = NoPacket /\ pos' = 0 /\ UNCHANGED <<polarity, bgen_vars>>
    BY <1>6 DEF Pause
  <2>2. /\ packet' \in [header : PacketConfigs, payload : PacketConfigs, bits : Nat]
        /\ packet'.bits = 0
    BY <2>1, Configurations DEF NoPacket
  <2> QED
    BY <1>2, <2>1, <2>2 DEF GenTypes, LineTypes, Packets, bgen_vars
<1>7. CASE Encode
  <2>1. packet' = bpacketgen_encode /\ pos' = 0 /\ UNCHANGED <<polarity, bgen_vars>>
    BY <1>7 DEF Encode
  <2>2. /\ gen_header \in PacketConfigs /\ gen_payload \in PacketConfigs
        /\ packet_len = compute_packet_len(gen_payload) /\ packet_len \in Nat
    BY Configurations DEF GenTypes, Packets
  <2>3. /\ packet' \in [header : PacketConfigs, payload : PacketConfigs, bits : Nat]
        /\ packet'.bits = 8 * compute_packet_len(packet'.payload)
    BY <2>1, <2>2 DEF bpacketgen_encode
  <2>4. 0 \in 0..packet'.bits
    BY <2>3
  <2> QED
    BY <1>2, <2>1, <2>3, <2>4 DEF GenTypes, LineTypes, Packets, bgen_vars
<1>8. CASE Recreate
  <2>1. PICK c \in Configs : bpacketgen_recreate(c)
    BY <1>8 DEF Recreate
  <2>2. c \in PacketConfigs
    BY Configurations
  <2>3. UNCHANGED <<packet, pos, polarity>>
    BY <1>8 DEF Recreate, line_vars
  <2>4. GenTypes' /\ packet_len' = compute_packet_len(gen_payload')
    BY <2>1, <2>2, HeaderSays, PacketLength DEF GenTypes, bpacketgen_recreate
  <2> QED
    BY <2>3, <2>4 DEF LineTypes, Packets
<1>9. CASE Reset
  BY <1>1, <1>2, <1>9 DEF Reset, LineTypes
<1>10. CASE UNCHANGED vars
  BY <1>1, <1>2, <1>10 DEF vars, line_vars, LineTypes
<1> QED
  BY <1>3, <1>4, <1>5, <1>6, <1>7, <1>8, <1>9, <1>10 DEF Next

-----------------------------------------------------------------------------
(* The synchronizer. *)

(* One more bit of a section that does not end with it. *)
LEMMA GatherStep ==
  ASSUME Gather, num_bits_received \in 0..7, num_bytes_received \in Nat,
         NEW n \in Nat, num_bytes_received < n, ~SectionEnds(n)
  PROVE  /\ num_bits_received' \in 0..7 /\ num_bytes_received' \in Nat /\ num_bytes_received' < n
         /\ 8 * num_bytes_received' + num_bits_received'
              = 8 * num_bytes_received + num_bits_received + 1
<1>1. CASE num_bits_received = 7
  <2>1. (7 + 1) % 8 = 0 /\ (7 + 1) \div 8 = 1
    OBVIOUS
  <2> QED
    BY <1>1, <2>1 DEF Gather, SectionEnds
<1>2. CASE num_bits_received # 7
  <2>1. num_bits_received + 1 \in 0..7
    BY <1>2
  <2>2. (num_bits_received + 1) % 8 = num_bits_received + 1 /\ (num_bits_received + 1) \div 8 = 0
    BY <2>1
  <2> QED
    BY <2>1, <2>2 DEF Gather
<1> QED
  BY <1>1, <1>2

LEMMA ResetStep ==
  ASSUME bpacketsync_reset, rx_config' \in PacketConfigs, p_payload' \in PacketConfigs
  PROVE  SyncTypes' /\ Gathering'
<1>1. Zeros \in [1..PnBits -> {0, 1}]
  BY DEF Zeros
<1> QED
  BY <1>1, Sizes DEF bpacketsync_reset, SyncTypes, Gathering, BuffersMatch

Sync == SyncTypes /\ Gathering

LEMMA SeekStep ==
  ASSUME Sync, NEW bit \in {0, 1}, bstate = "SEEKPN", execute_seekpn(bit)
  PROVE  Sync' /\ bstate' # "RXPAYLOAD" /\ Counted' = 0
<1>1. UNCHANGED <<num_bits_received, num_bytes_received, rx_config, p_payload>>
  BY DEF execute_seekpn, bcounters, bconfig
<1>2. bsequence_push(brx, bit) \in [1..PnBits -> {0, 1}] /\ Zeros \in [1..PnBits -> {0, 1}]
  BY WindowStays DEF Sync, SyncTypes, Zeros
<1>3. /\ bstate' \in {"SEEKPN", "RXHEADER"} /\ brx' \in [1..PnBits -> {0, 1}]
      /\ byte_mask' \in {0, 1}
  BY <1>2 DEF execute_seekpn, Sync, SyncTypes
<1>4. num_bits_received = 0 /\ num_bytes_received = 0
  BY DEF Sync, SyncTypes
<1> QED
  BY <1>1, <1>3, <1>4, Sizes DEF Sync, SyncTypes, Gathering, BuffersMatch, Counted

LEMMA HeaderStep ==
  ASSUME Sync, Packets, NEW w, NEW h, bstate = "RXHEADER", execute_rxheader(packet, w, h)
  PROVE  Sync' /\ (bstate' # "SEEKPN" => Counted' = Counted + 1)
<1>1. /\ num_bits_received \in 0..7 /\ num_bytes_received \in Nat
      /\ num_bytes_received < header_len /\ header_len \in Nat
      /\ rx_config \in PacketConfigs /\ p_payload \in PacketConfigs
      /\ packet.header \in PacketConfigs
  BY Sizes DEF Sync, SyncTypes, Gathering, Packets
<1>2. CASE SectionEnds(header_len)
  <2>1. PICK decoded \in packetizer_decode(HeaderConfig, HeaderConfig, w, h) :
               decode_header(packet, decoded)
    BY <1>2 DEF execute_rxheader
  <2>2. CASE decoded /\ packet.header.len \in 1..MaxPayloadLen
    <3>1. /\ rx_config' = packet.header /\ bpacketsync_reconfig(packet.header)
          /\ bstate' = "RXPAYLOAD" /\ num_bits_received' = 0 /\ num_bytes_received' = 0
          /\ UNCHANGED <<brx, byte_mask>>
      BY <2>1, <2>2 DEF decode_header
    <3>2. packetizer_compute_enc_msg_len(packet.header) > 0
      BY <1>1, <2>2, Encoded, Sizes DEF PacketConfigs
    <3>3. Gathering'
      BY <3>1, <3>2 DEF Gathering, BuffersMatch, bpacketsync_reconfig
    <3>4. SyncTypes'
      BY <1>1, <3>1 DEF Sync, SyncTypes, bpacketsync_reconfig
    <3>5. Counted' = 8 * header_len /\ Counted + 1 = 8 * header_len
      BY <1>1, <1>2, <3>1 DEF Counted, SectionEnds
    <3> QED
      BY <3>3, <3>4, <3>5 DEF Sync
  <2>3. CASE ~(decoded /\ packet.header.len \in 1..MaxPayloadLen)
    <3>1. /\ bpacketsync_reset /\ UNCHANGED bconfig
          /\ rx_config' \in {rx_config, packet.header}
      BY <2>1, <2>3 DEF decode_header
    <3> QED
      BY <1>1, <3>1, ResetStep DEF Sync, bconfig, bpacketsync_reset
  <2> QED
    BY <2>2, <2>3
<1>3. CASE ~SectionEnds(header_len)
  <2>1. Gather /\ UNCHANGED <<rx_config, bconfig>>
    BY <1>3 DEF execute_rxheader
  <2>2. /\ num_bits_received' \in 0..7 /\ num_bytes_received' \in Nat
        /\ num_bytes_received' < header_len
        /\ 8 * num_bytes_received' + num_bits_received'
             = 8 * num_bytes_received + num_bits_received + 1
    BY <1>1, <1>3, <2>1, GatherStep
  <2>3. UNCHANGED <<bstate, brx, byte_mask, rx_config, p_payload>>
    BY <2>1 DEF Gather, bconfig
  <2>4. Counted' = Counted + 1
    <3>1. /\ Counted = 0 + 8 * num_bytes_received + num_bits_received
          /\ Counted' = 0 + 8 * num_bytes_received' + num_bits_received'
      BY <2>3 DEF Counted
    <3>2. /\ num_bits_received \in Nat /\ num_bits_received' \in Nat
          /\ num_bytes_received \in Nat /\ num_bytes_received' \in Nat
      BY <1>1, <2>2
    <3>3. PICK a, b, c, d \in Nat :
            /\ a = num_bytes_received /\ b = num_bits_received
            /\ c = num_bytes_received' /\ d = num_bits_received'
      BY <3>2
    <3>4. 8 * c + d = 8 * a + b + 1
      BY <2>2, <3>3
    <3>5. 0 + 8 * c + d = (0 + 8 * a + b) + 1
      BY <3>4
    <3> QED
      BY <3>1, <3>3, <3>5
  <2> QED
    BY <2>2, <2>3, <2>4 DEF Sync, SyncTypes, Gathering, BuffersMatch
<1> QED
  BY <1>2, <1>3

LEMMA PayloadStep ==
  ASSUME Sync, NEW w, NEW h, bstate = "RXPAYLOAD", execute_rxpayload(packet, w, h)
  PROVE  /\ Sync' /\ (bstate' # "SEEKPN" => Counted' = Counted + 1)
         /\ given'.valid /\ given'.config.crc # "none" =>
              /\ w /\ given'.config = packet.payload
              /\ Counted + 1
                   = 8 * header_len + 8 * packetizer_compute_enc_msg_len(packet.payload)
<1> DEFINE room == packetizer_compute_enc_msg_len(p_payload)
<1>1. /\ num_bits_received \in 0..7 /\ num_bytes_received \in Nat
      /\ rx_config = p_payload /\ enc_msg_len = room /\ num_bytes_received < room
      /\ p_payload \in PacketConfigs
      /\ payload_enc_room = room /\ payload_dec_room = p_payload.len
  BY DEF Sync, SyncTypes, Gathering, BuffersMatch
<1>2. room \in Nat /\ header_len \in Nat
  BY <1>1, Encoded, Sizes
<1> HIDE DEF room
<1>3. UNCHANGED <<rx_config, p_payload, enc_msg_len, payload_enc_room, payload_dec_room>>
  BY DEF execute_rxpayload, bconfig
<1>4. CASE PayloadEnds
  <2>1. PICK valid \in packetizer_decode(packet.payload, p_payload, w, h) :
               given' = [valid |-> valid, config |-> rx_config]
    BY <1>4 DEF execute_rxpayload
  <2>2. bpacketsync_reset
    BY <1>4 DEF execute_rxpayload
  <2>3. Sync' /\ bstate' = "SEEKPN"
    BY <1>1, <1>3, <2>2, ResetStep DEF Sync, bpacketsync_reset
  <2>4. Counted + 1 = 8 * header_len + 8 * room
    BY <1>1, <1>2, <1>4 DEF Counted, PayloadEnds, SectionEnds
  <2>5. ASSUME given'.valid, given'.config.crc # "none"
        PROVE  w /\ given'.config = packet.payload /\ p_payload = packet.payload
    <3>1. valid /\ p_payload.crc # "none" /\ given'.config = p_payload
      BY <1>1, <2>1, <2>5
    <3>2. packet.payload = p_payload /\ w
      BY <2>1, <3>1 DEF packetizer_decode
    <3> QED
      BY <3>1, <3>2
  <2> QED
    BY <2>3, <2>4, <2>5 DEF room
<1>5. CASE ~PayloadEnds
  <2>1. Gather /\ given' = NoCall
    BY <1>5 DEF execute_rxpayload
  <2>2. /\ num_bits_received' \in 0..7 /\ num_bytes_received' \in Nat
        /\ num_bytes_received' < room
        /\ 8 * num_bytes_received' + num_bits_received'
             = 8 * num_bytes_received + num_bits_received + 1
    BY <1>1, <1>2, <1>5, <2>1, GatherStep DEF PayloadEnds
  <2>3. UNCHANGED <<bstate, brx, byte_mask>>
    BY <2>1 DEF Gather
  <2>4. Counted' = Counted + 1
    <3>1. /\ Counted = 8 * header_len + 8 * num_bytes_received + num_bits_received
          /\ Counted' = 8 * header_len + 8 * num_bytes_received' + num_bits_received'
      BY <2>3 DEF Counted
    <3>2. num_bits_received \in Nat /\ num_bits_received' \in Nat
      BY <1>1, <2>2
    <3>3. /\ num_bytes_received \in Nat /\ num_bytes_received' \in Nat /\ header_len \in Nat
          /\ 8 * num_bytes_received' + num_bits_received'
               = 8 * num_bytes_received + num_bits_received + 1
      BY <1>1, <1>2, <2>2
    <3>4. 8 * header_len + 8 * num_bytes_received' + num_bits_received'
            = (8 * header_len + 8 * num_bytes_received + num_bits_received) + 1
      <4>1. PICK c \in Nat : c = num_bytes_received'
        BY <3>3
      <4>2. PICK d \in Nat : d = num_bits_received'
        BY <3>2
      <4>3. 8 * c + d = 8 * num_bytes_received + num_bits_received + 1
        BY <3>3, <4>1, <4>2
      <4>4. 8 * header_len + 8 * c + d
              = (8 * header_len + 8 * num_bytes_received + num_bits_received) + 1
        BY <3>2, <3>3, <4>3
      <4> QED
        BY <4>1, <4>2, <4>4
    <3> QED
      BY <3>1, <3>4
  <2>5. ~given'.valid
    BY <2>1 DEF NoCall
  <2>6. Gathering'
    BY <1>1, <1>3, <2>2, <2>3 DEF Gathering, BuffersMatch, room
  <2> QED
    BY <1>3, <2>2, <2>3, <2>4, <2>5, <2>6 DEF Sync, SyncTypes
<1> QED
  BY <1>4, <1>5

-----------------------------------------------------------------------------
(* The link. *)

Checked(g) == g.valid /\ g.config.crc # "none"

LEMMA ExecuteStep ==
  ASSUME Sync, Packets, NEW bit \in {0, 1}, NEW w, NEW h, execute_bit(bit, packet, w, h)
  PROVE  /\ Sync'
         /\ bstate = "SEEKPN" => bstate' # "RXPAYLOAD" /\ Counted' = 0
         /\ bstate # "SEEKPN" /\ bstate' # "SEEKPN" => Counted' = Counted + 1
         /\ Checked(given') =>
              /\ bstate # "SEEKPN" /\ w /\ given'.config = packet.payload
              /\ Counted + 1
                   = 8 * header_len + 8 * packetizer_compute_enc_msg_len(packet.payload)
<1>1. CASE bstate = "SEEKPN" /\ execute_seekpn(bit) /\ given' = NoCall
  BY <1>1, SeekStep DEF NoCall, Checked
<1>2. CASE bstate = "RXHEADER" /\ execute_rxheader(packet, w, h) /\ given' = NoCall
  BY <1>2, HeaderStep DEF NoCall, Checked
<1>3. CASE bstate = "RXPAYLOAD" /\ execute_rxpayload(packet, w, h)
  BY <1>3, PayloadStep DEF Checked
<1> QED
  BY <1>1, <1>2, <1>3 DEF execute_bit

LEMMA HearStep ==
  ASSUME Sync, Packets, polarity' \in {0, 1},
         NEW n, NEW bit \in {0, 1}, NEW next \in BOOLEAN, NEW bad, Hear(n, bit, next, bad)
  PROVE  /\ Sync'
         /\ lock' =>
              /\ bstate' # "SEEKPN"
              /\ \/ n = PnBits /\ Counted' = 0
                 \/ lock /\ next /\ bstate # "SEEKPN" /\ Counted' = Counted + 1
         /\ Checked(given') =>
              /\ lock /\ next /\ given'.config = packet.payload
              /\ Counted + 1
                   = 8 * header_len + 8 * packetizer_compute_enc_msg_len(packet.payload)
<1> DEFINE w == lock /\ next
           h == wrong \/ bad
<1>1. Flip(bit, polarity') \in {0, 1}
  BY FlipBit
<1>2. execute_bit(Flip(bit, polarity'), packet, w, h)
  BY DEF Hear
<1>3. /\ Sync'
      /\ bstate = "SEEKPN" => bstate' # "RXPAYLOAD" /\ Counted' = 0
      /\ bstate # "SEEKPN" /\ bstate' # "SEEKPN" => Counted' = Counted + 1
      /\ Checked(given') =>
           /\ bstate # "SEEKPN" /\ w /\ given'.config = packet.payload
           /\ Counted + 1
                = 8 * header_len + 8 * packetizer_compute_enc_msg_len(packet.payload)
  BY <1>1, <1>2, ExecuteStep
<1>4. lock' => IF bstate = "SEEKPN" THEN bstate' = "RXHEADER" /\ n = PnBits
                                    ELSE w /\ bstate' # "SEEKPN"
  BY DEF Hear
<1> QED
  BY <1>3, <1>4

Held == Sync /\ Locked /\ ValidIsWhole

LEMMA HeldStep ==
  ASSUME Held, Packets, LineTypes, LineTypes', [Next]_vars
  PROVE  Held'
<1> USE DEF Held
<1>1. /\ packet.bits \in Nat /\ pos \in 0..packet.bits /\ polarity' \in {0, 1}
      /\ packet.payload \in PacketConfigs
      /\ packet.bits = 0 \/ packet.bits = 8 * compute_packet_len(packet.payload)
  BY DEF Packets, LineTypes
<1>2. CASE Send
  <2>1. pos' = pos + 1 /\ pos \in Nat /\ pos < packet.bits /\ UNCHANGED packet
    BY <1>1, <1>2 DEF Send, Idle
  <2>2. PacketBit(pos') \in {0, 1}
    BY <2>1, ABit
  <2>3. PICK bad \in BOOLEAN : Hear(pos', Flip(PacketBit(pos'), IF bad THEN 1 ELSE 0), TRUE, bad)
    BY <1>2 DEF Send
  <2>4. Flip(PacketBit(pos'), IF bad THEN 1 ELSE 0) \in {0, 1}
    BY <2>2, FlipBit
  <2>5. /\ Sync'
        /\ lock' =>
             /\ bstate' # "SEEKPN"
             /\ \/ pos' = PnBits /\ Counted' = 0
                \/ lock /\ bstate # "SEEKPN" /\ Counted' = Counted + 1
        /\ Checked(given') =>
             /\ lock /\ given'.config = packet.payload
             /\ Counted + 1
                  = 8 * header_len + 8 * packetizer_compute_enc_msg_len(packet.payload)
    BY <1>1, <2>3, <2>4, HearStep
  <2>6. lock => pos = PnBits + Counted /\ Counted \in Int
    BY Sizes DEF Locked, Counted, Sync, SyncTypes, Gathering
  <2>7. Locked'
    BY <2>1, <2>5, <2>6, Sizes DEF Locked, Sync, SyncTypes
  <2>8. ValidIsWhole'
    <3> SUFFICES ASSUME Checked(given') PROVE pos' = packet'.bits /\ given'.config = packet'.payload
      BY DEF ValidIsWhole, Checked
    <3>1. packet.bits = PnBits + 8 * header_len + 8 * packetizer_compute_enc_msg_len(packet.payload)
      BY <1>1, <2>1, PacketLength
    <3>2. pos' = packet.bits
      BY <2>1, <2>5, <2>6, <3>1, Encoded, <1>1, Sizes
    <3> QED
      BY <2>1, <2>5, <3>2
  <2> QED
    BY <2>5, <2>7, <2>8
<1>3. CASE Slip
  <2>1. pos' \in Nat \ {0} /\ Hear(pos', PacketBit(pos'), FALSE, FALSE)
    <3>1. pos' = pos + 2 \/ (pos > 0 /\ pos' = pos) \/ pos' = pos + 1
      BY <1>3 DEF Slip
    <3>a. pos \in Nat /\ (pos > 0 => pos \in Nat \ {0}) /\ pos + 1 \in Nat \ {0}
          /\ pos + 2 \in Nat \ {0}
      BY <1>1
    <3>2. Hear(pos', PacketBit(pos'), FALSE, FALSE)
      BY <1>3 DEF Slip
    <3> QED
      BY <3>a, <3>1, <3>2
  <2>2. PacketBit(pos') \in {0, 1}
    BY <2>1, ABit
  <2>3. /\ Sync' /\ ~Checked(given')
        /\ lock' => bstate' # "SEEKPN" /\ pos' = PnBits /\ Counted' = 0
    BY <1>1, <2>1, <2>2, HearStep
  <2>4. Locked'
    BY <2>3, Sizes DEF Locked, Sync, SyncTypes
  <2> QED
    BY <2>3, <2>4 DEF ValidIsWhole, Checked
<1>4. CASE Pause
  <2>1. /\ Sync' /\ ~Checked(given') /\ (lock' => 0 = PnBits)
    BY <1>1, <1>4, HearStep DEF Pause
  <2> QED
    BY <2>1, Sizes DEF ValidIsWhole, Checked, Locked
<1>5. ASSUME UNCHANGED <<bstate, brx, byte_mask, bcounters, rx_config, bconfig>> PROVE Sync'
  <2>1. UNCHANGED <<num_bits_received, num_bytes_received, p_payload, enc_msg_len,
                    payload_enc_room, payload_dec_room>>
    BY <1>5 DEF bcounters, bconfig
  <2> QED
    BY <1>5, <2>1 DEF Sync, SyncTypes, Gathering, BuffersMatch
<1>6. ASSUME UNCHANGED bsync_vars, UNCHANGED <<lock, pos, packet>> PROVE Held'
  <2>1. Sync'
    BY <1>5, <1>6 DEF bsync_vars
  <2>2. UNCHANGED <<Counted, bstate, given>>
    BY <1>6 DEF bsync_vars, bcounters, Counted
  <2> QED
    BY <1>6, <2>1, <2>2 DEF Locked, ValidIsWhole
<1>7. CASE Encode
  BY <1>5, <1>7 DEF Encode, Locked, ValidIsWhole, NoCall
<1>8. CASE Reset
  <2>1. bpacketsync_reset /\ given' = NoCall /\ ~lock' /\ UNCHANGED <<rx_config, bconfig>>
    BY <1>8 DEF Reset, BReset
  <2>2. Sync'
    BY <2>1, ResetStep DEF Sync, SyncTypes, bconfig
  <2> QED
    BY <2>1, <2>2 DEF Locked, ValidIsWhole, NoCall
<1>9. CASE Burst \/ Recreate \/ UNCHANGED vars
  BY <1>6, <1>9 DEF Burst, Recreate, vars, line_vars
<1> QED
  BY <1>2, <1>3, <1>4, <1>7, <1>8, <1>9 DEF Next

LEMMA Invariance == Spec => []IInv
<1>1. Init => IInv
  BY InitLemma
<1>2. IInv /\ [Next]_vars => IInv'
  BY LineStep, HeldStep DEF IInv, Held, Sync
<1> QED
  BY <1>1, <1>2, PTL DEF Spec

-----------------------------------------------------------------------------
(* Every variable keeps its type and every counter its range, whatever the
   line does and however many false P/N sequences are found.                 *)
THEOREM TypeTheorem == Spec => []TypeOK
<1>1. IInv => TypeOK
  BY DEF IInv, GenTypes, SyncTypes, LineTypes, TypeOK
<1> QED
  BY <1>1, Invariance, PTL

(* The payload gathered has the buffers and the packetizer of the header that
   was decoded for it, and room for its next byte, for every scheme of fec.c
   and every length a header can say: those out of range never get this far. *)
THEOREM BuffersTheorem == Spec => []BuffersMatch
<1>1. IInv => BuffersMatch
  BY DEF IInv, Gathering
<1> QED
  BY <1>1, Invariance, PTL

(* What has a check and is given to the callback as valid is a whole packet,
   given at its last bit, with what its sender said of it.                   *)
THEOREM ValidTheorem == Spec => []ValidIsWhole
<1>1. IInv => ValidIsWhole
  BY DEF IInv
<1> QED
  BY <1>1, Invariance, PTL

-----------------------------------------------------------------------------
(* Delivery. *)

(* Header and payload of a packet say the same, but for what the header cannot. *)
GenSays ==
  /\ gen_header = assemble_header(gen_payload)
  /\ packet.bits = 0 \/ packet.header = assemble_header(packet.payload)

(* A packet whose P/N sequence was found is followed to its end. *)
Following ==
  /\ armed => pos > 0
  /\ armed /\ pos > 0 /\ Deliverable(packet.payload) =>
       IF pos = packet.bits THEN given = [valid |-> TRUE, config |-> packet.payload]
       ELSE /\ given = NoCall
            /\ pos >= PnBits =>
                 lock /\ ~wrong /\ (bstate = "RXPAYLOAD" => p_payload = packet.payload)

LEMMA SaysStep ==
  ASSUME GenSays, Packets, [Next]_vars PROVE GenSays'
<1>1. CASE Encode
  <2>1. UNCHANGED <<gen_header, gen_payload>> /\ packet'.header = gen_header
        /\ packet'.payload = gen_payload
    BY <1>1 DEF Encode, bpacketgen_encode, bgen_vars
  <2> QED
    BY <2>1 DEF GenSays
<1>2. CASE Pause
  BY <1>2 DEF Pause, NoPacket, GenSays, bgen_vars
<1>3. CASE Recreate
  BY <1>3 DEF Recreate, GenSays, bpacketgen_recreate, line_vars
<1>4. CASE Send \/ Burst \/ Slip \/ Reset \/ UNCHANGED vars
  BY <1>4 DEF Send, Burst, Slip, Reset, vars, line_vars, bgen_vars, GenSays
<1> QED
  BY <1>1, <1>2, <1>3, <1>4 DEF Next

(* What a header says of a packet that can be delivered is what was sent. *)
LEMMA SaysAll ==
  ASSUME NEW c \in PacketConfigs, Deliverable(c) PROVE assemble_header(c) = c
<1>1. c.len \in Nat /\ c.len < LengthField
  BY BPacketAssumption DEF Deliverable, PacketConfigs
<1>2. c.len % LengthField = c.len
  BY <1>1, Sizes
<1>3. c = [len |-> c.len, crc |-> c.crc, fec0 |-> c.fec0, fec1 |-> c.fec1]
  BY DEF PacketConfigs
<1> QED
  BY <1>2, <1>3 DEF assemble_header

(* In lock and without a wrong bit a section that ends is decoded, and the
   payload's last bit is the packet's.                                       *)
LEMMA FollowStep ==
  ASSUME Sync, Packets, Locked, GenSays, Deliverable(packet.payload),
         packet.bits = 8 * compute_packet_len(packet.payload),
         pos \in Nat, pos >= PnBits, pos < packet.bits, lock,
         bstate = "RXPAYLOAD" => p_payload = packet.payload,
         NEW bit, execute_bit(bit, packet, TRUE, FALSE)
  PROVE  IF pos + 1 = packet.bits THEN given' = [valid |-> TRUE, config |-> packet.payload]
         ELSE /\ given' = NoCall /\ bstate' # "SEEKPN"
              /\ bstate' = "RXPAYLOAD" => p_payload' = packet.payload
<1> DEFINE room == packetizer_compute_enc_msg_len(packet.payload)
<1>1. /\ packet.payload \in PacketConfigs /\ packet.header = packet.payload
      /\ packet.header.len \in 1..MaxPayloadLen
  <2>1. packet.payload \in PacketConfigs
    BY DEF Packets
  <2>2. packet.bits # 0
    OBVIOUS
  <2>3. packet.header = packet.payload
    BY <2>1, <2>2, SaysAll DEF GenSays
  <2> QED
    BY <2>1, <2>3 DEF Deliverable
<1>2. /\ room \in Nat /\ room > 0 /\ header_len \in Nat \ {0} /\ PnBits \in Nat
      /\ packet.bits = PnBits + 8 * header_len + 8 * room
  BY <1>1, Encoded, PacketLength, Sizes
<1>3. /\ num_bits_received \in 0..7 /\ num_bytes_received \in Nat /\ pos = PnBits + Counted
      /\ bstate \in {"RXHEADER", "RXPAYLOAD"}
  BY DEF Sync, SyncTypes, Gathering, Locked
<1>4. CASE bstate = "RXHEADER"
  <2>1. pos = PnBits + 8 * num_bytes_received + num_bits_received
        /\ num_bytes_received < header_len
    BY <1>2, <1>3, <1>4 DEF Counted, Sync, SyncTypes
  <2>2. pos + 1 # packet.bits
    BY <1>2, <1>3, <2>1
  <2>3. execute_rxheader(packet, TRUE, FALSE) /\ given' = NoCall
    BY <1>4 DEF execute_bit
  <2>4. CASE SectionEnds(header_len)
    <3>1. packetizer_decode(HeaderConfig, HeaderConfig, TRUE, FALSE) = {TRUE}
      BY DEF packetizer_decode
    <3>2. decode_header(packet, TRUE)
      BY <2>3, <2>4, <3>1 DEF execute_rxheader
    <3>3. bstate' = "RXPAYLOAD" /\ p_payload' = packet.payload
      BY <1>1, <3>2 DEF decode_header, bpacketsync_reconfig
    <3> QED
      BY <2>2, <2>3, <3>3
  <2>5. CASE ~SectionEnds(header_len)
    <3>1. bstate' = "RXHEADER"
      BY <1>4, <2>3, <2>5 DEF execute_rxheader, Gather
    <3> QED
      BY <2>2, <2>3, <3>1
  <2> QED
    BY <2>4, <2>5
<1>5. CASE bstate = "RXPAYLOAD"
  <2>1. /\ p_payload = packet.payload /\ rx_config = packet.payload /\ enc_msg_len = room
        /\ num_bytes_received < room
    BY <1>5 DEF Sync, SyncTypes, Gathering, BuffersMatch
  <2>2. pos = PnBits + 8 * header_len + 8 * num_bytes_received + num_bits_received
    BY <1>2, <1>3, <1>5 DEF Counted
  <2>3. execute_rxpayload(packet, TRUE, FALSE)
    BY <1>5 DEF execute_bit
  <2> HIDE DEF room
  <2>4. PayloadEnds <=> pos + 1 = packet.bits
    BY <1>2, <1>3, <2>1, <2>2 DEF PayloadEnds, SectionEnds
  <2>5. CASE PayloadEnds
    <3>1. packetizer_decode(packet.payload, p_payload, TRUE, FALSE) = {TRUE}
      BY <2>1 DEF packetizer_decode
    <3>2. given' = [valid |-> TRUE, config |-> packet.payload]
      BY <2>1, <2>3, <2>5, <3>1 DEF execute_rxpayload
    <3> QED
      BY <2>4, <2>5, <3>2
  <2>6. CASE ~PayloadEnds
    <3>1. /\ given' = NoCall /\ bstate' = "RXPAYLOAD" /\ p_payload' = packet.payload
      BY <1>5, <2>1, <2>3, <2>6 DEF execute_rxpayload, Gather, bconfig
    <3> QED
      BY <2>4, <2>6, <3>1
  <2> QED
    BY <2>5, <2>6
<1> QED
  BY <1>3, <1>4, <1>5

(* The bits of a P/N sequence, n of them heard, that are not as they were sent. *)
Misheard(s, n, invert) == {i \in 1..n : s[PnBits - n + i] # Flip(pnsequence[i], invert)}

(* Since it began they are as many as the line made wrong. *)
Heard ==
  /\ pos = 0 => misses = 0
  /\ armed => pos > 0
  /\ armed /\ bstate = "SEEKPN" /\ pos <= PnBits =>
       misses = Cardinality(Misheard(brx, pos, polarity))

LEMMA MisheardFinite ==
  ASSUME NEW n \in Nat, NEW s, NEW invert
  PROVE  /\ Misheard(s, n, invert) \subseteq 1..n
         /\ IsFiniteSet(Misheard(s, n, invert))
         /\ Cardinality(Misheard(s, n, invert)) \in Nat
<1>1. Misheard(s, n, invert) \in SUBSET (1..n)
  BY DEF Misheard
<1>2. IsFiniteSet(1..n)
  BY FS_Interval
<1> QED
  BY <1>1, <1>2, FS_Subset, FS_CardinalityType

(* A push brings in one bit and moves those before it up by one. *)
LEMMA PushIs ==
  ASSUME NEW s \in [1..PnBits -> {0, 1}], NEW bit \in {0, 1}
  PROVE  \A j \in 1..PnBits : bsequence_push(s, bit)[j] = IF j = PnBits THEN bit ELSE s[j + 1]
<1>1. s \in Seq({0, 1}) /\ Len(s) = PnBits
  <2>1. s \in Seq({0, 1})
    BY Sizes, SeqDef
  <2> QED
    BY <2>1, Sizes, LenProperties
<1>2. s # << >>
  BY <1>1, Sizes, EmptySeq
<1>3. /\ Tail(s) \in Seq({0, 1}) /\ Len(Tail(s)) = PnBits - 1
      /\ \A j \in 1..(PnBits - 1) : Tail(s)[j] = s[j + 1]
  BY <1>1, <1>2, Sizes
<1>4. /\ \A j \in 1..(PnBits - 1) : Append(Tail(s), bit)[j] = Tail(s)[j]
      /\ Append(Tail(s), bit)[PnBits] = bit
  BY <1>3, Sizes
<1> QED
  BY <1>3, <1>4, Sizes DEF bsequence_push

LEMMA PushMisheard ==
  ASSUME NEW s \in [1..PnBits -> {0, 1}], NEW bit \in {0, 1}, NEW invert,
         NEW n \in Nat, n < PnBits
  PROVE  Cardinality(Misheard(bsequence_push(s, bit), n + 1, invert))
           = Cardinality(Misheard(s, n, invert))
             + IF bit = Flip(pnsequence[n + 1], invert) THEN 0 ELSE 1
<1> DEFINE t == bsequence_push(s, bit)
           A == Misheard(s, n, invert)
           B == Misheard(t, n + 1, invert)
<1>1. \A i \in 1..n : t[PnBits - (n + 1) + i] = s[PnBits - n + i]
  <2> SUFFICES ASSUME NEW i \in 1..n PROVE t[PnBits - (n + 1) + i] = s[PnBits - n + i]
    OBVIOUS
  <2>1. /\ PnBits - (n + 1) + i \in 1..PnBits /\ PnBits - (n + 1) + i # PnBits
        /\ (PnBits - (n + 1) + i) + 1 = PnBits - n + i
    BY Sizes
  <2> HIDE DEF t
  <2>2. t[PnBits - (n + 1) + i] = s[(PnBits - (n + 1) + i) + 1]
    BY <2>1, PushIs DEF t
  <2> QED
    BY <2>1, <2>2
<1>2. t[PnBits - (n + 1) + (n + 1)] = bit
  <2>1. PnBits - (n + 1) + (n + 1) = PnBits /\ PnBits \in 1..PnBits
    BY Sizes
  <2> QED
    BY <2>1, PushIs
<1> HIDE DEF t
<1>3. B = IF bit = Flip(pnsequence[n + 1], invert) THEN A ELSE A \cup {n + 1}
  <2>1. \A i \in 1..(n + 1) : i \in 1..n \/ i = n + 1
    OBVIOUS
  <2>2. \A i \in 1..n : i \in 1..(n + 1)
    OBVIOUS
  <2>3. n + 1 \in 1..(n + 1)
    OBVIOUS
  <2>4. \A i : i \in B <=> i \in (IF bit = Flip(pnsequence[n + 1], invert) THEN A ELSE A \cup {n + 1})
    <3> TAKE i
    <3>1. CASE i = n + 1
      <4>1. i \notin 1..n
        BY <3>1
      <4> QED
        BY <1>2, <2>3, <3>1, <4>1, Zenon DEF A, B, Misheard
    <3>2. CASE i # n + 1
      BY <1>1, <2>1, <2>2, <3>2, Zenon DEF A, B, Misheard
    <3> QED
      BY <3>1, <3>2
  <2> HIDE DEF A, B
  <2> QED
    BY <2>4, Zenon
<1>4. A \subseteq 1..n /\ IsFiniteSet(A) /\ Cardinality(A) \in Nat
  BY MisheardFinite
<1>5. n + 1 \notin A
  <2> HIDE DEF A
  <2> QED
    BY <1>4
<1>6. Cardinality(A \cup {n + 1}) = Cardinality(A) + 1
  <2> HIDE DEF A
  <2> QED
    BY <1>4, <1>5, FS_AddElement
<1> QED
  <2> HIDE DEF A, B
  <2>1. CASE bit = Flip(pnsequence[n + 1], invert)
    <3>1. B = A
      BY <1>3, <2>1
    <3> QED
      BY <1>4, <2>1, <3>1 DEF A, B, t
  <2>2. CASE bit # Flip(pnsequence[n + 1], invert)
    <3>1. B = A \cup {n + 1}
      BY <1>3, <2>2
    <3>2. Cardinality(B) = Cardinality(A) + 1
      BY <1>6, <3>1
    <3> QED
      BY <1>4, <2>2, <3>2 DEF A, B, t
  <2> QED
    BY <2>1, <2>2

(* A whole P/N sequence with few bits wrong correlates with the line's sign. *)
LEMMA FoundFair ==
  ASSUME NEW s \in [1..PnBits -> {0, 1}], NEW invert \in {0, 1},
         10 * Cardinality(Misheard(s, PnBits, invert)) < PnBits
  PROVE  /\ found(bsequence_correlate(s))
         /\ (IF 2 * bsequence_correlate(s) > PnBits THEN 0 ELSE 1) = invert
<1> DEFINE M == Misheard(s, PnBits, invert)
           C == {i \in DOMAIN s : s[i] = pnsequence[i]}
<1>1. PnBits \in Nat \ {0} /\ \A i \in 1..PnBits : PnBits - PnBits + i = i
  BY Sizes
<1>2. M = {i \in 1..PnBits : s[i] # Flip(pnsequence[i], invert)}
  BY <1>1 DEF Misheard
<1>3. DOMAIN s = 1..PnBits
  OBVIOUS
<1>4. IsFiniteSet(M) /\ Cardinality(M) \in Nat /\ M \subseteq 1..PnBits
  BY <1>1, MisheardFinite
<1>5. CASE invert = 0
  <2>1. \A i \in 1..PnBits : Flip(pnsequence[i], invert) = pnsequence[i]
    BY <1>5, PnBit DEF Flip
  <2>2. C = (1..PnBits) \ M
    BY <1>2, <1>3, <2>1, Zenon
  <2>3. IsFiniteSet(1..PnBits) /\ Cardinality(1..PnBits) = PnBits
    BY <1>1, FS_Interval
  <2> HIDE DEF M, C
  <2>4. Cardinality((1..PnBits) \ M) = Cardinality(1..PnBits) - Cardinality((1..PnBits) \cap M)
    BY <1>4, <2>3, FS_Difference
  <2>5. (1..PnBits) \cap M = M
    BY <1>4
  <2>6. Cardinality(C) = PnBits - Cardinality(M)
    BY <2>2, <2>3, <2>4, <2>5
  <2>7. 10 * Cardinality(M) < PnBits
    BY DEF M
  <2>8. bsequence_correlate(s) = Cardinality(C)
    BY DEF bsequence_correlate, C
  <2> QED
    BY <1>1, <1>4, <1>5, <2>6, <2>7, <2>8 DEF found
<1>6. CASE invert = 1
  <2>1. \A i \in 1..PnBits : s[i] # Flip(pnsequence[i], invert) <=> s[i] = pnsequence[i]
    BY <1>6, PnBit DEF Flip
  <2>2. C = M
    BY <1>2, <1>3, <2>1, Zenon
  <2> HIDE DEF M, C
  <2>3. 10 * Cardinality(M) < PnBits
    BY DEF M
  <2>4. bsequence_correlate(s) = Cardinality(M)
    BY <2>2 DEF bsequence_correlate, C
  <2> QED
    BY <1>1, <1>4, <1>6, <2>3, <2>4 DEF found
<1> QED
  BY <1>5, <1>6

(* A bit of a packet that began as the synchronizer sought is one more heard,
   and the last one of its P/N sequence tells.                               *)
LEMMA FoundStep ==
  ASSUME IInv, Heard, NoEarlyAlarm, PnFound, [Next]_vars
  PROVE  Heard' /\ PnFound'
<1>1. /\ PnBits \in Nat \ {0, 1} /\ polarity \in {0, 1} /\ pos \in 0..packet.bits
      /\ packet.bits \in Nat /\ brx \in [1..PnBits -> {0, 1}]
  <2>1. PnBits \in Nat \ {0, 1}
    BY Sizes
  <2>2. packet.bits \in Nat /\ pos \in 0..packet.bits /\ polarity \in {0, 1}
    BY DEF IInv, LineTypes, Packets
  <2> QED
    BY <2>1, <2>2 DEF IInv, SyncTypes
<1>2. CASE Send
  <2>1. /\ pos' = pos + 1 /\ pos \in Nat /\ UNCHANGED polarity
    BY <1>1, <1>2 DEF Send
  <2>2. PICK bad \in BOOLEAN :
          /\ misses' = IF pos >= PnBits THEN 0 ELSE IF bad THEN misses + 1 ELSE misses
          /\ armed' = Fair(bad, misses')
          /\ Hear(pos', Flip(PacketBit(pos'), IF bad THEN 1 ELSE 0), TRUE, bad)
    BY <1>2 DEF Send
  <2> DEFINE bit == Flip(Flip(PacketBit(pos'), IF bad THEN 1 ELSE 0), polarity')
             rx == bsequence_push(brx, bit)
             sent == Flip(pnsequence[pos + 1], polarity)
  <2> SUFFICES ASSUME armed', pos < PnBits
               PROVE  /\ bstate' = "SEEKPN" =>
                           misses' = Cardinality(Misheard(brx', pos + 1, polarity))
                      /\ pos + 1 = PnBits => lock'
    BY <1>1, <2>1 DEF Heard, PnFound
  <2>3. /\ armed \/ (pos = 0 /\ bstate = "SEEKPN")
        /\ 10 * misses' < PnBits
    BY <2>2 DEF Fair
  <2>4. bstate = "SEEKPN" /\ misses = Cardinality(Misheard(brx, pos, polarity))
    <3>1. CASE pos = 0
      <4>1. misses = 0 /\ ~armed
        BY <3>1 DEF Heard
      <4>2. Misheard(brx, 0, polarity) = {}
        BY DEF Misheard
      <4>3. Cardinality(Misheard(brx, pos, polarity)) = 0
        BY <3>1, <4>2, FS_EmptySet
      <4> QED
        BY <2>3, <4>1, <4>3
    <3>2. CASE pos # 0
      <4>1. armed /\ pos \in 1..(PnBits - 1)
        BY <1>1, <2>1, <2>3, <3>2
      <4>2. bstate = "SEEKPN"
        BY <4>1 DEF NoEarlyAlarm
      <4>3. pos <= PnBits
        BY <1>1, <4>1
      <4> QED
        BY <4>1, <4>2, <4>3 DEF Heard
    <3> QED
      BY <3>1, <3>2
  <2>5. bit \in {0, 1} /\ sent \in {0, 1} /\ (bit = sent <=> ~bad)
    <3>1. PacketBit(pos') = pnsequence[pos + 1] /\ pnsequence[pos + 1] \in {0, 1}
      BY <1>1, <2>1, PnBit DEF PacketBit
    <3>2. ASSUME NEW a \in {0, 1}, NEW p \in {0, 1}
          PROVE  /\ Flip(Flip(a, IF bad THEN 1 ELSE 0), p) \in {0, 1} /\ Flip(a, p) \in {0, 1}
                 /\ Flip(Flip(a, IF bad THEN 1 ELSE 0), p) = Flip(a, p) <=> ~bad
      BY DEF Flip
    <3> QED
      BY <1>1, <2>1, <3>1, <3>2
  <2> HIDE DEF bit, sent
  <2>6. misses' = Cardinality(Misheard(rx, pos + 1, polarity))
    <3>1. Cardinality(Misheard(rx, pos + 1, polarity))
            = Cardinality(Misheard(brx, pos, polarity)) + IF bit = sent THEN 0 ELSE 1
      BY <1>1, <2>1, <2>5, PushMisheard DEF sent
    <3>2. Cardinality(Misheard(brx, pos, polarity)) \in Nat
      BY <2>1, MisheardFinite
    <3>3. misses' = misses + IF bit = sent THEN 0 ELSE 1
      BY <2>1, <1>1, <2>2, <2>4, <2>5, <3>2
    <3> QED
      BY <2>4, <3>1, <3>3
  <2>7. rx \in [1..PnBits -> {0, 1}]
    BY <1>1, <2>5, WindowStays
  <2> HIDE DEF rx
  <2>8. /\ execute_seekpn(bit)
        /\ lock' = (bstate' = "RXHEADER" /\ pos' = PnBits /\ byte_mask' = polarity')
    BY <2>2, <2>4 DEF Hear, execute_bit, bit
  <2>9. IF found(bsequence_correlate(rx))
        THEN /\ bstate' = "RXHEADER"
             /\ byte_mask' = IF 2 * bsequence_correlate(rx) > PnBits THEN 0 ELSE 1
        ELSE brx' = rx
    BY <2>8 DEF execute_seekpn, rx
  <2>10. ASSUME bstate' = "SEEKPN" PROVE brx' = rx
    BY <2>9, <2>10
  <2>11. ASSUME pos + 1 = PnBits PROVE lock'
    <3>1. 10 * Cardinality(Misheard(rx, PnBits, polarity)) < PnBits
      BY <2>3, <2>6, <2>11
    <3>2. /\ found(bsequence_correlate(rx))
          /\ (IF 2 * bsequence_correlate(rx) > PnBits THEN 0 ELSE 1) = polarity
      BY <1>1, <2>7, <3>1, FoundFair
    <3> QED
      BY <2>1, <2>8, <2>9, <2>11, <3>2
  <2> QED
    BY <2>6, <2>10, <2>11
<1>3. CASE Slip
  <2>1. ~armed' /\ misses' = 0
    BY <1>3 DEF Slip
  <2> QED
    BY <2>1 DEF Heard, PnFound
<1>4. CASE Pause \/ Encode \/ Reset
  <2>1. ~armed' /\ misses' = 0
    BY <1>4 DEF Pause, Encode, Reset
  <2> QED
    BY <2>1 DEF Heard, PnFound
<1>5. CASE Burst \/ Recreate \/ UNCHANGED vars
  <2>1. UNCHANGED <<pos, lock, armed, misses, polarity>> /\ UNCHANGED bsync_vars
    BY <1>5 DEF Burst, Recreate, vars, line_vars
  <2>2. UNCHANGED <<brx, bstate>>
    BY <2>1 DEF bsync_vars
  <2> QED
    BY <2>1, <2>2 DEF Heard, PnFound
<1> QED
  BY <1>2, <1>3, <1>4, <1>5 DEF Next

(* Unless something before it is taken for it, the P/N sequence of a packet that
   finds the synchronizer seeking is found at its last bit and with the polarity
   of the line, for every sequence and length: the threshold of 0.8 is what one
   wrong bit in ten allows.  That nothing is taken for it sooner is the
   m-sequence's merit, a fact about one polynomial: it is assumed of the
   behaviour here and computed by TLC.                                       *)
THEOREM FoundTheorem == Spec /\ []NoEarlyAlarm => []PnFound
<1>1. Init => Heard /\ PnFound
  BY Sizes DEF Init, Heard, PnFound
<1>2. IInv /\ Heard /\ NoEarlyAlarm /\ PnFound /\ [Next]_vars => Heard' /\ PnFound'
  BY FoundStep
<1> QED
  BY <1>1, <1>2, Invariance, PTL DEF Spec

LEMMA FollowingStep ==
  ASSUME IInv, GenSays, NoEarlyAlarm, PnFound', Following, [Next]_vars
  PROVE  Following'
<1>1. CASE Send
  <2>1. /\ pos' = pos + 1 /\ pos \in Nat /\ pos < packet.bits /\ UNCHANGED packet
        /\ packet.payload \in PacketConfigs
        /\ packet.bits = 8 * compute_packet_len(packet.payload)
    BY <1>1 DEF Send, Idle, IInv, LineTypes, Packets
  <2>2. PICK bad \in BOOLEAN :
          /\ armed' = Fair(bad, misses')
          /\ Hear(pos', Flip(PacketBit(pos'), IF bad THEN 1 ELSE 0), TRUE, bad)
    BY <1>1 DEF Send
  <2> DEFINE bit == Flip(Flip(PacketBit(pos'), IF bad THEN 1 ELSE 0), polarity')
             w == lock /\ TRUE
             h == wrong \/ bad
  <2> SUFFICES ASSUME armed', Deliverable(packet.payload)
               PROVE  IF pos + 1 = packet.bits
                      THEN given' = [valid |-> TRUE, config |-> packet.payload]
                      ELSE /\ given' = NoCall
                           /\ pos + 1 >= PnBits =>
                                /\ lock' /\ ~wrong'
                                /\ bstate' = "RXPAYLOAD" => p_payload' = packet.payload
    BY <2>1 DEF Following
  <2>3. /\ armed \/ (pos = 0 /\ bstate = "SEEKPN")
        /\ bad => pos < PnBits
    BY <2>2 DEF Fair
  <2>4. /\ execute_bit(bit, packet, w, h)
        /\ lock' = IF bstate = "SEEKPN"
                   THEN bstate' = "RXHEADER" /\ pos' = PnBits /\ byte_mask' = polarity'
                   ELSE w /\ bstate' # "SEEKPN"
        /\ wrong' = (h /\ bstate' = bstate /\ lock')
    BY <2>2 DEF Hear
  <2> HIDE DEF bit
  <2>5. /\ PnBits \in Nat \ {0} /\ header_len \in Nat \ {0}
        /\ packetizer_compute_enc_msg_len(packet.payload) \in Nat
        /\ packet.bits
             = PnBits + 8 * header_len + 8 * packetizer_compute_enc_msg_len(packet.payload)
    BY <2>1, Sizes, Encoded, PacketLength
  <2>6. CASE pos < PnBits
    <3>1. bstate = "SEEKPN"
      <4>1. CASE pos = 0
        BY <2>3, <4>1 DEF Following
      <4>2. CASE pos # 0
        <5>1. armed /\ pos \in 1..(PnBits - 1)
          BY <2>1, <2>3, <2>5, <2>6, <4>2
        <5> QED
          BY <5>1 DEF NoEarlyAlarm
      <4> QED
        BY <4>1, <4>2
    <3>2. given' = NoCall
      BY <2>4, <3>1 DEF execute_bit
    <3>3. pos + 1 # packet.bits
      BY <2>1, <2>5, <2>6
    <3>4. ASSUME pos + 1 >= PnBits
          PROVE  lock' /\ ~wrong' /\ bstate' # "RXPAYLOAD"
      <4>1. pos' = PnBits
        BY <2>1, <2>5, <2>6, <3>4
      <4>2. lock'
        BY <4>1 DEF PnFound
      <4> QED
        BY <2>4, <3>1, <4>2
    <3> QED
      BY <3>2, <3>3, <3>4
  <2>7. CASE pos >= PnBits
    <3>1. armed /\ pos > 0 /\ ~bad /\ pos # packet.bits
      BY <2>1, <2>3, <2>5, <2>7
    <3>2. lock /\ ~wrong /\ (bstate = "RXPAYLOAD" => p_payload = packet.payload)
      BY <2>7, <3>1 DEF Following
    <3>3. execute_bit(bit, packet, TRUE, FALSE)
      <4>1. w = TRUE /\ h = FALSE
        BY <3>1, <3>2
      <4> QED
        BY <2>4, <4>1
    <3>4. Sync /\ Locked /\ Packets /\ bstate # "SEEKPN"
      BY <3>2 DEF IInv, Sync, Locked
    <3>5. IF pos + 1 = packet.bits
          THEN given' = [valid |-> TRUE, config |-> packet.payload]
          ELSE /\ given' = NoCall /\ bstate' # "SEEKPN"
               /\ bstate' = "RXPAYLOAD" => p_payload' = packet.payload
      BY <2>1, <2>7, <3>2, <3>3, <3>4, FollowStep
    <3>6. bstate' # "SEEKPN" => lock' /\ ~wrong'
      BY <2>4, <3>1, <3>2, <3>4
    <3> QED
      BY <3>5, <3>6
  <2> QED
    BY <2>1, <2>5, <2>6, <2>7
<1>2. CASE Slip \/ Pause \/ Encode \/ Reset
  BY <1>2 DEF Slip, Pause, Encode, Reset, Following
<1>3. CASE Burst \/ Recreate \/ UNCHANGED vars
  <2>1. UNCHANGED <<packet, pos, lock, wrong, armed>> /\ UNCHANGED bsync_vars
    BY <1>3 DEF Burst, Recreate, vars, line_vars
  <2>2. UNCHANGED <<given, bstate, p_payload>>
    BY <2>1 DEF bsync_vars, bconfig
  <2> QED
    BY <2>1, <2>2 DEF Following
<1> QED
  BY <1>1, <1>2, <1>3 DEF Next

(* A packet that finds the synchronizer seeking, with few wrong bits in its P/N
   sequence and none behind it, is delivered at its last bit as it was sent, for
   every length a header can say and all schemes, on the same condition.     *)
THEOREM DeliversTheorem == Spec /\ []NoEarlyAlarm => []DeliversOnTime
<1>1. Init => GenSays /\ Following
  BY DEF Init, BGenInit, NoPacket, GenSays, Following
<1>2. IInv /\ GenSays /\ NoEarlyAlarm /\ PnFound' /\ Following /\ [Next]_vars
        => GenSays' /\ Following'
  BY SaysStep, FollowingStep DEF IInv
<1>3. Following => DeliversOnTime
  BY DEF Following, DeliversOnTime
<1> QED
  BY <1>1, <1>2, <1>3, FoundTheorem, Invariance, PTL DEF Spec
=============================================================================

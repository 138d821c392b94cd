--------------------------- MODULE OfdmLinkProofs ---------------------------
(***************************************************************************)
(* For every number of subcarriers, every prefix, header and payload: what  *)
(* the generator has played when, what the synchronizer counts, that it     *)
(* comes into step with a frame it hears from the start, that in step it    *)
(* hears each symbol as what it is and delivers the payload on time, and    *)
(* that each sample brings both nearer the end of what they are at.         *)
(***************************************************************************)
EXTENDS OfdmLink, TLAPS

(* A header is decoded from hard decisions, or has one bit a symbol: soft
   decisions of more bits are written past the end of header_mod.            *)
HeaderFits == header_bps = 1 \/ SoftHeader \subseteq {FALSE}
(* The taper leaves room for the synchronizer's backoff in the prefix. *)
TaperFits == taper_len + backoff <= cp_len
(* The frame's last header byte survives repacking: the header's symbols hold
   no byte more than its bits.                                               *)
HeaderRepacks ==
  \A bytes \in HeaderBytes :
    Quotient(header_bps * Quotient(8 * bytes, header_bps), 8) <= bytes

(* S0 is detected so early that the second transform still lies in it, and
   S1 not before the search for it begins.                                   *)
HeardEarly ==
  /\ Weak + Strong <= M + M2 + 2 * cp_len
  /\ Strong + M2 \div 2 < M + 2 * cp_len
(* The search lasts until S1, also if it begins at the first detection. *)
EnoughTries == 3 * M2 + 2 * cp_len + M2 \div 2 <= Tries * M2 + Weak

GenTypes ==
  /\ gstate \in {"S0a", "S0b", "S1", "HEADER", "PAYLOAD", "TAIL", "ZEROS"}
  /\ frame_assembled \in BOOLEAN /\ frame_complete \in BOOLEAN
  /\ gen_header_index \in Nat /\ gen_payload_index \in Nat /\ gen_pilot \in Nat
  /\ symbol_number \in Nat /\ buf_index \in 0..frame_len /\ sent \in Nat
  /\ header_enc_len \in HeaderBytes /\ payload \in Payloads
SyncTypes ==
  /\ state \in {"SEEKPLCP", "PLCPSHORT0", "PLCPSHORT1", "PLCPLONG", "RXSYMBOLS"}
  /\ timer \in 0..(2 * M + cp_len)
  /\ state \in {"PLCPLONG", "RXSYMBOLS"} => timer > 0
  /\ num_symbols \in Nat /\ ms_pilot \in Nat
  /\ fstate \in {"HEADER", "PAYLOAD"}
  /\ header_symbol_index \in 0..header_sym_len
  /\ payload_symbol_index \in 0..(payload_mod_len - 1)
  /\ header_soft \in BOOLEAN /\ payload_soft \in BOOLEAN
  /\ called \in {"none", "header", "payload", "invalid payload"}
  /\ rx_header_enc_len \in HeaderBytes /\ rx_payload \in Payloads /\ payload_enc_len \in Nat
Types == GenTypes /\ SyncTypes /\ acq \in BOOLEAN

(* OFDM symbols of the frame computed so far. *)
Computed ==
  CASE gstate = "S0a" -> 0 [] gstate = "S0b" -> 1 [] gstate = "S1" -> 2
    [] gstate = "HEADER" -> 3 + symbol_number
    [] gstate = "PAYLOAD" -> 3 + num_symbols_header + symbol_number
    [] OTHER -> getframelen

(* The generator: how many samples that is, and how much of each section. *)
Generated ==
  /\ gstate \in {"S0a", "S0b", "S1"} =>
       gen_pilot = 0 /\ gen_header_index = 0 /\ gen_payload_index = 0
  /\ gstate = "S0a" => buf_index = frame_len
  /\ gstate \notin {"S0a", "ZEROS"} => frame_assembled /\ buf_index >= 1
  /\ gstate = "ZEROS" => ~frame_assembled /\ (sent = 0 \/ sent > 3 * frame_len)
  /\ gstate # "ZEROS" => sent = (Computed - 1) * frame_len + buf_index
  /\ gstate \in {"HEADER", "PAYLOAD", "TAIL"} => gen_pilot = Computed - 3
  /\ gstate = "HEADER" =>
       /\ symbol_number < num_symbols_header /\ gen_payload_index = 0
       /\ gen_header_index = symbol_number * M_data
  /\ gstate \in {"PAYLOAD", "TAIL"} => gen_header_index = gen_header_sym_len
  /\ gstate = "PAYLOAD" =>
       /\ symbol_number < num_symbols_payload
       /\ gen_payload_index = symbol_number * M_data
  /\ gstate = "TAIL" => gen_payload_index = gen_payload_mod_len

(* The synchronizer: its counters rest while it seeks, both ends have the
   header's length, and a payload is received in the room made for it.       *)
Receiving ==
  /\ state # "RXSYMBOLS" => fstate = "HEADER" /\ ms_pilot = 0 /\ header_symbol_index = 0
  /\ fstate = "HEADER" => payload_symbol_index = 0
  /\ fstate = "PAYLOAD" => payload_enc_len = PayloadRoom(rx_payload, payload_soft)
  /\ rx_header_enc_len = header_enc_len
  /\ header_soft \in SoftHeader \cup {FALSE}

(* In step: the next symbol is due with its last sample, the sections have
   been counted like the sender's, and the frame is not over.                *)
InStep ==
  acq =>
    /\ state = "RXSYMBOLS" /\ frame_assembled
    /\ sent + timer = (4 + num_symbols) * frame_len
    /\ ms_pilot = num_symbols
    /\ fstate = "HEADER" =>
         num_symbols < num_symbols_header /\ header_symbol_index = num_symbols * M_data
    /\ fstate = "PAYLOAD" =>
         /\ num_symbols \in num_symbols_header..(num_symbols_header + num_symbols_payload - 1)
         /\ payload_symbol_index = (num_symbols - num_symbols_header) * M_data
         /\ rx_payload = payload
HeardRight == SameSymbol /\ (TaperFits => WindowInSymbol)

Base == Types /\ Generated /\ Receiving
IInv == Base /\ InStep /\ HeardRight

-----------------------------------------------------------------------------
(* Arithmetic. *)

(* The quotient rounded up. *)
LEMMA QuotientIs ==
  ASSUME NEW n \in Nat \ {0}, NEW d \in Nat \ {0}
  PROVE  /\ Quotient(n, d) \in Nat \ {0}
         /\ Quotient(n, d) * d >= n
         /\ (Quotient(n, d) - 1) * d < n
<1> DEFINE q == (n + d - 1) \div d
<1>1. q \in Int /\ d * q <= n + d - 1 /\ n + d - 1 < d * q + d
  OBVIOUS
<1>2. q * d = d * q /\ (q - 1) * d = d * q - d
  BY <1>1
<1>3. q >= 1
  <2> HIDE DEF q
  <2>1. CASE q <= 0
    <3>1. d * q <= 0
      BY <1>1, <2>1
    <3> QED
      BY <1>1, <3>1
  <2> QED
    BY <1>1, <2>1
<1>4. q * d >= n /\ (q - 1) * d < n
  <2> HIDE DEF q
  <2> QED
    BY <1>1, <1>2
<1> QED
  BY <1>1, <1>3, <1>4 DEF Quotient

LEMMA Monotone ==
  ASSUME NEW d \in Nat, NEW a \in Int, NEW b \in Int, a <= b
  PROVE  a * d <= b * d
<1>1. (b - a) * d >= 0
  OBVIOUS
<1>2. (b - a) * d = b * d - a * d
  OBVIOUS
<1> QED
  BY <1>1, <1>2

LEMMA Distributes ==
  ASSUME NEW d \in Int, NEW a \in Int
  PROVE  (a + 1) * d = a * d + d /\ (a - 1) * d = a * d - d /\ 0 * d = 0 /\ a * d \in Int
OBVIOUS

(* n symbols of d carriers each hold a section just when there are enough. *)
LEMMA SectionEnds ==
  ASSUME NEW n \in Nat \ {0}, NEW d \in Nat \ {0}, NEW k \in Nat
  PROVE  k * d >= n <=> k >= Quotient(n, d)
<1> DEFINE q == Quotient(n, d)
<1>1. q \in Nat \ {0} /\ q * d >= n /\ (q - 1) * d < n
  BY QuotientIs
<1> HIDE DEF q
<1>2. ASSUME k >= q PROVE k * d >= n
  <2>1. q * d <= k * d
    BY <1>1, <1>2, Monotone
  <2> QED
    BY <1>1, <2>1
<1>3. ASSUME k < q PROVE k * d < n
  <2>1. k * d <= (q - 1) * d
    BY <1>1, <1>3, Monotone
  <2> QED
    BY <1>1, <2>1
<1> QED
  BY <1>1, <1>2, <1>3 DEF q

(* A sample lies in one symbol only. *)
LEMMA OneSymbol ==
  ASSUME NEW f \in Nat, NEW a \in Int, NEW c \in Int, NEW b \in 1..f, NEW d \in 1..f,
         a * f + b = c * f + d
  PROVE  a = c /\ b = d
<1>1. CASE a < c
  <2>1. (a + 1) * f <= c * f
    BY <1>1, Monotone
  <2> QED
    BY <2>1, Distributes
<1>2. CASE c < a
  <2>1. (c + 1) * f <= a * f
    BY <1>2, Monotone
  <2> QED
    BY <2>1, Distributes
<1> QED
  BY <1>1, <1>2

-----------------------------------------------------------------------------
(* Sizes. *)

LEMMA Sizes ==
  /\ M \in Nat /\ M >= 8 /\ M2 \in Nat \ {0} /\ M = 2 * M2 /\ cp_len \in 0..M
  /\ taper_len \in 0..cp_len
  /\ frame_len \in Nat /\ frame_len >= 8 /\ frame_len = M + cp_len
  /\ M_data \in Nat \ {0} /\ header_bps \in Nat \ {0}
  /\ backoff \in Nat /\ backoff <= 2 /\ backoff <= cp_len
  /\ S1Start = 2 * frame_len + cp_len
<1>1. M2 \in Nat /\ M = 2 * M2 /\ M >= 8
  BY OfdmAssumption DEF M2
<1>2. frame_len \in Nat /\ frame_len >= 8
  BY OfdmAssumption DEF frame_len
<1> QED
  BY <1>1, <1>2, OfdmAssumption DEF frame_len, backoff, S1Start

LEMMA SectionSizes ==
  ASSUME Types
  PROVE  /\ gen_header_sym_len \in Nat \ {0} /\ gen_payload_mod_len \in Nat \ {0}
         /\ header_sym_len \in Nat \ {0} /\ payload_mod_len \in Nat \ {0}
         /\ num_symbols_header \in Nat \ {0} /\ num_symbols_payload \in Nat \ {0}
         /\ getframelen = 3 + num_symbols_header + num_symbols_payload
         /\ rx_payload.enc \in Nat \ {0} /\ rx_payload.bps \in Nat \ {0}
<1>1. /\ header_enc_len \in Nat \ {0} /\ rx_header_enc_len \in Nat \ {0}
      /\ payload.enc \in Nat \ {0} /\ payload.bps \in Nat \ {0}
      /\ rx_payload.enc \in Nat \ {0} /\ rx_payload.bps \in Nat \ {0}
  <2>1. /\ header_enc_len \in HeaderBytes /\ payload \in Payloads
        /\ rx_header_enc_len \in HeaderBytes /\ rx_payload \in Payloads
    BY DEF Types, GenTypes, SyncTypes
  <2> QED
    BY <2>1, GenAssumption
<1>2. \A n \in Nat \ {0} : 8 * n \in Nat \ {0}
  OBVIOUS
<1>3. /\ gen_header_sym_len \in Nat \ {0} /\ gen_payload_mod_len \in Nat \ {0}
      /\ header_sym_len \in Nat \ {0} /\ payload_mod_len \in Nat \ {0}
  BY <1>1, <1>2, Sizes, QuotientIs DEF gen_header_sym_len, gen_payload_mod_len, header_sym_len,
     payload_mod_len
<1>4. num_symbols_header \in Nat \ {0} /\ num_symbols_payload \in Nat \ {0}
  BY <1>3, Sizes, QuotientIs DEF num_symbols_header, num_symbols_payload
<1>5. getframelen = 3 + num_symbols_header + num_symbols_payload
  BY <1>4 DEF getframelen
<1> QED
  BY <1>1, <1>3, <1>4, <1>5

(* Both ends count the header in the same symbols. *)
LEMMA SameHeader ==
  ASSUME HeaderFits, Receiving, Types
  PROVE  header_sym_len = gen_header_sym_len /\ (header_soft => HeaderStride = 1)
<1>1. header_soft => header_bps = 1
  BY FlexSyncAssumption DEF HeaderFits, Receiving, Types, SyncTypes
<1>2. header_enc_len \in Nat /\ rx_header_enc_len = header_enc_len
  BY GenAssumption DEF Types, GenTypes, Receiving
<1>3. Quotient(8 * header_enc_len, 1) = 8 * header_enc_len
  <2>1. \A n \in Nat : (n + 1 - 1) \div 1 = n
    OBVIOUS
  <2>2. 8 * header_enc_len \in Nat
    BY <1>2
  <2> QED
    BY <2>1, <2>2 DEF Quotient
<1> QED
  BY <1>1, <1>2, <1>3 DEF header_sym_len, gen_header_sym_len, HeaderStride

LEMMA InitLemma == Init => IInv
<1> SUFFICES ASSUME Init PROVE IInv
  OBVIOUS
<1>1. Types
  <2>1. header_enc_len \in HeaderBytes /\ payload \in Payloads /\ payload.enc \in Nat
    BY GenAssumption DEF Init, GInit
  <2>2. /\ rx_header_enc_len \in HeaderBytes /\ rx_payload \in Payloads /\ payload_enc_len \in Nat
    BY <2>1 DEF Init, FlexInit
  <2>3. header_sym_len \in Nat \ {0} /\ payload_mod_len \in Nat \ {0}
    <3>1. /\ rx_header_enc_len \in Nat \ {0} /\ rx_payload.enc \in Nat \ {0}
          /\ rx_payload.bps \in Nat \ {0}
      BY <2>2, GenAssumption
    <3>2. 8 * rx_header_enc_len \in Nat \ {0} /\ 8 * rx_payload.enc \in Nat \ {0}
      BY <3>1
    <3> QED
      BY <3>1, <3>2, Sizes, QuotientIs DEF header_sym_len, payload_mod_len
  <2>4. /\ buf_index \in 0..frame_len /\ timer \in 0..(2 * M + cp_len)
        /\ 0 \in 0..header_sym_len /\ 0 \in 0..(payload_mod_len - 1)
    BY <2>3, Sizes DEF Init, GInit, FlexInit
  <2>5. GenTypes
    BY <2>1, <2>4 DEF GenTypes, Init, GInit
  <2>6. SyncTypes
    BY <2>2, <2>4 DEF SyncTypes, Init, FlexInit
  <2> QED
    BY <2>5, <2>6 DEF Types, Init
<1>2. Generated
  <2>1. (0 - 1) * frame_len + frame_len = 0
    BY Sizes
  <2> QED
    BY <2>1 DEF Init, GInit, Generated, Computed
<1>3. Receiving
  BY DEF Init, FlexInit, Receiving
<1>4. InStep /\ HeardRight
  BY DEF Init, InStep, HeardRight, WindowInSymbol, SameSymbol
<1> QED
  BY <1>1, <1>2, <1>3, <1>4 DEF IInv, Base

-----------------------------------------------------------------------------
(* The generator. *)

LEMMA SameSizes ==
  UNCHANGED gconfig =>
    /\ UNCHANGED <<gen_header_sym_len, gen_payload_mod_len, num_symbols_header,
                   num_symbols_payload, getframelen>>
    /\ UNCHANGED gconfig
BY DEF gconfig, gen_header_sym_len, gen_payload_mod_len, num_symbols_header,
   num_symbols_payload, getframelen

LEMMA GenTypesWrite ==
  ASSUME Types, Write PROVE GenTypes'
<1> USE DEF Types, GenTypes
<1>1. UNCHANGED <<header_enc_len, payload>> /\ sent' \in Nat
  BY DEF Write, gconfig
<1>2. CASE buf_index >= frame_len
  <2>1. gen_symbol /\ buf_index' = 1
    BY <1>2 DEF Write
  <2>2. gen_header_index' \in Nat /\ gen_payload_index' \in Nat
    BY <2>1, Sizes, SectionSizes
       DEF gen_symbol, Preamble, gen_header, gen_payload, gen_tail, gen_zeros, Advance
  <2>3. symbol_number' \in Nat /\ gen_pilot' \in Nat /\ buf_index' \in 0..frame_len
    BY <2>1, Sizes
       DEF gen_symbol, Preamble, gen_header, gen_payload, gen_tail, gen_zeros
  <2>4. /\ gstate' \in {"S0a", "S0b", "S1", "HEADER", "PAYLOAD", "TAIL", "ZEROS"}
        /\ frame_assembled' \in BOOLEAN /\ frame_complete' \in BOOLEAN
    BY <2>1 DEF gen_symbol, Preamble, gen_header, gen_payload, gen_tail, gen_zeros
  <2> QED
    BY <1>1, <2>2, <2>3, <2>4
<1>3. CASE ~(buf_index >= frame_len)
  BY <1>1, <1>3, Sizes DEF Write
<1> QED
  BY <1>2, <1>3

(* A symbol is played to its end. *)
LEMMA PlayStep ==
  ASSUME Types, Generated, Write, ~(buf_index >= frame_len) PROVE Generated'
<1>1. UNCHANGED <<gstate, symbol_number, gen_header_index, gen_payload_index,
                  frame_assembled, frame_complete, gen_pilot>>
      /\ buf_index' = buf_index + 1
  BY DEF Write
<1>2. UNCHANGED <<gen_header_sym_len, gen_payload_mod_len, num_symbols_header,
                  num_symbols_payload, getframelen>>
  BY SameSizes DEF Write
<1>3. UNCHANGED Computed
  BY <1>1, <1>2 DEF Computed
<1>4. gstate # "S0a" /\ buf_index \in 0..frame_len /\ sent \in Nat
  BY Sizes DEF Generated, Types, GenTypes
<1>5. gstate = "ZEROS" => sent' = 0 \/ sent' > 3 * frame_len
  BY <1>4, Sizes DEF Write, Generated
<1>6. gstate # "ZEROS" => sent' = (Computed' - 1) * frame_len + buf_index'
  <2> SUFFICES ASSUME gstate # "ZEROS" PROVE sent' = (Computed' - 1) * frame_len + buf_index'
    OBVIOUS
  <2>1. Computed \in Int
    BY SectionSizes DEF Computed, Types, GenTypes
  <2>2. (Computed - 1) * frame_len \in Int
    BY <2>1, Sizes
  <2>3. sent' = sent + 1 /\ sent = (Computed - 1) * frame_len + buf_index
    BY DEF Write, Generated
  <2> QED
    BY <1>1, <1>3, <1>4, <2>2, <2>3
<1> QED
  BY <1>1, <1>2, <1>3, <1>4, <1>5, <1>6, Sizes DEF Generated

(* The next symbol is computed: one more than before. *)
LEMMA SymbolSamples ==
  ASSUME Types, Generated, Write, buf_index >= frame_len, gstate # "ZEROS"
  PROVE  sent = Computed * frame_len /\ sent' = Computed * frame_len + 1 /\ Computed \in Nat
<1>1. Computed \in Nat
  BY SectionSizes DEF Computed, Types, GenTypes
<1>2. buf_index = frame_len /\ sent = (Computed - 1) * frame_len + buf_index
  BY Sizes DEF Generated, Types, GenTypes
<1>3. (Computed - 1) * frame_len = Computed * frame_len - frame_len /\ Computed * frame_len \in Int
  BY <1>1, Sizes, Distributes
<1>4. sent = Computed * frame_len
  BY <1>2, <1>3, Sizes
<1> QED
  BY <1>1, <1>2, <1>3, <1>4 DEF Write

LEMMA SymbolStep ==
  ASSUME Types, Generated, Write, buf_index >= frame_len PROVE Generated'
<1> USE DEF Types, GenTypes
<1> DEFINE len == frame_len
           pos == Computed * frame_len
<1>1. gen_symbol /\ buf_index' = 1 /\ UNCHANGED gconfig
  BY DEF Write
<1>2. UNCHANGED <<gen_header_sym_len, gen_payload_mod_len, num_symbols_header,
                  num_symbols_payload, getframelen>>
  BY <1>1, SameSizes
<1>3. gstate # "ZEROS" => sent' = pos + 1 /\ pos \in Int /\ sent = pos
  BY SymbolSamples, Sizes
<1>4. gstate # "ZEROS" => frame_assembled /\ gstate \in {"S0a", "S0b", "S1", "HEADER", "PAYLOAD", "TAIL"}
  BY DEF Write, Writes
<1>5. ASSUME gstate # "ZEROS", Computed' = Computed + 1
      PROVE  sent' = (Computed' - 1) * frame_len + buf_index'
  <2>1. (Computed + 1) - 1 = Computed
    BY <1>5, SymbolSamples
  <2> QED
    BY <1>1, <1>3, <1>5, <2>1
<1>6. CASE Preamble
  <2>1. Computed' = Computed + 1 /\ gstate # "ZEROS"
    BY <1>6 DEF Preamble, Computed
  <2>2. /\ gstate' = "HEADER" => gstate = "S1"
        /\ gstate' \in {"S0b", "S1", "HEADER"} /\ symbol_number' = 0
        /\ gen_pilot' = 0 /\ gen_header_index' = 0 /\ gen_payload_index' = 0
        /\ frame_assembled'
    BY <1>4, <1>6 DEF Preamble, Generated
  <2>3. gstate' = "HEADER" => Computed' = 3 + 0
    BY <2>2 DEF Computed
  <2>4. 0 * M_data = 0 /\ 0 < num_symbols_header
    BY Sizes, SectionSizes
  <2> QED
    BY <1>1, <1>2, <1>5, <2>1, <2>2, <2>3, <2>4 DEF Generated
<1>7. CASE gen_header
  <2>1. /\ gstate = "HEADER" /\ symbol_number < num_symbols_header /\ gen_payload_index = 0
        /\ gen_header_index = symbol_number * M_data /\ gen_pilot = symbol_number
        /\ Computed = 3 + symbol_number /\ frame_assembled'
    BY <1>4, <1>7 DEF gen_header, Generated, Computed
  <2>2. (symbol_number + 1) * M_data = symbol_number * M_data + M_data
        /\ symbol_number * M_data \in Int /\ symbol_number + 1 \in Nat
    BY Sizes, Distributes
  <2>3. gen_header_index + M_data >= gen_header_sym_len <=> symbol_number + 1 >= num_symbols_header
    BY <2>1, <2>2, Sizes, SectionSizes, SectionEnds DEF num_symbols_header
  <2>4. gen_header_index' = IF symbol_number + 1 >= num_symbols_header
                            THEN gen_header_sym_len ELSE (symbol_number + 1) * M_data
    BY <1>7, <2>1, <2>2, <2>3, Sizes, SectionSizes DEF gen_header, Advance
  <2>5. CASE symbol_number + 1 = num_symbols_header
    <3>1. gstate' = "PAYLOAD" /\ symbol_number' = 0 /\ gen_pilot' = symbol_number + 1
          /\ gen_payload_index' = 0 /\ frame_assembled'
      BY <1>7, <2>1, <2>5 DEF gen_header
    <3>2. gen_header_index' = gen_header_sym_len
      BY <2>4, <2>5, SectionSizes
    <3>3. Computed' = 3 + num_symbols_header + 0
      BY <1>2, <3>1 DEF Computed
    <3>4. Computed' = Computed + 1 /\ gen_pilot' = Computed' - 3
      BY <2>1, <2>5, <3>1, <3>3, SectionSizes
    <3>5. 0 * M_data = 0 /\ 0 < num_symbols_payload
      BY Sizes, SectionSizes
    <3> QED
      BY <1>1, <1>2, <1>5, <2>1, <3>1, <3>2, <3>4, <3>5 DEF Generated
  <2>6. CASE symbol_number + 1 # num_symbols_header
    <3>1. gstate' = "HEADER" /\ symbol_number' = symbol_number + 1 /\ gen_pilot' = symbol_number + 1
          /\ gen_payload_index' = 0 /\ frame_assembled'
      BY <1>7, <2>1, <2>6 DEF gen_header
    <3>2. symbol_number + 1 < num_symbols_header
      BY <2>1, <2>6, SectionSizes
    <3>3. gen_header_index' = symbol_number' * M_data
      BY <2>4, <3>1, <3>2, SectionSizes
    <3>4. Computed' = Computed + 1 /\ gen_pilot' = Computed' - 3
      BY <2>1, <3>1 DEF Computed
    <3> QED
      BY <1>1, <1>2, <1>5, <2>1, <3>1, <3>2, <3>3, <3>4 DEF Generated
  <2> QED
    BY <2>5, <2>6
<1>8. CASE gen_payload
  <2>1. /\ gstate = "PAYLOAD" /\ symbol_number < num_symbols_payload
        /\ gen_header_index = gen_header_sym_len
        /\ gen_payload_index = symbol_number * M_data
        /\ gen_pilot = num_symbols_header + symbol_number
        /\ Computed = 3 + num_symbols_header + symbol_number /\ frame_assembled'
    BY <1>4, <1>8, SectionSizes DEF gen_payload, Generated, Computed
  <2>2. (symbol_number + 1) * M_data = symbol_number * M_data + M_data
        /\ symbol_number * M_data \in Int /\ symbol_number + 1 \in Nat
    BY Sizes, Distributes
  <2>3. gen_payload_index + M_data >= gen_payload_mod_len <=> symbol_number + 1 >= num_symbols_payload
    BY <2>1, <2>2, Sizes, SectionSizes, SectionEnds DEF num_symbols_payload
  <2>4. gen_payload_index' = IF symbol_number + 1 >= num_symbols_payload
                             THEN gen_payload_mod_len ELSE (symbol_number + 1) * M_data
    BY <1>8, <2>1, <2>2, <2>3, Sizes, SectionSizes DEF gen_payload, Advance
  <2>5. symbol_number' = symbol_number + 1 /\ gen_pilot' = gen_pilot + 1
        /\ gen_header_index' = gen_header_sym_len /\ frame_assembled'
    BY <1>8, <2>1 DEF gen_payload
  <2>6. CASE symbol_number + 1 = num_symbols_payload
    <3>1. gstate' = "TAIL"
      BY <1>8, <2>6 DEF gen_payload
    <3>2. gen_payload_index' = gen_payload_mod_len
      BY <2>4, <2>6, SectionSizes
    <3>3. Computed' = 3 + num_symbols_header + num_symbols_payload
      BY <1>2, <3>1, SectionSizes DEF Computed
    <3>4. Computed' = Computed + 1 /\ gen_pilot' = Computed' - 3
      BY <2>1, <2>5, <2>6, <3>3, SectionSizes
    <3> QED
      BY <1>1, <1>2, <1>5, <2>1, <2>5, <3>1, <3>2, <3>4 DEF Generated
  <2>7. CASE symbol_number + 1 # num_symbols_payload
    <3>1. gstate' = "PAYLOAD"
      BY <1>8, <2>1, <2>7 DEF gen_payload
    <3>2. symbol_number + 1 < num_symbols_payload
      BY <2>1, <2>7, SectionSizes
    <3>3. gen_payload_index' = symbol_number' * M_data
      BY <2>4, <2>5, <3>2, SectionSizes
    <3>4. Computed' = 3 + num_symbols_header + (symbol_number + 1)
      BY <1>2, <2>5, <3>1 DEF Computed
    <3>5. Computed' = Computed + 1 /\ gen_pilot' = Computed' - 3
      BY <2>1, <2>5, <3>4, SectionSizes
    <3> QED
      BY <1>1, <1>2, <1>5, <2>1, <2>5, <3>1, <3>2, <3>3, <3>5 DEF Generated
  <2> QED
    BY <2>6, <2>7
<1>9. CASE gen_tail
  <2>1. gstate = "TAIL" /\ gstate' = "ZEROS" /\ ~frame_assembled'
    BY <1>9 DEF gen_tail
  <2>2. Computed = getframelen
    BY <2>1 DEF Computed
  <2>3. 3 * frame_len <= Computed * frame_len
    BY <2>2, Sizes, SectionSizes, Monotone
  <2>4. sent' > 3 * frame_len
    BY <1>3, <2>1, <2>3, Sizes
  <2> QED
    BY <2>1, <2>4 DEF Generated
<1>10. CASE gen_zeros
  <2>1. gstate = "ZEROS" /\ gstate' = "ZEROS" /\ UNCHANGED frame_assembled /\ buf_index = frame_len
    BY <1>10, Sizes DEF gen_zeros
  <2>2. sent' = 0
    BY <2>1 DEF Write
  <2> QED
    BY <2>1, <2>2 DEF Generated
<1> QED
  BY <1>1, <1>6, <1>7, <1>8, <1>9, <1>10 DEF gen_symbol

LEMMA GeneratorCalls ==
  ASSUME Types, Generated,
         \/ GenReset
         \/ \E p \in Payloads : Assemble(p)
         \/ \E p \in Payloads : SetProps(p)
         \/ \E bytes \in HeaderBytes : set_header_len(bytes)
  PROVE  GenTypes' /\ Generated'
<1> USE DEF Types, GenTypes
<1>1. ASSUME ofdmflexframegen_reset, frame_assembled' \in BOOLEAN,
             header_enc_len' \in HeaderBytes, payload' \in Payloads
      PROVE  GenTypes' /\ Generated'
  <2>0. frame_len \in 0..frame_len
    BY Sizes
  <2>1. GenTypes'
    BY <1>1, <2>0 DEF ofdmflexframegen_reset
  <2>2. Computed' = 0 /\ sent' = 0 /\ buf_index' = frame_len /\ gstate' = "S0a"
    BY <1>1 DEF ofdmflexframegen_reset, Computed
  <2>3. (0 - 1) * frame_len + frame_len = 0
    BY Sizes
  <2> QED
    BY <1>1, <2>1, <2>2, <2>3 DEF ofdmflexframegen_reset, Generated
<1>2. CASE GenReset
  BY <1>1, <1>2 DEF GenReset, gconfig
<1>3. CASE \E p \in Payloads : Assemble(p)
  BY <1>1, <1>3 DEF Assemble
(* Called between frames only, in states where no size is in use. *)
<1>4. ASSUME ~frame_assembled, UNCHANGED gvars,
             header_enc_len' \in HeaderBytes, payload' \in Payloads
      PROVE  GenTypes' /\ Generated'
  <2>1. gstate \in {"S0a", "ZEROS"}
    BY <1>4 DEF Generated
  <2>2. gstate' = "S0a" => Computed' = Computed
    BY <1>4 DEF Computed, gvars
  <2> QED
    BY <1>4, <2>1, <2>2 DEF gvars, Generated
<1>5. CASE \E p \in Payloads : SetProps(p)
  BY <1>4, <1>5 DEF SetProps
<1>6. CASE \E bytes \in HeaderBytes : set_header_len(bytes)
  BY <1>4, <1>6 DEF set_header_len
<1> QED
  BY <1>2, <1>3, <1>5, <1>6

LEMMA GeneratorRests ==
  ASSUME Types, Generated, UNCHANGED gen_vars
  PROVE  GenTypes' /\ Generated'
<1>1. UNCHANGED <<gstate, symbol_number, gen_header_index, gen_payload_index, buf_index,
                  frame_assembled, frame_complete, gen_pilot, sent, header_enc_len, payload>>
  BY DEF gen_vars, gvars, gconfig
<1>2. UNCHANGED <<gen_header_sym_len, gen_payload_mod_len, num_symbols_header,
                  num_symbols_payload, getframelen>>
  BY <1>1, SameSizes DEF gconfig
<1>3. UNCHANGED Computed
  BY <1>1, <1>2 DEF Computed
<1> QED
  BY <1>1, <1>2, <1>3 DEF Types, GenTypes, Generated

LEMMA GeneratorStep ==
  ASSUME Types, Generated, [Next]_vars
  PROVE  GenTypes' /\ Generated'
<1>1. CASE Write
  BY <1>1, GenTypesWrite, PlayStep, SymbolStep
<1>2. CASE UNCHANGED gen_vars
  BY <1>2, GeneratorRests
<1>3. CASE Transmitter
  BY <1>3, GeneratorCalls DEF Transmitter
<1>4. CASE HeaderLen
  BY <1>4, GeneratorCalls DEF HeaderLen
<1> QED
  BY <1>1, <1>2, <1>3, <1>4 DEF Next, Sample, Receiver, vars

-----------------------------------------------------------------------------
(* The synchronizer. *)

(* Of what the sections of a frame are counted in, the transition of the
   acquisition changes nothing.                                              *)
LEMMA SameSections ==
  UNCHANGED <<rx_config, rx_alloc>> =>
    UNCHANGED <<header_soft, payload_soft, rx_header_enc_len, rx_payload, payload_enc_len,
                header_sym_len, payload_mod_len>>
BY DEF rx_config, rx_alloc, header_sym_len, payload_mod_len

(* The delays a state of the synchronizer is entered with. *)
LEMMA Delays ==
  /\ M2 <= 2 * M + cp_len /\ M + cp_len \in 1..(2 * M + cp_len)
  /\ FirstSymbolDelay \in 1..(2 * M + cp_len)
  /\ \A dt \in AllTaus : ((M + dt) % M2) + M \in 0..(2 * M + cp_len) /\ S1Delay(dt) \in 1..(2 * M + cp_len)
<1>1. M2 <= 2 * M + cp_len /\ M + cp_len \in 1..(2 * M + cp_len)
      /\ FirstSymbolDelay \in 1..(2 * M + cp_len)
  BY Sizes DEF FirstSymbolDelay
<1>2. M2 \div 2 \in Nat /\ 2 * (M2 \div 2) <= M2
  BY Sizes
<1>3. ASSUME NEW dt \in AllTaus
      PROVE  ((M + dt) % M2) + M \in 0..(2 * M + cp_len) /\ S1Delay(dt) \in 1..(2 * M + cp_len)
  <2>1. dt \in Int /\ 2 * dt <= M2 /\ -M2 <= 2 * dt
    BY <1>2, Sizes DEF AllTaus
  <2>2. (M + dt) % M2 \in 0..(M2 - 1)
    BY <2>1, Sizes
  <2>3. S1Delay(dt) \in 1..(2 * M + cp_len)
    BY <2>1, Sizes DEF S1Delay
  <2> QED
    BY <2>2, <2>3, Sizes
<1> QED
  BY <1>1, <1>3

Acquire == execute_seekplcp(sent') \/ execute_S0a \/ execute_S0b(sent') \/ execute_S1(sent') \/ rxwait

LEMMA AcquireStep ==
  ASSUME Types, Receiving, Acquire, UNCHANGED <<counters, rx_config, rx_alloc>>, called' = "none"
  PROVE  /\ SyncTypes'
         /\ state' # "RXSYMBOLS" => state # "RXSYMBOLS" /\ ms_pilot' = 0
         /\ UNCHANGED ms_pilot
<1> DEFINE States == {"SEEKPLCP", "PLCPSHORT0", "PLCPSHORT1", "PLCPLONG", "RXSYMBOLS"}
<1>1. UNCHANGED <<fstate, header_symbol_index, payload_symbol_index, header_soft, payload_soft,
                  rx_header_enc_len, rx_payload, payload_enc_len, header_sym_len, payload_mod_len>>
  BY SameSections DEF counters
<1>2. /\ state \in States /\ timer \in Nat /\ timer <= 2 * M + cp_len
      /\ num_symbols \in Nat /\ ms_pilot \in Nat /\ (state = "PLCPLONG" => ms_pilot = 0)
      /\ (state \in {"PLCPLONG", "RXSYMBOLS"} => timer > 0)
  <2>1. timer \in 0..(2 * M + cp_len) /\ ms_pilot \in Nat /\ num_symbols \in Nat
    BY DEF Types, SyncTypes
  <2>2. state \in States /\ (state \in {"PLCPLONG", "RXSYMBOLS"} => timer > 0)
    BY DEF Types, SyncTypes
  <2>3. state = "PLCPLONG" => ms_pilot = 0
    BY DEF Receiving
  <2> QED
    BY <2>1, <2>2, <2>3, Sizes
<1>3. Taus(sent') \subseteq AllTaus
  BY DEF Taus
<1>4. /\ state' \in States
      /\ timer' \in 0..(2 * M + cp_len)
      /\ state' \in {"PLCPLONG", "RXSYMBOLS"} => timer' > 0
      /\ num_symbols' \in Nat
      /\ state' # "RXSYMBOLS" => state # "RXSYMBOLS"
      /\ ms_pilot' = ms_pilot
  <2>1. CASE execute_seekplcp(sent')
    <3>1. CASE timer + 1 < M
      BY <1>2, <2>1, <3>1, Sizes DEF execute_seekplcp, Wait
    <3>2. CASE ~(timer + 1 < M)
      <4>1. /\ num_symbols' = num_symbols /\ ms_pilot' = ms_pilot /\ state = "SEEKPLCP"
            /\ \/ state' = state /\ timer' = 0
               \/ state' = "PLCPSHORT0" /\ timer' \in 0..(2 * M + cp_len)
        BY <1>3, <2>1, <3>2, Delays DEF execute_seekplcp
      <4> QED
        BY <1>2, <4>1, Sizes
    <3> QED
      BY <3>1, <3>2
  <2>2. CASE execute_S0a
    BY <1>2, <2>2, Sizes, Delays DEF execute_S0a, Wait
  <2>3. CASE execute_S0b(sent')
    <3>1. CASE timer + 1 < M2
      BY <1>2, <2>3, <3>1, Sizes DEF execute_S0b, Wait
    <3>2. CASE ~(timer + 1 < M2)
      <4>1. /\ num_symbols' = num_symbols /\ ms_pilot' = ms_pilot /\ state = "PLCPSHORT1"
            /\ state' = "PLCPLONG" /\ timer' \in 1..(2 * M + cp_len)
        BY <1>3, <2>3, <3>2, Delays DEF execute_S0b
      <4> QED
        BY <1>2, <4>1, Sizes
    <3> QED
      BY <3>1, <3>2
  <2>4. CASE execute_S1(sent')
    <3>1. CASE timer - 1 > 0
      BY <1>2, <2>4, <3>1, Sizes DEF execute_S1
    <3>2. CASE ~(timer - 1 > 0)
      <4>1. timer' \in {FirstSymbolDelay, M2} /\ state' \in {"RXSYMBOLS", "PLCPLONG", "SEEKPLCP"}
            /\ num_symbols' \in {0, num_symbols, num_symbols + 1}
            /\ state = "PLCPLONG" /\ ms_pilot' \in {ms_pilot, 0}
        BY <2>4, <3>2 DEF execute_S1, ofdmframesync_reset
      <4>2. timer' \in 1..(2 * M + cp_len)
        BY <4>1, Sizes, Delays
      <4> QED
        BY <1>2, <4>1, <4>2, Sizes
    <3> QED
      BY <3>1, <3>2
  <2>5. CASE rxwait
    BY <1>2, <2>5, Sizes DEF rxwait
  <2> QED
    BY <2>1, <2>2, <2>3, <2>4, <2>5 DEF Acquire
<1>5. SyncTypes'
  BY <1>1, <1>4 DEF Types, SyncTypes
<1> QED
  BY <1>4, <1>5 DEF Receiving

(* A symbol is handed to the frame synchronizer. *)
LEMMA CallbackStep ==
  ASSUME Types, Receiving, internal_callback(Tx, acq)
  PROVE  /\ SyncTypes'
         /\ state' # "RXSYMBOLS" => fstate' = "HEADER" /\ ms_pilot' = 0 /\ header_symbol_index' = 0
         /\ fstate' = "HEADER" => payload_symbol_index' = 0
         /\ fstate' = "PAYLOAD" => payload_enc_len' = PayloadRoom(rx_payload', payload_soft')
         /\ UNCHANGED <<header_soft, payload_soft, rx_header_enc_len>>
<1>a. /\ timer \in 0..(2 * M + cp_len) /\ num_symbols \in Nat /\ ms_pilot \in Nat
      /\ header_symbol_index \in 0..header_sym_len
      /\ payload_symbol_index \in 0..(payload_mod_len - 1)
      /\ header_soft \in BOOLEAN /\ payload_soft \in BOOLEAN
      /\ rx_header_enc_len \in HeaderBytes /\ rx_payload \in Payloads /\ payload_enc_len \in Nat
      /\ payload \in Payloads /\ fstate \in {"HEADER", "PAYLOAD"}
  BY DEF Types, SyncTypes, GenTypes
<1>b. header_sym_len \in Nat \ {0} /\ payload_mod_len \in Nat \ {0} /\ gen_payload_mod_len \in Nat \ {0}
  BY SectionSizes
<1>c. M_data \in Nat \ {0} /\ M \in Nat /\ cp_len \in Nat /\ M + cp_len > 0
  BY Sizes
<1>1. /\ UNCHANGED <<header_soft, payload_soft, rx_header_enc_len>>
      /\ UNCHANGED header_sym_len
  BY DEF internal_callback, rx_config, header_sym_len
<1>2. timer' \in 0..(2 * M + cp_len) /\ timer' > 0
  BY <1>c DEF internal_callback, SymbolDelay
<1>3. /\ state = "RXSYMBOLS" /\ num_symbols + 1 \in Nat /\ ms_pilot + 1 \in Nat /\ 0 \in Nat
      /\ 0 \in 0..header_sym_len /\ header_sym_len \in 0..header_sym_len
  BY <1>a, <1>b DEF internal_callback, rxdue
<1>4. 0 \in 0..(payload_mod_len - 1)
  BY <1>b
<1>5. ASSUME ofdmflexframesync_reset, UNCHANGED rx_alloc,
             called' \in {"none", "header", "payload", "invalid payload"}
      PROVE  /\ SyncTypes' /\ fstate' = "HEADER" /\ state' = "SEEKPLCP" /\ ms_pilot' = 0
             /\ header_symbol_index' = 0 /\ payload_symbol_index' = 0
  <2>1. UNCHANGED <<rx_payload, payload_enc_len, payload_mod_len>>
    BY <1>5 DEF rx_alloc, payload_mod_len
  <2>2. /\ fstate' = "HEADER" /\ header_symbol_index' = 0 /\ payload_symbol_index' = 0
        /\ state' = "SEEKPLCP" /\ num_symbols' = 0 /\ ms_pilot' = 0
    BY <1>5 DEF ofdmflexframesync_reset, ofdmframesync_reset
  <2> QED
    BY <1>a, <1>1, <1>2, <1>3, <1>4, <1>5, <2>1, <2>2 DEF SyncTypes
<1>6. CASE fstate = "HEADER" /\ rxheader(Tx, acq) /\ HeaderEnds /\ acq /\ repack_bytes
  <2>1. /\ rx_payload' = payload /\ payload_enc_len' = PayloadRoom(payload, payload_soft)
        /\ fstate' = "PAYLOAD" /\ header_symbol_index' = header_sym_len
        /\ num_symbols' = num_symbols + 1 /\ ms_pilot' = ms_pilot + 1 /\ called' = "none"
        /\ UNCHANGED <<state, payload_symbol_index>>
    BY <1>6 DEF rxheader, decode_header, Tx, rxsymbol
  <2>2. payload_symbol_index = 0 /\ payload \in Payloads
    BY <1>a, <1>6 DEF Receiving
  <2>3. payload.enc \in Nat \ {0} /\ payload.bps \in Nat \ {0}
    BY <2>2, GenAssumption
  <2>4. payload_mod_len' = gen_payload_mod_len
    BY <2>1 DEF payload_mod_len, gen_payload_mod_len
  <2>5. payload_symbol_index' \in 0..(payload_mod_len' - 1)
    BY <1>b, <2>1, <2>2, <2>4
  <2>6. payload_enc_len' \in Nat
    <3>1. 8 * payload.enc \in Nat \ {0}
      BY <2>3
    <3>3. \A a, b \in Nat : a * b \in Nat
      OBVIOUS
    <3>4. payload.bps * gen_payload_mod_len \in Nat
      BY <2>3, <1>b, <3>3
    <3> QED
      BY <2>1, <2>3, <3>4 DEF PayloadRoom, gen_payload_mod_len
  <2> QED
    BY <1>a, <1>1, <1>2, <1>3, <2>1, <2>2, <2>5, <2>6 DEF SyncTypes
<1>7. CASE fstate = "HEADER" /\ rxheader(Tx, acq) /\ HeaderEnds /\ ~(acq /\ repack_bytes)
  <2>1. ofdmflexframesync_reset /\ UNCHANGED rx_alloc /\ called' = "header"
    BY <1>7 DEF rxheader, decode_header
  <2> QED
    BY <1>1, <1>5, <2>1
<1>8. CASE fstate = "HEADER" /\ rxheader(Tx, acq) /\ ~HeaderEnds
  <2>1. /\ header_symbol_index' = header_symbol_index + M_data
        /\ num_symbols' = num_symbols + 1 /\ ms_pilot' = ms_pilot + 1 /\ called' = "none"
        /\ UNCHANGED <<state, fstate, payload_symbol_index, rx_payload, payload_enc_len>>
    BY <1>8 DEF rxheader, rxsymbol, rx_alloc
  <2>2. UNCHANGED payload_mod_len
    BY <2>1 DEF payload_mod_len
  <2>3. header_symbol_index' \in 0..header_sym_len
    BY <1>a, <1>b, <1>c, <1>8, <2>1 DEF HeaderEnds
  <2> QED
    BY <1>a, <1>1, <1>2, <1>3, <1>8, <2>1, <2>2, <2>3 DEF Receiving, SyncTypes
<1>9. CASE fstate = "PAYLOAD" /\ rxpayload(Tx, acq)
  <2>1. UNCHANGED <<rx_payload, payload_enc_len, payload_mod_len>>
    BY <1>9 DEF rxpayload, rx_alloc, payload_mod_len
  <2>2. CASE payload_symbol_index + M_data >= payload_mod_len
    <3>1. ofdmflexframesync_reset /\ UNCHANGED rx_alloc /\ called' \in {"payload", "invalid payload"}
      BY <1>9, <2>2 DEF rxpayload
    <3> QED
      BY <1>1, <1>5, <3>1
  <2>3. CASE ~(payload_symbol_index + M_data >= payload_mod_len)
    <3>1. /\ payload_symbol_index' = payload_symbol_index + M_data
          /\ num_symbols' = num_symbols + 1 /\ ms_pilot' = ms_pilot + 1 /\ called' = "none"
          /\ UNCHANGED <<state, fstate, header_symbol_index>>
      BY <1>9, <2>3 DEF rxpayload, rxsymbol
    <3>2. payload_symbol_index' \in 0..(payload_mod_len - 1)
      BY <1>a, <1>b, <1>c, <2>3, <3>1
    <3> QED
      BY <1>a, <1>1, <1>2, <1>3, <1>9, <2>1, <3>1, <3>2 DEF Receiving, SyncTypes
  <2> QED
    BY <2>2, <2>3
<1>10. (fstate = "HEADER" /\ rxheader(Tx, acq)) \/ (fstate = "PAYLOAD" /\ rxpayload(Tx, acq))
  BY <1>a DEF internal_callback
<1> QED
  BY <1>6, <1>7, <1>8, <1>9, <1>10

LEMMA HeaderSymbols ==
  ASSUME NEW bytes \in HeaderBytes
  PROVE  8 * bytes \in Nat \ {0} /\ Quotient(8 * bytes, header_bps) \in Nat \ {0}
<1>1. bytes \in Nat \ {0}
  BY GenAssumption
<1>2. 8 * bytes \in Nat \ {0}
  BY <1>1
<1> QED
  BY <1>2, Sizes, QuotientIs

(* The user's calls of the synchronizer, none in a frame but reset(). *)
LEMMA SynchronizerCalls ==
  ASSUME Types, Receiving,
         \/ Reset
         \/ \E soft \in SoftHeader : decode_header_soft(soft)
         \/ \E soft \in SoftPayload : decode_payload_soft(soft)
         \/ \E bytes \in HeaderBytes : rx_set_header_len(bytes)
  PROVE  /\ SyncTypes' /\ state' = "SEEKPLCP"
         /\ fstate' = "HEADER" /\ ms_pilot' = 0 /\ header_symbol_index' = 0
         /\ payload_symbol_index' = 0 /\ header_soft' \in SoftHeader \cup {FALSE}
<1>a. /\ num_symbols \in Nat /\ ms_pilot \in Nat /\ timer \in 0..(2 * M + cp_len)
      /\ header_soft \in BOOLEAN /\ payload_soft \in BOOLEAN
      /\ rx_header_enc_len \in HeaderBytes /\ rx_payload \in Payloads /\ payload_enc_len \in Nat
      /\ called \in {"none", "header", "payload", "invalid payload"}
      /\ payload_mod_len \in Nat \ {0}
  BY SectionSizes DEF Types, SyncTypes
<1>b. header_soft \in SoftHeader \cup {FALSE}
  BY DEF Receiving
<1>1. ASSUME /\ state' = "SEEKPLCP" /\ timer' \in 0..(2 * M + cp_len) /\ num_symbols' \in Nat
             /\ fstate' = "HEADER" /\ ms_pilot' = 0 /\ header_symbol_index' = 0
             /\ payload_symbol_index' = 0
             /\ header_soft' \in SoftHeader \cup {FALSE} /\ payload_soft' \in BOOLEAN
             /\ rx_header_enc_len' \in HeaderBytes
             /\ UNCHANGED <<rx_alloc, called>>
      PROVE  SyncTypes'
  <2>1. header_sym_len' \in Nat
    <3>1. 8 * rx_header_enc_len' \in Nat /\ Quotient(8 * rx_header_enc_len', header_bps) \in Nat
      BY <1>1, HeaderSymbols
    <3> QED
      BY <3>1 DEF header_sym_len
  <2>2. UNCHANGED payload_mod_len
    BY <1>1 DEF rx_alloc, payload_mod_len
  <2>a. payload_mod_len' \in Nat \ {0}
    BY <1>a, <2>2
  <2>3. 0 \in 0..header_sym_len' /\ 0 \in 0..(payload_mod_len' - 1) /\ 0 \in Nat
    <3>1. \A k \in Nat : 0 \in 0..k
      OBVIOUS
    <3>2. \A k \in Nat \ {0} : 0 \in 0..(k - 1)
      OBVIOUS
    <3> QED
      BY <2>a, <2>1, <3>1, <3>2
  <2>4. header_soft' \in BOOLEAN
    BY <1>1, FlexSyncAssumption
  <2> QED
    BY <1>1, <1>a, <2>3, <2>4 DEF SyncTypes, rx_alloc
<1>2. CASE Reset
  <2>1. 0 \in 0..(2 * M + cp_len) /\ 0 \in Nat
    BY Sizes
  <2> QED
    BY <1>1, <1>2, <1>a, <1>b, <2>1 DEF Reset, ofdmflexframesync_reset, ofdmframesync_reset, rx_config
<1>3. state = "SEEKPLCP" => fstate = "HEADER" /\ ms_pilot = 0 /\ header_symbol_index = 0
                            /\ payload_symbol_index = 0
  BY DEF Receiving
<1>4. CASE \E soft \in SoftHeader : decode_header_soft(soft)
  BY <1>1, <1>3, <1>4, <1>a DEF decode_header_soft, fs_vars, counters
<1>5. CASE \E soft \in SoftPayload : decode_payload_soft(soft)
  BY <1>1, <1>3, <1>5, <1>a, <1>b, FlexSyncAssumption DEF decode_payload_soft, fs_vars, counters
<1>6. CASE \E bytes \in HeaderBytes : rx_set_header_len(bytes)
  BY <1>1, <1>3, <1>6, <1>a, <1>b DEF rx_set_header_len, fs_vars, counters
<1> QED
  BY <1>2, <1>4, <1>5, <1>6

LEMMA SynchronizerStep ==
  ASSUME Types, Receiving, [Next]_vars
  PROVE  SyncTypes' /\ acq' \in BOOLEAN /\ Receiving'
<1>1. CASE Sample
  <2>1. acq' \in BOOLEAN
    BY <1>1 DEF Sample, Types
  <2>2. UNCHANGED header_enc_len
    BY <1>1 DEF Sample, Write, gen_vars, gconfig
  <2>3. CASE Acquire /\ called' = "none" /\ UNCHANGED <<counters, rx_config, rx_alloc>>
    <3>1. SyncTypes' /\ (state' # "RXSYMBOLS" => state # "RXSYMBOLS" /\ ms_pilot' = 0)
      BY <2>3, AcquireStep
    <3>2. UNCHANGED <<fstate, header_symbol_index, payload_symbol_index, header_soft, payload_soft,
                      rx_header_enc_len, rx_payload, payload_enc_len>>
      BY <2>3 DEF counters, rx_config, rx_alloc
    <3> QED
      BY <2>1, <2>2, <3>1, <3>2 DEF Receiving
  <2>4. CASE internal_callback(Tx, acq)
    BY <2>1, <2>2, <2>4, CallbackStep DEF Receiving
  <2> QED
    BY <1>1, <2>3, <2>4 DEF Sample, execute, Acquire
<1>2. CASE Transmitter \/ UNCHANGED vars
  <2>1. /\ UNCHANGED <<state, timer, num_symbols, ms_pilot, fstate, header_symbol_index,
                       payload_symbol_index, header_soft, payload_soft, rx_header_enc_len,
                       rx_payload, payload_enc_len, called, header_enc_len>>
        /\ acq' \in BOOLEAN
    BY <1>2 DEF Transmitter, Disturbed, vars, fs_vars, flex_vars, counters, rx_config, rx_alloc,
       GenReset, Assemble, SetProps, gconfig, gen_vars, Types
  <2>2. UNCHANGED <<header_sym_len, payload_mod_len>>
    BY <2>1 DEF header_sym_len, payload_mod_len
  <2>3. SyncTypes'
    BY <2>1, <2>2 DEF Types, SyncTypes
  <2> QED
    BY <2>1, <2>3 DEF Receiving
<1>3. CASE Receiver
  <2>1. UNCHANGED <<header_enc_len, rx_header_enc_len>> /\ acq' \in BOOLEAN
    BY <1>3 DEF Receiver, gen_vars, gconfig, Reset, decode_header_soft, decode_payload_soft,
       rx_config, Disturbed, Undisturbed, Types
  <2>2. /\ SyncTypes' /\ state' = "SEEKPLCP"
        /\ fstate' = "HEADER" /\ ms_pilot' = 0 /\ header_symbol_index' = 0
        /\ payload_symbol_index' = 0 /\ header_soft' \in SoftHeader \cup {FALSE}
    BY <1>3, SynchronizerCalls DEF Receiver
  <2> QED
    BY <2>1, <2>2 DEF Receiving
<1>4. CASE HeaderLen
  <2>1. rx_header_enc_len' = header_enc_len' /\ acq' \in BOOLEAN
    BY <1>4 DEF HeaderLen, set_header_len, rx_set_header_len, Disturbed
  <2>2. /\ SyncTypes' /\ state' = "SEEKPLCP"
        /\ fstate' = "HEADER" /\ ms_pilot' = 0 /\ header_symbol_index' = 0
        /\ payload_symbol_index' = 0 /\ header_soft' \in SoftHeader \cup {FALSE}
    BY <1>4, SynchronizerCalls DEF HeaderLen
  <2> QED
    BY <2>1, <2>2 DEF Receiving
<1> QED
  BY <1>1, <1>2, <1>3, <1>4 DEF Next

-----------------------------------------------------------------------------
(* In step. *)

(* The frame does not end before its last symbol is received. *)
LEMMA StillSending ==
  ASSUME Types, Generated, InStep, Receiving, acq, Sample
  PROVE  /\ sent' = sent + 1 /\ frame_assembled' /\ UNCHANGED gconfig
         /\ num_symbols \in Nat /\ timer >= 1 /\ sent + timer = (4 + num_symbols) * frame_len
         /\ num_symbols < num_symbols_header + num_symbols_payload
<1>1. frame_assembled /\ gstate # "ZEROS"
  BY DEF InStep, Generated
<1>2. Write
  BY <1>1 DEF Sample, Writes
<1>3. num_symbols \in Nat /\ timer >= 1 /\ timer \in Nat /\ sent \in Nat
      /\ sent + timer = (4 + num_symbols) * frame_len
      /\ fstate \in {"HEADER", "PAYLOAD"}
  <2>1. timer \in 0..(2 * M + cp_len) /\ state = "RXSYMBOLS" /\ timer > 0
    BY DEF Types, SyncTypes, InStep
  <2>2. /\ num_symbols \in Nat /\ sent \in Nat /\ fstate \in {"HEADER", "PAYLOAD"}
        /\ sent + timer = (4 + num_symbols) * frame_len
    BY DEF Types, SyncTypes, GenTypes, InStep
  <2> QED
    BY <2>1, <2>2, Sizes
<1>4. num_symbols < num_symbols_header + num_symbols_payload
  BY <1>3, SectionSizes DEF InStep
<1>5. ~(buf_index >= frame_len /\ gen_tail)
  <2> SUFFICES ASSUME buf_index >= frame_len, gen_tail PROVE FALSE
    OBVIOUS
  <2>1. sent = Computed * frame_len /\ Computed = getframelen
    BY <1>1, <1>2, SymbolSamples DEF gen_tail, Computed
  <2>2. (4 + num_symbols) * frame_len <= Computed * frame_len
    BY <1>3, <1>4, <2>1, Sizes, SectionSizes, Monotone
  <2> QED
    BY <1>3, <2>1, <2>2, Sizes, SectionSizes, SymbolSamples
<1>6. UNCHANGED frame_assembled
  BY <1>1, <1>2, <1>5 DEF Write, gen_symbol, Preamble, gen_header, gen_payload, gen_zeros
<1> QED
  BY <1>1, <1>2, <1>3, <1>4, <1>6 DEF Write

(* S1 found where it is puts the synchronizer in step. *)
LEMMA Acquired ==
  ASSUME IInv, Sample, Generated', state = "PLCPLONG", acq' PROVE InStep'
<1> USE DEF IInv, Base
<1>1. state' = "RXSYMBOLS" /\ Aligned(sent') /\ execute(sent', Tx, acq)
  BY DEF Sample
<1>2. execute_S1(sent') /\ UNCHANGED counters
  BY <1>1 DEF execute, execute_seekplcp, execute_S0a, execute_S0b, rxwait, internal_callback, rxdue
<1>3. timer' = FirstSymbolDelay /\ num_symbols' = 0 /\ ms_pilot' = ms_pilot
  BY <1>1, <1>2 DEF execute_S1, ofdmframesync_reset
<1>4. fstate' = "HEADER" /\ header_symbol_index' = 0 /\ ms_pilot' = 0
  BY <1>2, <1>3 DEF Receiving, counters
<1>5. sent' = 3 * frame_len - backoff /\ sent' + timer' = 4 * frame_len
  <2>1. sent' - M = 2 * frame_len + cp_len - backoff
    BY <1>1, Sizes DEF Aligned
  <2>2. sent' \in Int
    BY GeneratorStep DEF Next, GenTypes
  <2> QED
    <3>1. timer' = M + cp_len + backoff
      BY <1>3 DEF FirstSymbolDelay
    <3>2. \A s \in Int : s - M = 2 * frame_len + cp_len - backoff =>
            s = 3 * frame_len - backoff /\ s + (M + cp_len + backoff) = 4 * frame_len
      BY Sizes
    <3> QED
      BY <2>1, <2>2, <3>1, <3>2
<1>6. frame_assembled'
  <2>1. ~(sent' = 0 \/ sent' > 3 * frame_len)
    BY <1>5, Sizes
  <2>2. gstate' # "ZEROS"
    BY <2>1 DEF Generated
  <2>3. gstate' = "S0a" => sent' = (0 - 1) * frame_len + frame_len
    BY DEF Generated, Computed
  <2>4. gstate' # "S0a"
    BY <2>1, <2>3, Sizes
  <2> QED
    BY <2>2, <2>4 DEF Generated
<1>7. 0 < num_symbols_header'
  <2>1. UNCHANGED gconfig
    BY DEF Sample, Write, gen_vars
  <2> QED
    BY <2>1, SameSizes, SectionSizes
<1>8. 0 * M_data = 0 /\ (4 + 0) * frame_len = 4 * frame_len
  BY Sizes
<1> QED
  BY <1>1, <1>3, <1>4, <1>5, <1>6, <1>7, <1>8 DEF InStep

(* Both ends end the header, and the payload, with the same symbol. *)
LEMMA StaysInStep ==
  ASSUME HeaderFits, IInv, Sample, acq, acq', state # "PLCPLONG" PROVE InStep'
<1> USE DEF IInv, Base
<1> DEFINE n == num_symbols
           nh == num_symbols_header
           np == num_symbols_payload
<1>1. /\ sent' = sent + 1 /\ frame_assembled' /\ UNCHANGED gconfig
      /\ n \in Nat /\ timer \in Nat /\ sent \in Nat /\ timer >= 1
      /\ sent + timer = (4 + n) * frame_len /\ n < nh + np
  <2>1. timer \in 0..(2 * M + cp_len) /\ sent \in Nat
    BY DEF Types, SyncTypes, GenTypes
  <2> QED
    BY <2>1, StillSending, Sizes
<1>2. UNCHANGED <<gen_header_sym_len, gen_payload_mod_len, num_symbols_header, num_symbols_payload,
                  payload>>
  BY <1>1, SameSizes DEF gconfig
<1>3. state = "RXSYMBOLS" /\ state' = "RXSYMBOLS" /\ ms_pilot = n
  BY DEF InStep, Sample
<1>4. (4 + n) * frame_len \in Int /\ (4 + (n + 1)) * frame_len = (4 + n) * frame_len + frame_len
  <2>1. 4 + (n + 1) = (4 + n) + 1
    BY <1>1
  <2> QED
    BY <1>1, <2>1, Sizes, Distributes
<1>5. CASE rxwait /\ UNCHANGED <<counters, rx_alloc>>
  <2>1. timer' = timer - 1 /\ UNCHANGED <<num_symbols, ms_pilot, fstate, header_symbol_index,
                                          payload_symbol_index, rx_payload>>
    BY <1>5 DEF rxwait, counters, rx_alloc
  <2>2. sent' + timer' = (4 + n) * frame_len
    BY <1>1, <1>4, <2>1
  <2> QED
    BY <1>1, <1>2, <1>3, <2>1, <2>2 DEF InStep
<1>6. CASE internal_callback(Tx, acq)
  <2>1. timer = 1 /\ timer' = frame_len
    BY <1>6 DEF internal_callback, rxdue, SymbolDelay, frame_len
  <2>2. sent' + timer' = (4 + (n + 1)) * frame_len
    BY <1>1, <1>4, <2>1, Sizes
  <2>3. CASE fstate = "HEADER"
    <3>1. n < nh /\ header_symbol_index = n * M_data /\ rxheader(Tx, acq)
      BY <1>6, <2>3 DEF InStep, internal_callback
    <3>2. (n + 1) * M_data = n * M_data + M_data /\ n + 1 \in Nat /\ n * M_data \in Int
      BY <1>1, Sizes, Distributes
    <3>3. HeaderEnds <=> n + 1 >= nh
      BY <3>1, <3>2, Sizes, SectionSizes, SameHeader, SectionEnds DEF HeaderEnds, num_symbols_header
    <3>4. CASE HeaderEnds
      <4>1. /\ rx_payload' = payload /\ fstate' = "PAYLOAD" /\ num_symbols' = n + 1
            /\ ms_pilot' = ms_pilot + 1 /\ payload_symbol_index' = payload_symbol_index
        BY <1>3, <3>1, <3>4
           DEF rxheader, decode_header, Tx, rxsymbol, ofdmflexframesync_reset, ofdmframesync_reset
      <4>2. n + 1 = nh /\ payload_symbol_index = 0
        BY <1>1, <2>3, <3>1, <3>3, <3>4, SectionSizes DEF Receiving
      <4>3. (nh - nh) * M_data = 0 /\ nh \in nh..(nh + np - 1)
        <5>1. nh - nh = 0
          BY SectionSizes
        <5> QED
          BY <5>1, Sizes, SectionSizes
      <4> QED
        BY <1>1, <1>2, <1>3, <2>2, <4>1, <4>2, <4>3 DEF InStep
    <3>5. CASE ~HeaderEnds
      <4>1. /\ num_symbols' = n + 1 /\ ms_pilot' = ms_pilot + 1 /\ fstate' = "HEADER"
            /\ header_symbol_index' = header_symbol_index + M_data
        BY <2>3, <3>1, <3>5 DEF rxheader, rxsymbol
      <4>2. n + 1 < nh
        BY <1>1, <3>3, <3>5, SectionSizes
      <4> QED
        BY <1>1, <1>2, <1>3, <2>2, <3>1, <3>2, <4>1, <4>2 DEF InStep
    <3> QED
      BY <3>4, <3>5
  <2>4. CASE fstate = "PAYLOAD"
    <3>1. /\ n \in nh..(nh + np - 1) /\ payload_symbol_index = (n - nh) * M_data
          /\ rx_payload = payload /\ rxpayload(Tx, acq)
      BY <1>6, <2>4 DEF InStep, internal_callback
    <3>2. n - nh \in Nat /\ (n - nh) + 1 = (n + 1) - nh /\ (n - nh) * M_data \in Int
      BY <1>1, <3>1, Sizes, SectionSizes
    <3>3. ((n + 1) - nh) * M_data = (n - nh) * M_data + M_data
      BY <3>2, Sizes, Distributes
    <3>4. ~(payload_symbol_index + M_data >= payload_mod_len)
      BY <1>3, <3>1 DEF rxpayload, ofdmflexframesync_reset, ofdmframesync_reset
    <3>5. payload_mod_len = gen_payload_mod_len
      BY <3>1 DEF payload_mod_len, gen_payload_mod_len
    <3>6. (n + 1) - nh < np
      <4>1. ~(((n + 1) - nh) * M_data >= gen_payload_mod_len)
        BY <3>1, <3>3, <3>4, <3>5
      <4>2. (n + 1) - nh \in Nat
        BY <1>1, <3>2
      <4>3. ~((n + 1) - nh >= np)
        BY <4>1, <4>2, Sizes, SectionSizes, SectionEnds DEF num_symbols_payload
      <4> QED
        BY <4>2, <4>3, SectionSizes
    <3>7. /\ num_symbols' = n + 1 /\ ms_pilot' = ms_pilot + 1 /\ fstate' = "PAYLOAD"
          /\ payload_symbol_index' = payload_symbol_index + M_data /\ rx_payload' = rx_payload
      BY <2>4, <3>1, <3>4 DEF rxpayload, rxsymbol, rx_alloc
    <3>8. n + 1 \in nh..(nh + np - 1)
      BY <1>1, <3>1, <3>6, SectionSizes
    <3> QED
      BY <1>1, <1>2, <1>3, <2>2, <3>1, <3>3, <3>7, <3>8 DEF InStep
  <2> QED
    BY <2>3, <2>4 DEF Types, SyncTypes
<1> QED
  BY <1>3, <1>5, <1>6
     DEF Sample, execute, execute_seekplcp, execute_S0a, execute_S0b, execute_S1

LEMMA InStepStep ==
  ASSUME HeaderFits, IInv, Generated', [Next]_vars PROVE InStep'
<1> SUFFICES ASSUME acq' PROVE InStep'
  BY DEF InStep
<1>1. CASE Sample
  <2>1. CASE state = "PLCPLONG"
    BY <1>1, <2>1, Acquired
  <2>2. CASE state # "PLCPLONG"
    BY <1>1, <2>2, StaysInStep DEF Sample
  <2> QED
    BY <2>1, <2>2
<1>2. CASE Receiver
  <2>1. acq /\ state = "SEEKPLCP"
    BY <1>2 DEF Receiver, Disturbed, Undisturbed, decode_header_soft, decode_payload_soft
  <2> QED
    BY <2>1 DEF IInv, Base, InStep
<1>3. CASE UNCHANGED vars
  <2>1. UNCHANGED <<acq, state, frame_assembled, sent, timer, num_symbols, ms_pilot, fstate,
                    header_symbol_index, payload_symbol_index, rx_payload, payload>>
    BY <1>3 DEF vars, gen_vars, gvars, gconfig, fs_vars, flex_vars, counters, rx_alloc
  <2>2. UNCHANGED <<num_symbols_header, num_symbols_payload>>
    BY <1>3, SameSizes DEF vars, gen_vars
  <2> QED
    BY <2>1, <2>2 DEF IInv, Base, InStep
<1> QED
  BY <1>1, <1>2, <1>3 DEF Next, Transmitter, HeaderLen, Disturbed

(* What is received in step was sent as what it is received as. *)
LEMMA HeardIsSent ==
  ASSUME IInv, Sample, acq, rxdue
  PROVE  /\ TaperFits => /\ Heard.from >= SymbolStart(Heard.n) + taper_len
                         /\ Heard.from + M <= SymbolStart(Heard.n) + frame_len
         /\ Heard.rx = Heard.tx
<1> USE DEF IInv, Base
<1> DEFINE n == num_symbols
<1>1. /\ sent' = sent + 1 /\ n \in Nat /\ timer = 1 /\ sent \in Nat
      /\ sent + 1 = (4 + n) * frame_len
  BY StillSending DEF rxdue, Types, GenTypes
<1>2. /\ (4 + n) * frame_len = (3 + n) * frame_len + frame_len
      /\ (3 + n) * frame_len \in Int
  <2>1. 4 + n = (3 + n) + 1
    BY <1>1
  <2> QED
    BY <1>1, <2>1, Sizes, Distributes
<1>3. TaperFits => /\ Heard.from >= SymbolStart(Heard.n) + taper_len
                   /\ Heard.from + M <= SymbolStart(Heard.n) + frame_len
  <2>1. SymbolStart(Heard.n) = (3 + n) * frame_len
    <3>1. 2 + (n + 1) = 3 + n
      BY <1>1
    <3> QED
      BY <3>1 DEF SymbolStart, Heard
  <2>2. Heard.from = (4 + n) * frame_len - M - backoff
    BY <1>1 DEF Heard, WindowStart
  <2> QED
    BY <1>2, <2>1, <2>2, Sizes DEF TaperFits
<1>4. gstate \in {"S0b", "S1", "HEADER", "PAYLOAD", "TAIL"}
  <2>1. frame_assembled
    BY DEF InStep
  <2>2. gstate = "S0a" => sent = (0 - 1) * frame_len + frame_len
    BY DEF Generated, Computed
  <2>3. sent # 0
    <3>1. 1 * frame_len <= (4 + n) * frame_len
      BY <1>1, Sizes, Monotone
    <3> QED
      BY <1>1, <1>2, <3>1, Sizes
  <2>4. gstate # "S0a"
    BY <2>2, <2>3, Sizes
  <2> QED
    BY <2>1, <2>4 DEF Generated, Types, GenTypes
<1>5. Computed - 1 = 3 + n
  <2>1. sent = (Computed - 1) * frame_len + buf_index
    BY <1>4 DEF Generated
  <2>2. buf_index \in 1..frame_len
    BY <1>4, Sizes DEF Generated, Types, GenTypes
  <2>3. sent = (3 + n) * frame_len + (frame_len - 1) /\ frame_len - 1 \in 1..frame_len
    BY <1>1, <1>2, Sizes
  <2>4. Computed - 1 \in Int /\ 3 + n \in Int
    BY <1>1, SectionSizes DEF Computed, Types, GenTypes
  <2> QED
    BY <2>1, <2>2, <2>3, <2>4, Sizes, OneSymbol
<1>6. gen_pilot - 1 = n
  <2>1. gstate \in {"HEADER", "PAYLOAD", "TAIL"}
    BY <1>1, <1>4, <1>5 DEF Computed
  <2>2. gen_pilot = Computed - 3 /\ Computed \in Int
    BY <2>1, SectionSizes DEF Generated, Computed, Types, GenTypes
  <2> QED
    BY <1>1, <1>5, <2>2
<1>7. ms_pilot = n /\ fstate = IF n + 1 <= num_symbols_header THEN "HEADER" ELSE "PAYLOAD"
  <2>1. ms_pilot = n /\ fstate \in {"HEADER", "PAYLOAD"}
    BY DEF InStep, Types, SyncTypes
  <2>2. fstate = "HEADER" => n + 1 <= num_symbols_header
    BY <1>1, SectionSizes DEF InStep
  <2>3. fstate = "PAYLOAD" => ~(n + 1 <= num_symbols_header)
    BY <1>1, SectionSizes DEF InStep
  <2> QED
    BY <2>1, <2>2, <2>3
<1> QED
  BY <1>3, <1>6, <1>7 DEF Heard

LEMMA HeardStep ==
  ASSUME IInv, [Next]_vars PROVE HeardRight'
<1>1. CASE UNCHANGED heard
  BY <1>1 DEF IInv, HeardRight, WindowInSymbol, SameSymbol
<1>2. CASE Sample
  <2>1. CASE acq /\ rxdue
    <3>1. heard' = Heard
      BY <1>2, <2>1 DEF Sample
    <3> QED
      BY <1>2, <2>1, <3>1, HeardIsSent DEF HeardRight, WindowInSymbol, SameSymbol, SymbolStart
  <2>2. CASE ~(acq /\ rxdue)
    BY <1>2, <2>2 DEF Sample, HeardRight, WindowInSymbol, SameSymbol
  <2> QED
    BY <2>1, <2>2
<1> QED
  BY <1>1, <1>2 DEF Next, Transmitter, Receiver, HeaderLen, Disturbed, Undisturbed, vars

-----------------------------------------------------------------------------
LEMMA BaseInvariance == Spec => []Base
<1>1. Init => Base
  BY InitLemma DEF IInv
<1>2. Base /\ [Next]_vars => Base'
  BY GeneratorStep, SynchronizerStep DEF Base, Types
<1> QED
  BY <1>1, <1>2, PTL DEF Spec

LEMMA Invariance ==
  ASSUME HeaderFits PROVE Spec => []IInv
<1>1. Init => IInv
  BY InitLemma
<1>2. IInv /\ [Next]_vars => IInv'
  <2> SUFFICES ASSUME IInv, [Next]_vars PROVE IInv'
    OBVIOUS
  <2>1. Base'
    BY GeneratorStep, SynchronizerStep DEF IInv, Base, Types
  <2>2. InStep'
    BY <2>1, InStepStep DEF Base
  <2>3. HeardRight'
    BY HeardStep
  <2> QED
    BY <2>1, <2>2, <2>3 DEF IInv
<1> QED
  BY <1>1, <1>2, PTL DEF Spec

(* Every variable keeps its type: no delay of the synchronizer is negative or
   longer than its window, no symbol of a payload is counted past the last.  *)
THEOREM TypeTheorem == Spec => []TypeOK
<1>1. Base => TypeOK
  BY DEF Base, Types, GenTypes, SyncTypes, TypeOK
<1> QED
  BY <1>1, BaseInvariance, PTL

(* However the sections' symbols and the subcarriers divide, the generator
   reaches its tail with all of header and payload modulated, and after the
   samples that getframelen() announced.                                     *)
THEOREM FrameWholeTheorem == Spec => []FrameWhole
<1>1. Base => FrameWhole
  <2> SUFFICES ASSUME Base, gstate = "TAIL"
               PROVE  /\ gen_header_index = gen_header_sym_len
                      /\ gen_payload_index = gen_payload_mod_len
                      /\ sent + frame_len - buf_index = End
    BY DEF FrameWhole
  <2>1. sent = (getframelen - 1) * frame_len + buf_index
    BY DEF Base, Generated, Computed
  <2>2. buf_index \in Int /\ getframelen \in Int
    BY SectionSizes DEF Base, Types, GenTypes
  <2>3. (getframelen - 1) * frame_len = getframelen * frame_len - frame_len
        /\ getframelen * frame_len \in Int
    BY <2>2, Sizes, Distributes
  <2>4. sent + frame_len - buf_index = End
    BY <2>1, <2>2, <2>3, Sizes DEF End
  <2> QED
    BY <2>4 DEF Base, Generated
<1> QED
  BY <1>1, BaseInvariance, PTL

(* Whatever is received, in step or not, header and payload are written inside
   their buffers: unless the header is decoded from soft decisions of symbols
   of several bits.                                                          *)
THEOREM BuffersFitTheorem ==
  ASSUME HeaderFits PROVE Spec => []BuffersFit
<1>1. Base => BuffersFit
  <2> SUFFICES ASSUME Base PROVE BuffersFit
    OBVIOUS
  <2> DEFINE bps == rx_payload.bps
             k == payload_symbol_index
             n == payload_mod_len
  <2>1. /\ bps \in Nat \ {0} /\ rx_payload.enc \in Nat \ {0} /\ n \in Nat \ {0}
        /\ header_sym_len \in Nat
    BY SectionSizes DEF Base
  <2>2. /\ header_symbol_index \in 0..header_sym_len /\ k \in 0..(n - 1)
        /\ payload_enc_len \in Nat /\ fstate \in {"HEADER", "PAYLOAD"}
    BY DEF Base, Types, SyncTypes
  <2>3. HeaderStride * header_symbol_index <= header_sym_len
    <3>1. HeaderStride = 1
      BY SameHeader DEF Base, HeaderStride
    <3> QED
      BY <2>1, <2>2, <3>1
  <2>4. k \in Int /\ k <= n /\ k - 1 <= n - 1 /\ k - 1 \in Int
    BY <2>1, <2>2
  <2>5. CASE fstate = "HEADER"
    <3>1. k = 0 /\ bps * 0 = 0
      BY <2>1, <2>5 DEF Base, Receiving
    <3> QED
      BY <2>2, <2>3, <3>1 DEF BuffersFit
  <2>6. CASE fstate = "PAYLOAD"
    <3>1. payload_enc_len = PayloadRoom(rx_payload, payload_soft)
      BY <2>6 DEF Base, Receiving
    <3>2. ASSUME payload_soft PROVE bps * k <= payload_enc_len
      <4>1. payload_enc_len = bps * n
        BY <3>1, <3>2 DEF PayloadRoom, payload_mod_len
      <4>2. k * bps <= n * bps
        BY <2>1, <2>4, Monotone
      <4>3. k * bps = bps * k /\ n * bps = bps * n
        BY <2>1, <2>4
      <4> QED
        BY <4>1, <4>2, <4>3
    <3>3. ASSUME ~payload_soft PROVE bps * (k - 1) < 8 * payload_enc_len
      <4>1. payload_enc_len = rx_payload.enc
        BY <3>1, <3>3 DEF PayloadRoom
      <4>2. 8 * rx_payload.enc \in Nat \ {0}
        BY <2>1
      <4>3. (n - 1) * bps < 8 * rx_payload.enc
        BY <2>1, <4>2, QuotientIs DEF payload_mod_len
      <4>4. (k - 1) * bps <= (n - 1) * bps
        BY <2>1, <2>4, Monotone
      <4>5. (k - 1) * bps = bps * (k - 1) /\ (n - 1) * bps \in Int /\ (k - 1) * bps \in Int
        BY <2>1, <2>4
      <4> HIDE DEF n, k, bps
      <4> QED
        BY <4>1, <4>2, <4>3, <4>4, <4>5
    <3> QED
      BY <2>3, <3>2, <3>3 DEF BuffersFit
  <2> QED
    BY <2>2, <2>5, <2>6
<1> QED
  BY <1>1, BaseInvariance, PTL

(* A synchronizer in step takes every header symbol for header and every
   payload symbol for payload, with the pilots they were sent with, whatever
   the number of subcarriers, the header's length and the payload's.         *)
THEOREM SameSymbolTheorem ==
  ASSUME HeaderFits PROVE Spec => []SameSymbol
<1>1. IInv => SameSymbol
  BY DEF IInv, HeardRight
<1> QED
  BY <1>1, Invariance, PTL

(* Its transforms never reach into a neighbouring symbol, where the taper and
   the backoff together leave them room.                                     *)
THEOREM WindowTheorem ==
  ASSUME HeaderFits, TaperFits PROVE Spec => []WindowInSymbol
<1>1. IInv => WindowInSymbol
  BY DEF IInv, HeardRight
<1> QED
  BY <1>1, Invariance, PTL

-----------------------------------------------------------------------------
(* Acquisition. *)

(* The transform that is aligned with S1 ends before this sample. *)
S1End == S1Start - backoff + M

(* The states of acquisition, each with when its next transform is due. *)
OnTrack ==
  \/ state = "SEEKPLCP" /\ timer < M /\ sent < timer + Strong
  \/ state = "PLCPSHORT0" /\ timer >= M /\ sent \in Weak..(M + Strong - 1)
  \/ /\ state = "PLCPSHORT1" /\ timer < M2
     /\ sent + M2 - timer \in (Weak + 1 + M2)..(M + Strong + M2)
  \/ /\ state = "PLCPLONG"
     /\ \E n \in Nat : sent + timer + n * M2 = S1End /\ num_symbols + n < Tries
Untried == state \notin {"PLCPLONG", "RXSYMBOLS"} => num_symbols = 0
Searching ==
  armed /\ frame_assembled /\ sent > 0 =>
    IF acq THEN called = "none"
    ELSE \/ sent = End /\ state = "SEEKPLCP" /\ called = "payload"
         \/ called = "none" /\ OnTrack

LEMMA SyncSizes ==
  /\ Weak \in Nat \ {0} /\ Strong \in Nat /\ Weak <= Strong /\ Strong <= M
  /\ Tries \in Nat \ {0} /\ M2 \div 2 \in Nat /\ S0Len = 2 * M + 2 * cp_len
  /\ S1End \in Int /\ S1End = 3 * M + 3 * cp_len - backoff /\ S1End >= 3 * M
<1>1. /\ Weak \in Nat \ {0} /\ Strong \in Nat /\ Weak <= Strong /\ Strong <= M
      /\ Tries \in Nat \ {0}
  BY SyncAssumption, Sizes
<1>2. M2 \div 2 \in Nat
  BY Sizes
<1>3. S0Len = 2 * M + 2 * cp_len
  BY Sizes DEF S0Len
<1>4. S1End \in Int /\ S1End = 3 * M + 3 * cp_len - backoff /\ S1End >= 3 * M
  BY Sizes DEF S1End
<1> QED
  BY <1>1, <1>2, <1>3, <1>4

(* How much of S0 the transform that ends with sample p covers. *)
LEMMA OverlapIs ==
  ASSUME NEW p \in Nat
  PROVE  /\ p <= M => Overlap(p) = p
         /\ p >= M /\ p <= S0Len => Overlap(p) = M
         /\ p >= S0Len /\ p <= S0Len + M - Weak => Overlap(p) >= Weak
BY Sizes, SyncSizes DEF Overlap

(* Seeking, no more than M samples after the last transform. *)
LEMMA Seeks ==
  ASSUME Types, execute_seekplcp(sent'), sent' = sent + 1,
         sent = 0 \/ (timer < M /\ sent < timer + Strong),
         ~(state' = "PLCPSHORT0" /\ Overlap(sent') < Weak)
  PROVE  OnTrack'
<1> DEFINE p == sent + 1
<1>1. timer \in Nat /\ sent \in Nat /\ p \in Nat /\ p >= 1
  <2>1. timer \in 0..(2 * M + cp_len) /\ sent \in Nat
    BY DEF Types, SyncTypes, GenTypes
  <2> QED
    BY <2>1, Sizes
<1>2. state = "SEEKPLCP"
  BY DEF execute_seekplcp
<1>3. CASE timer + 1 < M
  <2>1. state' = "SEEKPLCP" /\ timer' = timer + 1
    BY <1>2, <1>3 DEF execute_seekplcp, Wait
  <2>2. timer' < M /\ sent' < timer' + Strong
    BY <1>1, <1>3, <2>1, Sizes, SyncSizes
  <2> QED
    BY <2>1, <2>2 DEF OnTrack
<1>4. CASE ~(timer + 1 < M)
  <2>1. p <= M + Strong - 1
    BY <1>1, <1>4, Sizes, SyncSizes
  <2>2. Overlap(p) = IF p <= M THEN p ELSE M
    BY <1>1, <2>1, OverlapIs, Sizes, SyncSizes
  <2>3. CASE state' = "SEEKPLCP"
    <3>1. Overlap(p) < Strong /\ timer' = 0
      BY <1>4, <2>3 DEF execute_seekplcp
    <3>2. p < Strong
      BY <1>1, <2>2, <3>1, Sizes, SyncSizes
    <3> QED
      <4>1. timer' < M /\ sent' < timer' + Strong
        BY <1>1, <3>1, <3>2, Sizes, SyncSizes
      <4> QED
        BY <2>3, <4>1 DEF OnTrack
  <2>4. CASE state' = "PLCPSHORT0"
    <3>1. PICK dt \in Taus(p) : timer' = ((M + dt) % M2) + M
      BY <1>4, <2>4, <1>2 DEF execute_seekplcp
    <3>2. timer' >= M
      <4>1. dt \in Int
        BY SyncSizes DEF Taus, AllTaus
      <4>2. (M + dt) % M2 \in 0..(M2 - 1)
        BY <4>1, Sizes
      <4> QED
        BY <3>1, <4>2, Sizes
    <3>3. ~(Overlap(p) < Weak)
      BY <2>4
    <3>4. p >= Weak
      BY <1>1, <2>2, <3>3, Sizes, SyncSizes
    <3> QED
      BY <1>1, <2>1, <2>4, <3>2, <3>4, Sizes, SyncSizes DEF OnTrack
  <2> QED
    BY <1>2, <1>4, <2>3, <2>4 DEF execute_seekplcp
<1> QED
  BY <1>3, <1>4

LEMMA Multiple ==
  ASSUME NEW d \in Int, NEW f \in Nat \ {0}, d % f = 0
  PROVE  \E k \in Int : d = k * f
<1>1. \E k \in Int : d = f * k
  OBVIOUS
<1> QED
  BY <1>1

(* The offset that the second transform finds leads to S1, some symbols of M2
   samples from where the search begins, and not more than are tried.        *)
LEMMA SearchBegins ==
  ASSUME HeardEarly, EnoughTries,
         NEW q \in (Weak + 1 + M2)..(M + Strong + M2), NEW tau \in Taus(q)
  PROVE  \E n \in Nat : q + S1Delay(tau) + n * M2 = S1End /\ n < Tries
<1>1. q \in Nat /\ Weak + 1 + M2 <= q /\ q <= M + Strong + M2
  BY Sizes, SyncSizes
<1>2. Overlap(q) >= Weak
  <2>1. q >= S0Len => q <= S0Len + M - Weak
    BY <1>1, Sizes, SyncSizes DEF HeardEarly
  <2>2. q <= M \/ (q >= M /\ q <= S0Len) \/ q >= S0Len
    BY <1>1, Sizes, SyncSizes
  <2>3. q >= Weak /\ M >= Weak
    BY <1>1, Sizes, SyncSizes
  <2> QED
    BY <1>1, <2>1, <2>2, <2>3, OverlapIs
<1>3. tau \in Int /\ tau <= M2 \div 2 /\ -(M2 \div 2) <= tau /\ (q - (M + 2 * cp_len + tau)) % M2 = 0
  BY <1>2, SyncSizes DEF Taus, AllTaus
<1> DEFINE d == q - (M + 2 * cp_len + tau)
<1>4. PICK k \in Int : d = k * M2
  <2>1. d \in Int /\ d % M2 = 0
    BY <1>1, <1>3, Sizes
  <2> HIDE DEF d
  <2> QED
    BY <2>1, Sizes, Multiple
<1> DEFINE n == 2 - k
<1>5. n \in Int /\ n * M2 = 2 * M2 - k * M2 /\ (n + 1) * M2 = n * M2 + M2
      /\ n * M2 \in Int /\ Tries * M2 \in Int /\ k * M2 \in Int
  BY Sizes, SyncSizes, Distributes
<1>6. n * M2 = M - d
  BY <1>4, <1>5, Sizes
<1> HIDE DEF n
<1>7. q + S1Delay(tau) + n * M2 = S1End
  BY <1>1, <1>3, <1>5, <1>6, Sizes, SyncSizes DEF S1Delay
<1>8. n >= 0
  <2>1. n * M2 + M2 > 0
    BY <1>1, <1>3, <1>5, <1>6, Sizes, SyncSizes DEF HeardEarly
  <2>2. CASE n + 1 <= 0
    <3>1. (n + 1) * M2 <= 0 * M2 /\ 0 * M2 = 0
      BY <1>5, <2>2, Sizes, Monotone
    <3> QED
      BY <1>5, <2>1, <3>1, Sizes
  <2> QED
    BY <1>5, <2>2
<1>9. n < Tries
  <2>1. n * M2 < Tries * M2
    BY <1>1, <1>3, <1>5, <1>6, Sizes, SyncSizes DEF EnoughTries
  <2>2. CASE Tries <= n
    <3>1. Tries * M2 <= n * M2
      BY <1>5, <2>2, Sizes, SyncSizes, Monotone
    <3> QED
      BY <1>5, <2>1, <3>1
  <2> QED
    BY <1>5, <2>2, SyncSizes
<1> QED
  BY <1>5, <1>7, <1>8, <1>9

LEMMA FrameEnd ==
  ASSUME Types PROVE End \in Int /\ S1End < End
<1>1. getframelen \in Nat /\ getframelen >= 5
  BY SectionSizes
<1>2. 5 * frame_len <= getframelen * frame_len /\ getframelen * frame_len \in Int
  BY <1>1, Sizes, Monotone
<1> QED
  BY <1>2, Sizes, SyncSizes DEF End

(* A frame that has begun and goes on: the generator has not reached the end. *)
LEMMA GoesOn ==
  ASSUME Types, Generated, Sample, frame_assembled'
  PROVE  /\ sent' = sent + 1 /\ frame_assembled /\ UNCHANGED <<gconfig, End>>
         /\ sent \in Nat /\ sent < End /\ End \in Int
<1>1. Write
  BY DEF Sample, gen_vars, gvars, Writes
<1>2. frame_assembled
  BY <1>1 DEF Write, gen_symbol, Preamble, gen_header, gen_payload, gen_tail, gen_zeros
<1>3. gstate # "ZEROS" /\ sent' = sent + 1 /\ UNCHANGED gconfig
  BY <1>1, <1>2 DEF Generated, Write
<1>4. UNCHANGED End
  BY <1>3, SameSizes DEF End
<1>5. /\ Computed \in Nat /\ Computed <= getframelen /\ getframelen \in Nat /\ getframelen >= 5
      /\ gstate # "TAIL" => Computed <= getframelen - 1
  BY <1>3, SectionSizes DEF Computed, Generated, Types, GenTypes
<1>6. /\ sent = (Computed - 1) * frame_len + buf_index /\ buf_index \in Int
      /\ buf_index <= frame_len /\ sent \in Nat
  BY <1>3, Sizes DEF Generated, Types, GenTypes
<1>7. gstate = "TAIL" => buf_index < frame_len
  <2> SUFFICES ASSUME gstate = "TAIL", buf_index >= frame_len PROVE FALSE
    BY <1>6, Sizes
  <2>1. gen_tail
    BY <1>1 DEF Write, gen_symbol, Preamble, gen_header, gen_payload, gen_zeros
  <2> QED
    BY <2>1 DEF gen_tail
<1>8. /\ End = getframelen * frame_len /\ End \in Int
      /\ (getframelen - 1) * frame_len = End - frame_len
      /\ (Computed - 1) * frame_len = Computed * frame_len - frame_len
      /\ Computed * frame_len \in Int
  BY <1>5, Sizes, Distributes DEF End
<1>9. sent < End
  <2>1. Computed * frame_len <= getframelen * frame_len
    BY <1>5, Sizes, Monotone
  <2>2. gstate # "TAIL" => Computed * frame_len <= (getframelen - 1) * frame_len
    BY <1>5, Sizes, Monotone
  <2> QED
    BY <1>6, <1>7, <1>8, <2>1, <2>2, Sizes
<1> QED
  BY <1>2, <1>3, <1>4, <1>6, <1>8, <1>9

(* One sample of the search. *)
LEMMA SearchStep ==
  ASSUME HeardEarly, EnoughTries, IInv, Untried, Sample, frame_assembled', armed', ~acq,
         sent > 0 => OnTrack
  PROVE  called' = "none" /\ (~acq' => OnTrack')
<1> USE DEF IInv, Base
<1>1. /\ sent' = sent + 1 /\ sent \in Nat /\ timer \in Nat
      /\ num_symbols \in Nat
  <2>1. timer \in 0..(2 * M + cp_len) /\ num_symbols \in Nat
    BY DEF Types, SyncTypes
  <2> QED
    BY <2>1, GoesOn, Sizes
<1>2. ~Alarm /\ (sent = 0 => state = "SEEKPLCP")
  BY DEF Sample
<1>3. state # "RXSYMBOLS" /\ (state = "SEEKPLCP" => sent = 0 \/ (timer < M /\ sent < timer + Strong))
  BY <1>1, <1>2 DEF OnTrack
<1>4. Acquire /\ ~rxwait /\ called' = "none"
  BY <1>3 DEF Sample, execute, Acquire, internal_callback, rxdue, rxwait
<1>5. CASE execute_seekplcp(sent')
  <2>1. ~(state' = "PLCPSHORT0" /\ Overlap(sent') < Weak)
    BY <1>2, <1>5 DEF Alarm, execute_seekplcp
  <2>2. OnTrack'
    <3>1. Types /\ (sent = 0 \/ (timer < M /\ sent < timer + Strong))
      BY <1>3, <1>5 DEF execute_seekplcp
    <3> QED
      BY <1>1, <1>5, <2>1, <3>1, Seeks
  <2> QED
    BY <1>4, <2>2
<1>6. CASE execute_S0a
  <2>1. /\ state = "PLCPSHORT0" /\ sent \in Weak..(M + Strong - 1) /\ timer >= M
    BY <1>1, <1>2, <1>6 DEF execute_S0a, OnTrack
  <2>2. timer' = 0 /\ state' = "PLCPSHORT1"
    BY <1>1, <1>6, <2>1, Sizes DEF execute_S0a
  <2>3. timer' < M2 /\ sent' + M2 - timer' \in (Weak + 1 + M2)..(M + Strong + M2)
    BY <1>1, <2>1, <2>2, Sizes, SyncSizes
  <2> QED
    BY <1>4, <2>2, <2>3 DEF OnTrack
<1>7. CASE execute_S0b(sent')
  <2>1. /\ state = "PLCPSHORT1" /\ timer < M2
        /\ sent + M2 - timer \in (Weak + 1 + M2)..(M + Strong + M2)
    BY <1>1, <1>2, <1>7 DEF execute_S0b, OnTrack
  <2>2. CASE timer + 1 < M2
    <3>1. timer' = timer + 1 /\ state' = "PLCPSHORT1"
      BY <1>7, <2>1, <2>2 DEF execute_S0b, Wait
    <3>2. timer' < M2 /\ sent' + M2 - timer' = sent + M2 - timer
      BY <1>1, <2>2, <3>1, Sizes
    <3> QED
      BY <1>4, <2>1, <3>1, <3>2 DEF OnTrack
  <2>3. CASE ~(timer + 1 < M2)
    <3>1. PICK tau \in Taus(sent') : timer' = S1Delay(tau)
      BY <1>7, <2>3 DEF execute_S0b
    <3>2. state' = "PLCPLONG" /\ num_symbols' = 0
      BY <1>7, <2>1, <2>3 DEF execute_S0b, Untried
    <3>3. sent' \in (Weak + 1 + M2)..(M + Strong + M2)
      BY <1>1, <2>1, <2>3, Sizes, SyncSizes
    <3>4. PICK n \in Nat : sent' + S1Delay(tau) + n * M2 = S1End /\ n < Tries
      BY <3>3, SearchBegins
    <3>5. sent' + timer' + n * M2 = S1End /\ num_symbols' + n < Tries
      BY <3>1, <3>2, <3>4
    <3> QED
      BY <1>4, <3>2, <3>5 DEF OnTrack
  <2> QED
    BY <2>2, <2>3
<1>8. CASE execute_S1(sent')
  <2>1. PICK n \in Nat : sent + timer + n * M2 = S1End /\ num_symbols + n < Tries
    BY <1>1, <1>2, <1>8 DEF execute_S1, OnTrack
  <2>2. state = "PLCPLONG" /\ timer > 0
    BY <1>8 DEF execute_S1, Types, SyncTypes
  <2>3. n * M2 \in Int /\ (n - 1) * M2 = n * M2 - M2
    BY Sizes, Distributes
  <2>4. CASE timer - 1 > 0
    <3>1. timer' = timer - 1 /\ state' = "PLCPLONG" /\ num_symbols' = num_symbols
      BY <1>8, <2>2, <2>4 DEF execute_S1
    <3>2. sent' + timer' + n * M2 = S1End /\ num_symbols' + n < Tries
      BY <1>1, <2>1, <2>3, <3>1
    <3> QED
      BY <1>4, <3>1, <3>2 DEF OnTrack
  <2>5. CASE ~(timer - 1 > 0)
    <3>1. sent' + n * M2 = S1End
      BY <1>1, <2>1, <2>2, <2>3, <2>5
    <3>2. Aligned(sent') <=> sent' = S1End
      BY <1>1, Sizes, SyncSizes DEF Aligned, S1End
    <3>3. CASE Aligned(sent')
      <4>1. Accepts(sent') = {TRUE}
        BY <3>3 DEF Accepts
      <4>2. state' = "RXSYMBOLS"
        BY <1>8, <2>5, <4>1 DEF execute_S1
      <4>3. acq'
        BY <2>2, <3>3, <4>2 DEF Sample
      <4> QED
        BY <1>4, <4>3
    <3>4. CASE ~Aligned(sent')
      <4>1. n # 0
        BY <1>1, <3>1, <3>2, <3>4, Sizes, SyncSizes
      <4>2. n - 1 \in Nat /\ ~Bails
        BY <1>1, <2>1, <4>1, SyncSizes DEF Bails
      <4>3. state' # "RXSYMBOLS"
        BY <1>2, <2>2, <3>4 DEF Alarm
      <4>4. timer' = M2 /\ state' = "PLCPLONG" /\ num_symbols' = num_symbols + 1
        BY <1>8, <2>2, <2>5, <4>2, <4>3 DEF execute_S1
      <4>5. sent' + timer' + (n - 1) * M2 = S1End /\ num_symbols' + (n - 1) < Tries
        BY <1>1, <2>1, <2>3, <3>1, <4>4, Sizes, SyncSizes
      <4> QED
        BY <1>4, <4>2, <4>4, <4>5 DEF OnTrack
    <3> QED
      BY <3>3, <3>4
  <2> QED
    BY <2>4, <2>5
<1> QED
  BY <1>4, <1>5, <1>6, <1>7, <1>8 DEF Acquire

(* A frame in step is received to its end, and nothing is reported before. *)
LEMMA ReceiveStep ==
  ASSUME HeaderFits, HeaderRepacks, IInv, Sample, acq
  PROVE  \/ acq' /\ called' = "none"
         \/ ~acq' /\ sent' = End' /\ state' = "SEEKPLCP" /\ called' = "payload"
<1> USE DEF IInv, Base
<1> DEFINE n == num_symbols
           nh == num_symbols_header
           np == num_symbols_payload
<1>1. /\ sent' = sent + 1 /\ UNCHANGED gconfig /\ n \in Nat /\ sent \in Nat
      /\ sent + timer = (4 + n) * frame_len /\ n < nh + np
  BY StillSending DEF Types, GenTypes
<1>2. state = "RXSYMBOLS" /\ (acq' <=> state' = "RXSYMBOLS")
  BY DEF InStep, Sample
<1>3. (rxwait /\ called' = "none") \/ internal_callback(Tx, acq)
  BY <1>2 DEF Sample, execute, execute_seekplcp, execute_S0a, execute_S0b, execute_S1
<1>4. CASE rxwait /\ called' = "none"
  BY <1>2, <1>4 DEF rxwait
<1>5. CASE internal_callback(Tx, acq) /\ fstate = "HEADER"
  <2>1. repack_bytes
    <3>1. rx_header_enc_len \in HeaderBytes
      BY DEF Types, SyncTypes
    <3> QED
      BY <3>1 DEF repack_bytes, header_sym_len, HeaderRepacks
  <2>2. called' = "none" /\ UNCHANGED state
    BY <1>5, <2>1 DEF internal_callback, rxheader, decode_header
  <2> QED
    BY <1>2, <2>2
<1>6. CASE internal_callback(Tx, acq) /\ fstate = "PAYLOAD"
  <2>1. rxpayload(Tx, acq) /\ timer = 1
    BY <1>6 DEF internal_callback, rxdue
  <2>2. /\ n \in nh..(nh + np - 1) /\ payload_symbol_index = (n - nh) * M_data
        /\ payload_mod_len = gen_payload_mod_len
    BY <1>6 DEF InStep, payload_mod_len, gen_payload_mod_len
  <2>3. CASE ~(payload_symbol_index + M_data >= payload_mod_len)
    BY <1>2, <2>1, <2>3 DEF rxpayload
  <2>4. CASE payload_symbol_index + M_data >= payload_mod_len
    <3>1. n - nh + 1 \in Nat /\ (n - nh) * M_data + M_data = (n - nh + 1) * M_data
      BY <1>1, <2>2, Sizes, SectionSizes, Distributes
    <3>2. n - nh + 1 >= np
      BY <2>2, <2>4, <3>1, Sizes, SectionSizes, SectionEnds DEF num_symbols_payload
    <3>3. n + 1 = nh + np /\ getframelen = 4 + n
      BY <1>1, <2>2, <3>2, SectionSizes
    <3>4. sent' = End'
      <4>1. sent + 1 = getframelen * frame_len
        BY <1>1, <2>1, <3>3
      <4> QED
        BY <1>1, <4>1, SameSizes DEF End
    <3>5. called' = "payload" /\ state' = "SEEKPLCP"
      BY <2>1, <2>4, <3>3 DEF rxpayload, Tx, ofdmflexframesync_reset, ofdmframesync_reset
    <3> QED
      BY <1>2, <3>4, <3>5
  <2> QED
    BY <2>3, <2>4
<1> QED
  BY <1>3, <1>4, <1>5, <1>6 DEF Types, SyncTypes

LEMMA UntriedStep ==
  ASSUME Untried, [Next]_vars PROVE Untried'
<1>1. CASE Sample
  <2>1. CASE Acquire
    BY <2>1 DEF Acquire, execute_seekplcp, execute_S0a, execute_S0b, execute_S1, rxwait, Wait,
       ofdmframesync_reset, Untried
  <2>2. CASE internal_callback(Tx, acq)
    BY <2>2 DEF internal_callback, rxdue, rxheader, decode_header, rxpayload, rxsymbol,
       ofdmflexframesync_reset, ofdmframesync_reset, Untried
  <2> QED
    BY <1>1, <2>1, <2>2 DEF Sample, execute, Acquire
<1>2. CASE Reset
  BY <1>2 DEF Reset, ofdmflexframesync_reset, ofdmframesync_reset, Untried
<1>3. CASE UNCHANGED fs_vars
  BY <1>3 DEF fs_vars, Untried
<1> QED
  BY <1>1, <1>2, <1>3
     DEF Next, Transmitter, Receiver, HeaderLen, decode_header_soft, decode_payload_soft,
         rx_set_header_len, vars

LEMMA SearchingStep ==
  ASSUME HeaderFits, HeaderRepacks, HeardEarly, EnoughTries, IInv, Untried, Searching, [Next]_vars
  PROVE  Searching'
<1> SUFFICES ASSUME armed', frame_assembled', sent' > 0 PROVE Searching'
  BY DEF Searching
<1>1. CASE Sample
  <2>1. Types /\ Generated
    BY DEF IInv, Base
  <2>2. sent < End /\ sent \in Nat /\ frame_assembled
    BY <1>1, <2>1, GoesOn
  <2>3. CASE acq
    BY <1>1, <2>3, ReceiveStep DEF Searching
  <2>4. CASE ~acq
    <3>1. sent > 0 => OnTrack
      <4>1. sent # End
        BY <2>1, <2>2, FrameEnd
      <4>2. sent > 0 => armed /\ sent # 0
        <5>1. sent # 0 => armed
          BY <1>1 DEF Sample
        <5> QED
          BY <2>2, <5>1
      <4> QED
        BY <2>2, <2>4, <4>1, <4>2 DEF Searching
    <3> QED
      BY <1>1, <2>4, <3>1, SearchStep DEF Searching
  <2> QED
    BY <2>3, <2>4
<1>2. CASE UNCHANGED <<gen_vars, fs_vars, acq, armed, called>>
  <2>1. UNCHANGED <<End, frame_assembled, sent, state, timer, num_symbols, acq, armed, called>>
    BY <1>2, SameSizes DEF gen_vars, gvars, fs_vars, End
  <2>2. OnTrack' <=> OnTrack
    BY <2>1 DEF OnTrack
  <2> QED
    BY <2>1, <2>2 DEF Searching
<1>3. CASE Receiver
  BY <1>2, <1>3
     DEF Receiver, Disturbed, Undisturbed, decode_header_soft, decode_payload_soft
<1> QED
  BY <1>1, <1>2, <1>3 DEF Next, Transmitter, HeaderLen, Disturbed, vars, flex_vars

LEMMA Acquisition ==
  ASSUME HeaderFits, HeaderRepacks, HeardEarly, EnoughTries
  PROVE  Spec => [](IInv /\ Untried /\ Searching)
<1>1. Init => Untried /\ Searching
  BY DEF Init, FlexInit, Untried, Searching
<1>2. IInv /\ Untried /\ Searching /\ [Next]_vars => Untried' /\ Searching'
  BY UntriedStep, SearchingStep
<1> QED
  BY <1>1, <1>2, Invariance, PTL DEF Spec

(* Where it is in the frame the search is before S1, and a frame in step is
   not over.                                                                 *)
LEMMA SearchEnds ==
  ASSUME IInv, Searching, armed, frame_assembled, sent > 0
  PROVE  /\ acq => sent < End /\ called = "none"
         /\ ~acq /\ sent # End => sent < S1End /\ called = "none"
         /\ ~acq /\ sent = End => called = "payload"
<1> USE DEF IInv, Base
<1>1. timer \in Nat /\ sent \in Nat /\ (state \in {"PLCPLONG", "RXSYMBOLS"} => timer > 0)
  <2>1. timer \in 0..(2 * M + cp_len) /\ sent \in Nat
    BY DEF Types, SyncTypes, GenTypes
  <2>2. state \in {"PLCPLONG", "RXSYMBOLS"} => timer > 0
    BY DEF Types, SyncTypes
  <2> QED
    BY <2>1, <2>2, Sizes
<1>2. End \in Int /\ S1End < End
  BY FrameEnd
<1>3. ASSUME acq PROVE sent < End
  <2> DEFINE n == num_symbols
  <2>1. timer > 0 /\ sent + timer = (4 + n) * frame_len /\ n \in Nat
    BY <1>1, <1>3 DEF InStep, Types, SyncTypes
  <2>2. n < num_symbols_header + num_symbols_payload
    <3>1. fstate \in {"HEADER", "PAYLOAD"}
      BY DEF Types, SyncTypes
    <3> QED
      BY <1>3, <2>1, <3>1, SectionSizes DEF InStep
  <2>3. 4 + n <= getframelen /\ 4 + n \in Int /\ getframelen \in Int
    BY <2>1, <2>2, SectionSizes
  <2>4. (4 + n) * frame_len <= getframelen * frame_len
    BY <2>3, Sizes, Monotone
  <2>5. (4 + n) * frame_len \in Int
    BY <2>3, Sizes
  <2> QED
    BY <1>1, <1>2, <2>1, <2>4, <2>5 DEF End
<1>4. ASSUME OnTrack PROVE sent < S1End
  <2>1. CASE state = "SEEKPLCP" /\ timer < M /\ sent < timer + Strong
    BY <1>1, <2>1, Sizes, SyncSizes
  <2>2. CASE sent \in Weak..(M + Strong - 1)
    BY <1>1, <2>2, Sizes, SyncSizes
  <2>3. CASE timer < M2 /\ sent + M2 - timer \in (Weak + 1 + M2)..(M + Strong + M2)
    BY <1>1, <2>3, Sizes, SyncSizes
  <2>4. ASSUME state = "PLCPLONG", NEW n \in Nat, sent + timer + n * M2 = S1End
        PROVE  sent < S1End
    <3>1. 0 * M2 <= n * M2 /\ n * M2 \in Int /\ 0 * M2 = 0
      BY Sizes, Monotone
    <3> QED
      BY <1>1, <2>4, <3>1, SyncSizes
  <2> QED
    BY <1>4, <2>1, <2>2, <2>3, <2>4 DEF OnTrack
<1>5. acq => called = "none"
  BY DEF Searching
<1>6. ~acq => (sent = End /\ called = "payload") \/ (called = "none" /\ OnTrack)
  BY DEF Searching
<1> QED
  BY <1>1, <1>2, <1>3, <1>4, <1>5, <1>6, SyncSizes

(* A frame whose first sample finds the synchronizer seeking is acquired,
   wherever in the frame its transforms happen to fall.                      *)
THEOREM AcquiredTheorem ==
  ASSUME HeaderFits, HeaderRepacks, HeardEarly, EnoughTries
  PROVE  Spec => []FrameAcquired
<1>1. IInv /\ Searching => FrameAcquired
  <2> SUFFICES ASSUME IInv, Searching, armed, frame_assembled,
                      sent \in (S1Start - backoff + M)..(End - 1), ~acq
               PROVE  FALSE
    BY DEF FrameAcquired
  <2>1. Types
    BY DEF IInv, Base
  <2>2. S1Start - backoff + M = S1End /\ S1End \in Int /\ S1End > 0 /\ End \in Int
    BY <2>1, FrameEnd, Sizes, SyncSizes DEF S1End
  <2>3. sent > 0 /\ sent # End /\ ~(sent < S1End)
    BY <2>2
  <2> QED
    BY <2>3, SearchEnds
<1> QED
  BY <1>1, Acquisition, PTL

(* Its payload is delivered, valid, with the last sample that getframelen()
   counts, and nothing is reported before.                                   *)
THEOREM DeliversTheorem ==
  ASSUME HeaderFits, HeaderRepacks, HeardEarly, EnoughTries
  PROVE  Spec => []DeliversOnTime
<1>1. IInv /\ Searching => DeliversOnTime
  <2> SUFFICES ASSUME IInv, Searching, armed, frame_assembled, sent > 0
               PROVE  called = IF sent = End THEN "payload" ELSE "none"
    BY DEF DeliversOnTime
  <2>1. Types
    BY DEF IInv, Base
  <2>2. sent \in Nat /\ End \in Int
    BY <2>1, FrameEnd DEF Types, GenTypes
  <2>3. /\ acq => sent < End /\ called = "none"
        /\ ~acq /\ sent # End => called = "none"
        /\ ~acq /\ sent = End => called = "payload"
    BY SearchEnds
  <2> QED
    BY <2>2, <2>3
<1> QED
  BY <1>1, Acquisition, PTL

-----------------------------------------------------------------------------
(* What FrameCloses needs beside fairness: whatever the synchronizer took for a
   frame, each sample brings it nearer to seeking again.                     *)

(* How much of an attempt is left: what is yet to come, the tries or entries
   left in what has come, and the samples until the next of them.            *)
ToCome ==
  CASE state = "PLCPSHORT0" -> 4
    [] state = "PLCPSHORT1" -> 3
    [] state = "PLCPLONG" -> 2
    [] state = "RXSYMBOLS" /\ fstate = "HEADER" -> 1
    [] OTHER -> 0
Entries ==
  CASE state = "PLCPLONG" -> Tries - num_symbols
    [] state = "RXSYMBOLS" /\ fstate = "HEADER" -> header_sym_len - header_symbol_index
    [] state = "RXSYMBOLS" /\ fstate = "PAYLOAD" -> payload_mod_len - payload_symbol_index
    [] OTHER -> 0
Delay == IF state \in {"PLCPSHORT0", "PLCPSHORT1"} THEN 2 * M + cp_len - timer ELSE timer
Left == <<ToCome, Entries, Delay>>

Less(a, b) ==
  \/ a[1] < b[1]
  \/ a[1] = b[1] /\ a[2] < b[2]
  \/ a[1] = b[1] /\ a[2] = b[2] /\ a[3] < b[3]

LeftBound == state # "SEEKPLCP" => Left \in Nat \X Nat \X Nat
Closing ==
  \/ state' = "SEEKPLCP"
  \/ Less(Left', Left)
  \/ ~Sample /\ Left' = Left
FrameClosing == [][state # "SEEKPLCP" => Closing]_vars

SearchBound == Untried /\ (state = "PLCPLONG" => num_symbols < Tries)

LEMMA SearchBoundStep ==
  ASSUME Types, SearchBound, [Next]_vars PROVE SearchBound'
<1>1. Untried'
  BY UntriedStep DEF SearchBound
<1>2. num_symbols \in Nat /\ Tries \in Nat \ {0}
  BY SyncSizes DEF Types, SyncTypes
<1>3. CASE Sample
  <2>1. CASE execute_seekplcp(sent') \/ execute_S0a \/ rxwait \/ internal_callback(Tx, acq)
    <3>1. state' # "PLCPLONG"
      BY <2>1 DEF execute_seekplcp, execute_S0a, rxwait, Wait, internal_callback, rxdue, rxheader,
         decode_header, rxpayload, ofdmflexframesync_reset, ofdmframesync_reset
    <3> QED
      BY <1>1, <3>1 DEF SearchBound
  <2>2. CASE execute_S0b(sent')
    <3>1. num_symbols = 0 /\ UNCHANGED num_symbols
      BY <2>2 DEF execute_S0b, Wait, SearchBound, Untried
    <3> QED
      BY <1>1, <1>2, <3>1 DEF SearchBound
  <2>3. CASE execute_S1(sent')
    <3>1. \/ state' = "PLCPLONG" /\ num_symbols' \in {num_symbols, num_symbols + 1}
             /\ (num_symbols' = num_symbols + 1 => ~Bails)
          \/ state' # "PLCPLONG"
      BY <1>2, <2>3 DEF execute_S1, ofdmframesync_reset
    <3>2. state = "PLCPLONG" /\ num_symbols < Tries
      BY <2>3 DEF execute_S1, SearchBound
    <3>3. state' = "PLCPLONG" => num_symbols' < Tries
      BY <1>2, <3>1, <3>2 DEF Bails
    <3> QED
      BY <1>1, <3>3 DEF SearchBound
  <2> QED
    BY <1>3, <2>1, <2>2, <2>3 DEF Sample, execute
<1>4. CASE Reset
  BY <1>1, <1>4 DEF Reset, ofdmflexframesync_reset, ofdmframesync_reset, SearchBound
<1>5. CASE UNCHANGED fs_vars
  BY <1>1, <1>5 DEF fs_vars, SearchBound
<1> QED
  BY <1>3, <1>4, <1>5
     DEF Next, Transmitter, Receiver, HeaderLen, decode_header_soft, decode_payload_soft,
         rx_set_header_len, vars

LEMMA AcquireCloses ==
  ASSUME Types, Receiving, SearchBound, Acquire, UNCHANGED <<counters, rx_config, rx_alloc>>,
         state # "SEEKPLCP"
  PROVE  state' = "SEEKPLCP" \/ Less(Left', Left)
<1>1. UNCHANGED <<fstate, header_symbol_index, payload_symbol_index, header_sym_len,
                  payload_mod_len>>
  BY SameSections DEF counters
<1>2. /\ timer \in Nat /\ timer <= 2 * M + cp_len /\ num_symbols \in Nat /\ Tries \in Nat
      /\ M \in Nat /\ cp_len \in Nat /\ M2 \in Nat
  <2>1. timer \in 0..(2 * M + cp_len) /\ num_symbols \in Nat
    BY DEF Types, SyncTypes
  <2> QED
    BY <2>1, Sizes, SyncSizes
<1>3. CASE execute_S0a
  <2>1. CASE timer + 1 < M2
    <3>1. state = "PLCPSHORT0" /\ state' = "PLCPSHORT0" /\ timer' = timer + 1
      BY <1>3, <2>1 DEF execute_S0a, Wait
    <3>2. ToCome' = ToCome /\ Entries' = Entries /\ Delay' < Delay
      BY <1>2, <3>1 DEF ToCome, Entries, Delay
    <3> QED
      BY <3>2 DEF Less, Left
  <2>2. CASE ~(timer + 1 < M2)
    <3>1. state = "PLCPSHORT0" /\ state' = "PLCPSHORT1"
      BY <1>3, <2>2 DEF execute_S0a
    <3>2. ToCome' < ToCome
      BY <3>1 DEF ToCome
    <3> QED
      BY <3>2 DEF Less, Left
  <2> QED
    BY <2>1, <2>2
<1>4. CASE execute_S0b(sent')
  <2>1. CASE timer + 1 < M2
    <3>1. state = "PLCPSHORT1" /\ state' = "PLCPSHORT1" /\ timer' = timer + 1
      BY <1>4, <2>1 DEF execute_S0b, Wait
    <3>2. ToCome' = ToCome /\ Entries' = Entries /\ Delay' < Delay
      BY <1>2, <3>1 DEF ToCome, Entries, Delay
    <3> QED
      BY <3>2 DEF Less, Left
  <2>2. CASE ~(timer + 1 < M2)
    <3>1. state = "PLCPSHORT1" /\ state' = "PLCPLONG"
      BY <1>4, <2>2 DEF execute_S0b
    <3>2. ToCome' < ToCome
      BY <3>1 DEF ToCome
    <3> QED
      BY <3>2 DEF Less, Left
  <2> QED
    BY <2>1, <2>2
<1>5. CASE execute_S1(sent')
  <2>1. CASE timer - 1 > 0
    <3>1. state = "PLCPLONG" /\ state' = "PLCPLONG" /\ timer' = timer - 1
          /\ num_symbols' = num_symbols
      BY <1>5, <2>1 DEF execute_S1
    <3>2. ToCome' = ToCome /\ Entries' = Entries /\ Delay' < Delay
      BY <1>2, <3>1 DEF ToCome, Entries, Delay
    <3> QED
      BY <3>2 DEF Less, Left
  <2>2. CASE ~(timer - 1 > 0)
    <3>1. /\ state = "PLCPLONG"
          /\ \/ state' = "RXSYMBOLS"
             \/ state' = "SEEKPLCP"
             \/ state' = "PLCPLONG" /\ num_symbols' = num_symbols + 1
      BY <1>5, <2>2 DEF execute_S1, ofdmframesync_reset
    <3>2. CASE state' = "RXSYMBOLS"
      <4>1. fstate' = "HEADER"
        BY <1>1, <3>1 DEF Receiving
      <4>2. ToCome' < ToCome
        BY <3>1, <3>2, <4>1 DEF ToCome
      <4> QED
        BY <4>2 DEF Less, Left
    <3>3. CASE state' = "PLCPLONG" /\ num_symbols' = num_symbols + 1
      <4>1. ToCome' = ToCome /\ Entries' < Entries
        BY <1>2, <3>1, <3>3 DEF ToCome, Entries
      <4> QED
        BY <4>1 DEF Less, Left
    <3> QED
      BY <3>1, <3>2, <3>3
  <2> QED
    BY <2>1, <2>2
<1>6. CASE rxwait
  <2>1. state = "RXSYMBOLS" /\ state' = "RXSYMBOLS" /\ timer' = timer - 1
    BY <1>6 DEF rxwait
  <2>2. Entries' = Entries
    BY <1>1, <2>1, Zenon DEF Entries
  <2>3. ToCome' = ToCome /\ Delay' < Delay
    BY <1>1, <1>2, <2>1 DEF ToCome, Delay
  <2> QED
    BY <2>2, <2>3 DEF Less, Left
<1> QED
  BY <1>3, <1>4, <1>5, <1>6 DEF Acquire, execute_seekplcp

LEMMA CallbackCloses ==
  ASSUME Types, Receiving, internal_callback(Tx, acq)
  PROVE  state' = "SEEKPLCP" \/ Less(Left', Left)
<1>1. /\ header_symbol_index \in Nat /\ payload_symbol_index \in Nat /\ M_data \in Nat \ {0}
      /\ header_sym_len \in Nat /\ payload_mod_len \in Nat /\ state = "RXSYMBOLS"
      /\ fstate \in {"HEADER", "PAYLOAD"}
  <2>1. header_sym_len \in Nat \ {0} /\ payload_mod_len \in Nat \ {0}
    BY SectionSizes
  <2>2. /\ header_symbol_index \in 0..header_sym_len
        /\ payload_symbol_index \in 0..(payload_mod_len - 1) /\ fstate \in {"HEADER", "PAYLOAD"}
    BY DEF Types, SyncTypes
  <2> QED
    BY <2>1, <2>2, Sizes DEF internal_callback, rxdue
<1>2. CASE fstate = "HEADER"
  <2>1. rxheader(Tx, acq) /\ UNCHANGED rx_config
    BY <1>2 DEF internal_callback
  <2>2. CASE HeaderEnds
    <3>1. state' = "SEEKPLCP" \/ (state' = "RXSYMBOLS" /\ fstate' = "PAYLOAD")
      BY <1>1, <2>1, <2>2 DEF rxheader, decode_header, ofdmflexframesync_reset,
         ofdmframesync_reset
    <3>2. ASSUME state' = "RXSYMBOLS", fstate' = "PAYLOAD" PROVE ToCome' < ToCome
      BY <1>1, <1>2, <3>2 DEF ToCome
    <3> QED
      BY <3>1, <3>2 DEF Less, Left
  <2>3. CASE ~HeaderEnds
    <3>1. /\ state' = "RXSYMBOLS" /\ fstate' = "HEADER"
          /\ header_symbol_index' = header_symbol_index + M_data /\ UNCHANGED rx_alloc
      BY <1>1, <1>2, <2>1, <2>3 DEF rxheader
    <3>2. header_sym_len' = header_sym_len
      BY <2>1, <3>1, SameSections
    <3>3. Entries = header_sym_len - header_symbol_index
      BY <1>1, <1>2 DEF Entries
    <3>4. Entries' = header_sym_len - (header_symbol_index + M_data)
      BY <3>1, <3>2 DEF Entries
    <3>5. ToCome' = ToCome
      BY <1>1, <1>2, <3>1 DEF ToCome
    <3>6. Entries' < Entries
      BY <1>1, <3>3, <3>4
    <3> QED
      BY <3>5, <3>6 DEF Less, Left
  <2> QED
    BY <2>2, <2>3
<1>3. CASE fstate = "PAYLOAD"
  <2>1. rxpayload(Tx, acq) /\ UNCHANGED rx_config
    BY <1>3 DEF internal_callback
  <2>2. UNCHANGED payload_mod_len
    BY <2>1, SameSections DEF rxpayload
  <2>3. \/ state' = "SEEKPLCP"
        \/ /\ state' = "RXSYMBOLS" /\ fstate' = "PAYLOAD"
           /\ payload_symbol_index' = payload_symbol_index + M_data
    BY <1>1, <1>3, <2>1 DEF rxpayload, ofdmflexframesync_reset, ofdmframesync_reset
  <2>4. ASSUME state' = "RXSYMBOLS", fstate' = "PAYLOAD",
               payload_symbol_index' = payload_symbol_index + M_data
        PROVE  Less(Left', Left)
    <3>1. Entries = payload_mod_len - payload_symbol_index
      BY <1>1, <1>3 DEF Entries
    <3>2. Entries' = payload_mod_len - (payload_symbol_index + M_data)
      BY <2>2, <2>4 DEF Entries
    <3>3. ToCome' = ToCome
      BY <1>1, <1>3, <2>4 DEF ToCome
    <3>4. Entries' < Entries
      BY <1>1, <3>1, <3>2
    <3> QED
      BY <3>3, <3>4 DEF Less, Left
  <2> QED
    BY <2>3, <2>4
<1> QED
  BY <1>1, <1>2, <1>3

LEMMA ClosingStep ==
  ASSUME Base, SearchBound, [Next]_vars, state # "SEEKPLCP"
  PROVE  Closing \/ UNCHANGED vars
<1>1. CASE Sample
  BY <1>1, AcquireCloses, CallbackCloses
     DEF Sample, execute, Acquire, Base, Closing
<1>2. CASE Transmitter /\ ~Sample
  <2>1. UNCHANGED <<state, timer, num_symbols, fstate, header_symbol_index, payload_symbol_index>>
    BY <1>2 DEF Transmitter, fs_vars, flex_vars, counters
  <2>2. UNCHANGED <<header_sym_len, payload_mod_len>>
    BY <1>2, SameSections DEF Transmitter, flex_vars
  <2>3. UNCHANGED ToCome /\ UNCHANGED Delay
    BY <2>1 DEF ToCome, Delay
  <2>4. UNCHANGED Entries
    BY <2>1, <2>2, Zenon DEF Entries
  <2> QED
    BY <1>2, <2>3, <2>4 DEF Closing, Left
<1>3. CASE Receiver \/ HeaderLen
  <2>1. state' = "SEEKPLCP"
    BY <1>3 DEF Receiver, HeaderLen, Reset, ofdmflexframesync_reset, ofdmframesync_reset,
       decode_header_soft, decode_payload_soft, rx_set_header_len
  <2> QED
    BY <2>1 DEF Closing
<1> QED
  BY <1>1, <1>2, <1>3 DEF Next

LEMMA SearchBoundInvariance == Spec => [](Base /\ SearchBound)
<1>1. Init => SearchBound
  BY DEF Init, FlexInit, Untried, SearchBound
<1>2. Base /\ SearchBound /\ [Next]_vars => SearchBound'
  BY SearchBoundStep DEF Base
<1> QED
  BY <1>1, <1>2, BaseInvariance, PTL DEF Spec

(* How much of an attempt is left is a triple of natural numbers: the search
   for S1 has tries left, no symbol is counted past its section's last, and no
   delay is longer than the window.                                          *)
THEOREM LeftTheorem == Spec => []LeftBound
<1>1. Base /\ SearchBound => LeftBound
  <2> SUFFICES ASSUME Base, SearchBound, state # "SEEKPLCP" PROVE Left \in Nat \X Nat \X Nat
    BY DEF LeftBound
  <2>1. /\ timer \in Nat /\ timer <= 2 * M + cp_len /\ num_symbols \in Nat /\ Tries \in Nat
        /\ M \in Nat /\ cp_len \in Nat
    <3>1. timer \in 0..(2 * M + cp_len) /\ num_symbols \in Nat
      BY DEF Base, Types, SyncTypes
    <3> QED
      BY <3>1, Sizes, SyncSizes
  <2>2. /\ header_sym_len \in Nat /\ payload_mod_len \in Nat
        /\ header_symbol_index \in Nat /\ header_symbol_index <= header_sym_len
        /\ payload_symbol_index \in Nat /\ payload_symbol_index < payload_mod_len
    <3>1. header_sym_len \in Nat \ {0} /\ payload_mod_len \in Nat \ {0}
      BY SectionSizes DEF Base
    <3>2. /\ header_symbol_index \in 0..header_sym_len
          /\ payload_symbol_index \in 0..(payload_mod_len - 1)
      BY DEF Base, Types, SyncTypes
    <3> QED
      BY <3>1, <3>2
  <2>3. ToCome \in Nat
    BY DEF ToCome
  <2>4. Entries \in Nat
    <3>1. state = "PLCPLONG" => Entries = Tries - num_symbols /\ num_symbols < Tries
      BY DEF Entries, SearchBound
    <3>2. state = "RXSYMBOLS" /\ fstate = "HEADER" => Entries = header_sym_len - header_symbol_index
      BY DEF Entries
    <3>3. state = "RXSYMBOLS" /\ fstate = "PAYLOAD" => Entries = payload_mod_len - payload_symbol_index
      BY DEF Entries
    <3>4. ASSUME state # "PLCPLONG", ~(state = "RXSYMBOLS" /\ fstate = "HEADER"),
                 ~(state = "RXSYMBOLS" /\ fstate = "PAYLOAD")
          PROVE  Entries = 0
      BY <3>4 DEF Entries
    <3> QED
      BY <2>1, <2>2, <3>1, <3>2, <3>3, <3>4
  <2>5. Delay \in Nat
    BY <2>1 DEF Delay
  <2> QED
    BY <2>3, <2>4, <2>5 DEF Left
<1> QED
  BY <1>1, SearchBoundInvariance, PTL

(* With each sample the synchronizer is seeking again or has less left, whatever
   noise it takes for a frame, whatever it decodes and whatever calls come
   between; so that FrameCloses needs of the samples only that they go on.   *)
THEOREM ClosingTheorem == Spec => FrameClosing
<1>1. Base /\ SearchBound /\ [Next]_vars => [state # "SEEKPLCP" => Closing]_vars
  BY ClosingStep
<1> QED
  BY <1>1, SearchBoundInvariance, PTL DEF Spec, FrameClosing

(* Each sample brings a frame that has begun nearer the end that getframelen()
   announced; calls come between two samples, or give the frame up.          *)
Proceeding ==
  \/ frame_complete' \/ (sent' = 0 /\ gstate' = "S0a")
  \/ Sample /\ sent' = sent + 1 /\ sent' <= End /\ End' = End
  \/ ~Sample /\ sent' = sent /\ End' = End
FrameProceeds == [][frame_assembled => Proceeding]_vars

(* What FrameFinishes needs beside fairness, for every number of subcarriers,
   header and payload.                                                       *)
THEOREM ProceedTheorem == Spec => FrameProceeds
<1>1. Base /\ [Next]_vars => [frame_assembled => Proceeding]_vars
  <2> SUFFICES ASSUME Base, Next, frame_assembled PROVE Proceeding
    OBVIOUS
  <2>1. CASE Sample /\ frame_assembled'
    <3>1. /\ sent' = sent + 1 /\ UNCHANGED End
          /\ sent \in Nat /\ sent < End /\ End \in Int
      BY <2>1, GoesOn DEF Base
    <3>2. sent' <= End
      BY <3>1
    <3> QED
      BY <2>1, <3>1, <3>2 DEF Proceeding
  <2>2. CASE Sample /\ ~frame_assembled'
    <3>1. frame_complete'
      BY <2>2 DEF Sample, Write, Writes, gen_vars, gvars, gen_symbol, Preamble, gen_header,
         gen_payload, gen_tail, gen_zeros
    <3> QED
      BY <3>1 DEF Proceeding
  <2>3. CASE Transmitter /\ ~Sample
    BY <2>3 DEF Transmitter, GenReset, Assemble, SetProps, ofdmflexframegen_reset, Proceeding
  <2>4. CASE (Receiver \/ HeaderLen) /\ ~Sample
    <3>1. UNCHANGED <<sent, gconfig>>
      BY <2>4 DEF Receiver, HeaderLen, set_header_len, gen_vars, gvars
    <3>2. UNCHANGED End
      BY <3>1, SameSizes DEF End
    <3> QED
      BY <2>4, <3>1, <3>2 DEF Proceeding
  <2> QED
    BY <2>1, <2>2, <2>3, <2>4 DEF Next
<1> QED
  BY <1>1, BaseInvariance, PTL DEF Spec, FrameProceeds
=============================================================================

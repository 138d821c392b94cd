--------------------------- MODULE OfdmFlexFrameGen ---------------------------
(***************************************************************************)
(* The OFDM frame generator, src/src/framing/src/ofdmflexframegen.c, one    *)
(* step for each sample written.  Properties and length of the payload are  *)
(* one record: the encoded bytes and the bits each subcarrier carries.      *)
(***************************************************************************)
EXTENDS OfdmFrame

CONSTANTS
  HeaderBytes,  \* values the encoded header length takes
  Payloads      \* [enc: bytes, bps: bits per symbol]

ASSUME GenAssumption ==
  /\ HeaderBytes \subseteq Nat \ {0} /\ HeaderBytes # {}
  /\ Payloads \subseteq [enc : Nat \ {0}, bps : 1..8] /\ Payloads # {}

VARIABLES
  gstate, symbol_number, gen_header_index, gen_payload_index, buf_index,
  frame_assembled, frame_complete,
  gen_pilot,       \* place in the pilot sequence
  header_enc_len,  \* set by set_header_len at both ends of the link
  payload,         \* what setprops and assemble configured
  sent             \* samples of this frame written so far; 0 between frames

gvars == <<gstate, symbol_number, gen_header_index, gen_payload_index,
           buf_index, frame_assembled, frame_complete, gen_pilot, sent>>
gconfig == <<header_enc_len, payload>>
gen_vars == <<gvars, gconfig>>

gen_header_sym_len == Quotient(8 * header_enc_len, header_bps)
gen_payload_mod_len == Quotient(8 * payload.enc, payload.bps)
num_symbols_header == Quotient(gen_header_sym_len, M_data)
num_symbols_payload == Quotient(gen_payload_mod_len, M_data)
getframelen == 2 + 1 + num_symbols_header + num_symbols_payload

GInit ==
  /\ gstate = "S0a" /\ symbol_number = 0 /\ buf_index = frame_len
  /\ gen_header_index = 0 /\ gen_payload_index = 0
  /\ frame_assembled = FALSE /\ frame_complete = FALSE
  /\ gen_pilot = 0
  /\ header_enc_len \in HeaderBytes /\ payload \in Payloads
  /\ sent = 0

(* mutant: the rest of the old symbol is still played. *)
ofdmflexframegen_resetLate ==
  /\ gstate' = "S0a" /\ symbol_number' = 0 /\ UNCHANGED buf_index
  /\ gen_header_index' = 0 /\ gen_payload_index' = 0
  /\ frame_complete' = FALSE
  /\ gen_pilot' = 0 /\ sent' = 0
ofdmflexframegen_reset ==
  /\ gstate' = "S0a" /\ symbol_number' = 0 /\ buf_index' = frame_len
  /\ gen_header_index' = 0 /\ gen_payload_index' = 0
  /\ frame_complete' = FALSE
  /\ gen_pilot' = 0 /\ sent' = 0

GenReset ==
  /\ ofdmflexframegen_reset
  /\ frame_assembled' = FALSE
  /\ UNCHANGED gconfig

(* A frame that is not finished is given up without notice. *)
Assemble(p) ==
  /\ ofdmflexframegen_reset
  /\ payload' = p
  /\ frame_assembled' = TRUE
  /\ UNCHANGED header_enc_len

(* setprops() is not refused in the middle of a frame and would move the
   number the symbols are counted to; this caller waits.                     *)
SetProps(p) ==
  /\ ~frame_assembled
  /\ payload' = p
  /\ UNCHANGED <<gvars, header_enc_len>>

set_header_len(bytes) ==
  /\ ~frame_assembled
  /\ header_enc_len' = bytes
  /\ UNCHANGED <<gvars, payload>>

(* symbol_number is read in the header and the payload only. *)
Preamble ==
  /\ gstate \in {"S0a", "S0b", "S1"}
  /\ gstate' = CASE gstate = "S0a" -> "S0b"
                 [] gstate = "S0b" -> "S1"
                 [] gstate = "S1"  -> "HEADER"
  /\ symbol_number' = 0
  /\ UNCHANGED <<gen_header_index, gen_payload_index, frame_assembled, frame_complete,
                 gen_pilot>>

(* Data subcarriers the section does not fill carry random symbols. *)
Advance(index, len) == IF index + M_data < len THEN index + M_data ELSE len

gen_header ==
  /\ gstate = "HEADER"
  /\ gen_header_index' = Advance(gen_header_index, gen_header_sym_len)
  /\ IF symbol_number + 1 = num_symbols_header
     THEN symbol_number' = 0 /\ gstate' = "PAYLOAD"
     ELSE symbol_number' = symbol_number + 1 /\ UNCHANGED gstate
  /\ gen_pilot' = gen_pilot + 1
  /\ UNCHANGED <<gen_payload_index, frame_assembled, frame_complete>>

gen_payload ==
  /\ gstate = "PAYLOAD"
  /\ gen_payload_index' = Advance(gen_payload_index, gen_payload_mod_len)
  /\ symbol_number' = symbol_number + 1
  /\ gstate' = IF symbol_number + 1 = num_symbols_payload THEN "TAIL" ELSE gstate
  /\ gen_pilot' = gen_pilot + 1
  /\ UNCHANGED <<gen_header_index, frame_assembled, frame_complete>>

(* mutant: the caller is not told. *)
gen_tailSilent ==
  /\ gstate = "TAIL"
  /\ gstate' = "ZEROS"
  /\ frame_assembled' = FALSE
  /\ UNCHANGED <<frame_complete, symbol_number, gen_header_index, gen_payload_index, gen_pilot>>
(* The frame is complete when its tail is computed, before it is played. *)
gen_tail ==
  /\ gstate = "TAIL"
  /\ gstate' = "ZEROS"
  /\ frame_complete' = TRUE /\ frame_assembled' = FALSE
  /\ UNCHANGED <<symbol_number, gen_header_index, gen_payload_index, gen_pilot>>

gen_zeros ==
  /\ gstate = "ZEROS"
  /\ UNCHANGED <<gstate, symbol_number, gen_header_index, gen_payload_index,
                 frame_assembled, frame_complete, gen_pilot>>

gen_symbol == Preamble \/ gen_header \/ gen_payload \/ gen_tail \/ gen_zeros

(* One sample.  Nothing stops write() before the first assemble(), or after
   reset(): it plays a frame nobody assembled.  This caller assembles first. *)
Writes == gstate = "ZEROS" \/ frame_assembled
Write ==
  /\ Writes
  /\ IF buf_index >= frame_len
     THEN gen_symbol /\ buf_index' = 1
     ELSE /\ buf_index' = buf_index + 1
          /\ UNCHANGED <<gstate, symbol_number, gen_header_index,
                         gen_payload_index, frame_assembled, frame_complete,
                         gen_pilot>>
  /\ sent' = IF gstate = "ZEROS" /\ (sent = 0 \/ buf_index = frame_len)
             THEN 0 ELSE sent + 1
  /\ UNCHANGED gconfig
=============================================================================

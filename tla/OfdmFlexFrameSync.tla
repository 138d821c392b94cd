-------------------------- MODULE OfdmFlexFrameSync --------------------------
(***************************************************************************)
(* The OFDM frame synchronizer, src/src/framing/src/ofdmflexframesync.c, on *)
(* top of the acquisition of OfdmFrameSync, which calls it once a symbol.   *)
(* tx is what the frame being heard carries: its payload and its number of  *)
(* symbols; good says that it is heard in step.  What is not heard in step  *)
(* does not pass the header's check.                                        *)
(***************************************************************************)
EXTENDS OfdmFrameSync

CONSTANTS
  SoftHeader,   \* arguments of decode_header_soft
  SoftPayload   \* arguments of decode_payload_soft

ASSUME FlexSyncAssumption == SoftHeader \subseteq BOOLEAN /\ SoftPayload \subseteq BOOLEAN

VARIABLES
  fstate, header_symbol_index, payload_symbol_index,
  header_soft, payload_soft,
  rx_header_enc_len,  \* encoded header in bytes
  rx_payload,         \* what the last valid header announced
  payload_enc_len,    \* allocation of payload_enc
  called              \* what the callback was given in this step

counters == <<fstate, header_symbol_index, payload_symbol_index>>
rx_config == <<header_soft, payload_soft, rx_header_enc_len>>
rx_alloc == <<rx_payload, payload_enc_len>>
flex_vars == <<counters, rx_config, rx_alloc, called>>

(* Soft decisions are sized by the bit, one symbol for each. *)
header_sym_len ==
  IF header_soft THEN 8 * rx_header_enc_len
                 ELSE Quotient(8 * rx_header_enc_len, header_bps)
(* Entries of header_mod one symbol fills. *)
HeaderStride == IF header_soft THEN header_bps ELSE 1

(* liquid_repack_bytes() refuses to write more bytes than it is given room. *)
repack_bytes == header_soft \/ Quotient(header_bps * header_sym_len, 8) <= rx_header_enc_len

(* mutant: bits that do not fill a symbol are forgotten. *)
payload_mod_lenFloor == (8 * rx_payload.enc) \div rx_payload.bps
payload_mod_len == Quotient(8 * rx_payload.enc, rx_payload.bps)

FlexInit(bytes, payload) ==
  /\ state = "SEEKPLCP" /\ timer = 0 /\ num_symbols = 0 /\ ms_pilot = 0
  /\ fstate = "HEADER" /\ header_symbol_index = 0 /\ payload_symbol_index = 0
  /\ header_soft = FALSE /\ payload_soft = FALSE
  /\ rx_header_enc_len = bytes
  /\ rx_payload = payload /\ payload_enc_len = payload.enc
  /\ called = "none"

(* mutant: the payload is not started again. *)
ofdmflexframesync_resetIndex ==
  /\ fstate' = "HEADER" /\ header_symbol_index' = 0 /\ UNCHANGED payload_symbol_index
  /\ ofdmframesync_reset
(* mutant: acquisition is not started again. *)
ofdmflexframesync_resetOpen ==
  /\ fstate' = "HEADER" /\ header_symbol_index' = 0 /\ payload_symbol_index' = 0
  /\ num_symbols' = 0 /\ ms_pilot' = 0 /\ UNCHANGED state
ofdmflexframesync_reset ==
  /\ fstate' = "HEADER" /\ header_symbol_index' = 0 /\ payload_symbol_index' = 0
  /\ ofdmframesync_reset

Reset ==
  /\ ofdmflexframesync_reset /\ timer' = 0
  /\ UNCHANGED <<rx_config, rx_alloc, called>>

(* None of the three is refused while a frame is open, when they would move
   the ends of buffers in use; this caller waits.                            *)
rx_set_header_len(bytes) ==
  /\ state = "SEEKPLCP"
  /\ rx_header_enc_len' = bytes
  /\ UNCHANGED <<fs_vars, counters, header_soft, payload_soft, rx_alloc, called>>

decode_header_soft(soft) ==
  /\ state = "SEEKPLCP"
  /\ header_soft' = soft
  /\ UNCHANGED <<fs_vars, counters, payload_soft, rx_header_enc_len, rx_alloc, called>>

decode_payload_soft(soft) ==
  /\ state = "SEEKPLCP"
  /\ payload_soft' = soft
  /\ UNCHANGED <<fs_vars, counters, header_soft, rx_header_enc_len, rx_alloc, called>>

(* mutant: soft decisions are given a byte a symbol. *)
PayloadRoomSymbols(payload, soft) ==
  IF soft THEN Quotient(8 * payload.enc, payload.bps) ELSE payload.enc
(* Bytes of payload_enc for a payload: a byte a bit for soft decisions. *)
PayloadRoom(payload, soft) ==
  IF soft THEN payload.bps * Quotient(8 * payload.enc, payload.bps) ELSE payload.enc

decode_header(tx, good) ==
  IF good /\ repack_bytes
  THEN /\ rx_payload' = tx.payload
       /\ payload_enc_len' = PayloadRoom(tx.payload, payload_soft)
       /\ fstate' = "PAYLOAD" /\ header_symbol_index' = header_sym_len
       /\ rxsymbol /\ called' = "none"
       /\ UNCHANGED <<state, payload_symbol_index>>
  ELSE ofdmflexframesync_reset /\ called' = "header" /\ UNCHANGED rx_alloc

HeaderEnds == header_symbol_index + M_data >= header_sym_len
rxheader(tx, good) ==
  IF HeaderEnds
  THEN decode_header(tx, good)
  ELSE /\ header_symbol_index' = header_symbol_index + M_data
       /\ rxsymbol /\ called' = "none"
       /\ UNCHANGED <<state, fstate, payload_symbol_index, rx_alloc>>

rxpayload(tx, good) ==
  /\ UNCHANGED rx_alloc
  /\ IF payload_symbol_index + M_data >= payload_mod_len
     THEN /\ ofdmflexframesync_reset
          /\ called' = IF good /\ num_symbols + 1 = tx.symbols
                       THEN "payload" ELSE "invalid payload"
     ELSE /\ payload_symbol_index' = payload_symbol_index + M_data
          /\ rxsymbol /\ called' = "none"
          /\ UNCHANGED <<state, fstate, header_symbol_index>>

internal_callback(tx, good) ==
  /\ rxdue
  /\ IF fstate = "HEADER" THEN rxheader(tx, good) ELSE rxpayload(tx, good)
  /\ timer' = SymbolDelay
  /\ UNCHANGED rx_config

(* One sample. *)
execute(p, tx, good) ==
  \/ /\ execute_seekplcp(p) \/ execute_S0a \/ execute_S0b(p) \/ execute_S1(p) \/ rxwait
     /\ called' = "none"
     /\ UNCHANGED <<counters, rx_config, rx_alloc>>
  \/ internal_callback(tx, good)
=============================================================================

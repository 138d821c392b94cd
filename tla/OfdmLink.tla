------------------------------- MODULE OfdmLink -------------------------------
(***************************************************************************)
(* An OFDM frame generator and a synchronizer, sample by sample: what the   *)
(* one writes the other executes, unless nobody writes, when it hears noise.*)
(* The two agree on nothing but what they were created with, the header's   *)
(* length and properties.                                                   *)
(***************************************************************************)
EXTENDS OfdmFlexFrameGen, OfdmFlexFrameSync

VARIABLES
  acq,    \* the synchronizer is in step with the frame being sent
  armed,  \* it was seeking at the frame's first sample, and nobody and no
          \* noise has disturbed it since
  heard   \* the symbol that was received in this step, if in step

vars == <<gen_vars, fs_vars, flex_vars, acq, armed, heard>>

Nothing == [n |-> 0]

Init ==
  /\ GInit
  /\ FlexInit(header_enc_len, payload)
  /\ acq = FALSE /\ armed = FALSE /\ heard = Nothing

Tx == [payload |-> payload, symbols |-> num_symbols_header + num_symbols_payload]

Heard ==
  [n |-> num_symbols + 1,
   from |-> WindowStart(sent'),
   rx |-> [section |-> fstate, pilot |-> ms_pilot],
   tx |-> [section |-> IF num_symbols + 1 <= num_symbols_header THEN "HEADER" ELSE "PAYLOAD",
           pilot |-> gen_pilot - 1]]

(* Noise taken for a short sequence, or for the long one. *)
Alarm ==
  \/ state = "SEEKPLCP" /\ state' = "PLCPSHORT0" /\ Overlap(sent') < Weak
  \/ state = "PLCPLONG" /\ state' = "RXSYMBOLS" /\ ~Aligned(sent')

Sample ==
  /\ Write \/ (~Writes /\ UNCHANGED gen_vars)
  /\ execute(sent', Tx, acq)
  /\ acq' = IF state = "PLCPLONG" THEN state' = "RXSYMBOLS" /\ Aligned(sent')
                                  ELSE acq /\ state' = "RXSYMBOLS"
  /\ armed' = IF sent = 0 THEN frame_assembled /\ state = "SEEKPLCP" /\ ~Alarm
                          ELSE armed /\ ~Alarm
  /\ heard' = IF acq /\ rxdue THEN Heard ELSE Nothing

Undisturbed == UNCHANGED <<acq, armed, heard>>
Disturbed == acq' = FALSE /\ armed' = FALSE /\ UNCHANGED heard

Transmitter ==
  /\ \/ GenReset \/ \E p \in Payloads : Assemble(p)
     \/ \E p \in Payloads : SetProps(p)
  /\ Disturbed
  /\ UNCHANGED <<fs_vars, flex_vars>>

Receiver ==
  /\ \/ Reset /\ Disturbed
     \/ \E soft \in SoftHeader : decode_header_soft(soft) /\ Undisturbed
     \/ \E soft \in SoftPayload : decode_payload_soft(soft) /\ Undisturbed
  /\ UNCHANGED gen_vars

(* Both ends are given the new header length between frames. *)
HeaderLen ==
  /\ \E bytes \in HeaderBytes : set_header_len(bytes) /\ rx_set_header_len(bytes)
  /\ Disturbed

Next == Sample \/ Transmitter \/ Receiver \/ HeaderLen

Spec == Init /\ [][Next]_vars
(* Samples never stop; no call of the user's has to be made. *)
FairSpec == Spec /\ WF_vars(Sample)
-----------------------------------------------------------------------------
End == getframelen * frame_len

(* Every variable has its type, and no delay or counter leaves its range. *)
TypeOK ==
  /\ gstate \in {"S0a", "S0b", "S1", "HEADER", "PAYLOAD", "TAIL", "ZEROS"}
  /\ frame_assembled \in BOOLEAN /\ frame_complete \in BOOLEAN
  /\ gen_header_index \in Nat /\ gen_payload_index \in Nat /\ gen_pilot \in Nat
  /\ symbol_number \in Nat /\ buf_index \in 0..frame_len /\ sent \in Nat
  /\ state \in {"SEEKPLCP", "PLCPSHORT0", "PLCPSHORT1", "PLCPLONG", "RXSYMBOLS"}
  /\ timer \in 0..(2 * M + cp_len)
  /\ state \in {"PLCPLONG", "RXSYMBOLS"} => timer > 0
  /\ num_symbols \in Nat /\ ms_pilot \in Nat
  /\ fstate \in {"HEADER", "PAYLOAD"}
  /\ header_symbol_index \in 0..header_sym_len
  /\ payload_symbol_index \in 0..(payload_mod_len - 1)
  /\ header_soft \in BOOLEAN /\ payload_soft \in BOOLEAN
  /\ called \in {"none", "header", "payload", "invalid payload"}

(* A symbol is transformed from samples of that symbol alone: behind the part
   of its prefix that overlaps the symbol before, and before the next one.   *)
WindowInSymbol ==
  heard # Nothing =>
    /\ heard.from >= SymbolStart(heard.n) + taper_len
    /\ heard.from + M <= SymbolStart(heard.n) + frame_len

(* A symbol sent as header is received as header, one sent as payload as
   payload, and its pilots are compared with the pilots it was sent with.    *)
SameSymbol == heard # Nothing => heard.rx = heard.tx

(* A frame whose first sample finds the synchronizer seeking is acquired,
   wherever in the frame its transforms happen to fall.                      *)
FrameAcquired ==
  armed /\ frame_assembled /\ sent \in (S1Start - backoff + M)..(End - 1) => acq

(* Such a frame's payload is delivered, valid, at the last sample that
   getframelen() counts, and nothing else is delivered before.               *)
DeliversOnTime ==
  armed /\ frame_assembled /\ sent > 0 =>
    called = (IF sent = End THEN "payload" ELSE "none")

(* Demodulated symbols are written inside the buffers allocated for them. *)
BuffersFit ==
  /\ HeaderStride * header_symbol_index <= header_sym_len
  /\ payload_soft => rx_payload.bps * payload_symbol_index <= payload_enc_len
  /\ ~payload_soft /\ payload_symbol_index > 0 =>
       rx_payload.bps * (payload_symbol_index - 1) < 8 * payload_enc_len

(* When the tail comes, every symbol of header and payload has been modulated,
   and the last one ends where getframelen() said.                           *)
FrameWhole ==
  gstate = "TAIL" =>
    /\ gen_header_index = gen_header_sym_len
    /\ gen_payload_index = gen_payload_mod_len
    /\ sent + frame_len - buf_index = End

(* A frame that has begun is completed, unless it is given up. *)
FrameFinishes ==
  frame_assembled /\ sent > 0 ~> frame_complete \/ (sent = 0 /\ gstate = "S0a")

(* A synchronizer that has left seeking returns to it, whatever it took for a
   frame.                                                                    *)
FrameCloses == state # "SEEKPLCP" ~> state = "SEEKPLCP"
=============================================================================

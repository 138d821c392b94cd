---------------------------- MODULE FlexFrameSync ----------------------------
(***************************************************************************)
(* The flexible frame synchronizer, src/src/framing/src/flexframesync.c.    *)
(* One step handles one sample.  When the detector returns its buffer,      *)
(* execute() calls itself on the buffered samples: "flush" is the stack of  *)
(* positions those calls have reached, and they read the detector's memory  *)
(* as it is at that moment.  What the demodulator makes of a header or a    *)
(* payload is the signal's choice.                                          *)
(***************************************************************************)
EXTENDS QDetector, Sequences

CONSTANTS
  Preamble,     \* preamble symbols (64 in the code)
  M,            \* filter delay in symbols (7 in the code)
  HeaderLens,   \* values header_sym_len takes
  PayloadLens   \* values payload_sym_len takes

ASSUME SyncAssumption ==
  /\ Preamble \in Nat \ {0} /\ M \in Nat \ {0}
  /\ HeaderLens \subseteq Nat \ {0} /\ HeaderLens # {}
  /\ PayloadLens \subseteq Nat \ {0} /\ PayloadLens # {}
  /\ SLen = 2 * (Preamble + 2 * M)

VARIABLES
  state, mf_counter, preamble_counter, symbol_counter,
  header_sym_len, payload_sym_len,
  now,     \* number of the last sample the caller gave
  flush,   \* positions of the running flush calls, innermost first
  fed,     \* the sample last given to the demodulator for this frame
  used,    \* samples the demodulator was given for this frame
  called   \* what the step reported through the callback

config == <<header_sym_len, payload_sym_len>>
vars == <<state, mf_counter, preamble_counter, symbol_counter, config, qvars,
          now, flush, fed, used, called>>

States == {"DETECTFRAME", "RXPREAMBLE", "RXHEADER", "RXPAYLOAD"}

Init ==
  /\ state = "DETECTFRAME" /\ mf_counter = 0
  /\ preamble_counter = 0 /\ symbol_counter = 0
  /\ header_sym_len \in HeaderLens /\ payload_sym_len \in PayloadLens
  /\ create
  /\ now = 0 /\ flush = <<>> /\ fed = Zero /\ used = 0 /\ called = "none"

(* mutant: the state is left as it was. *)
ResetCounters ==
  /\ reset
  /\ preamble_counter' = 0 /\ symbol_counter' = 0
  /\ used' = 0
  /\ UNCHANGED state

(* flexframesync_reset: mf_counter is set at the next detection instead. *)
ResetAll ==
  /\ reset
  /\ state' = "DETECTFRAME"
  /\ preamble_counter' = 0 /\ symbol_counter' = 0
  /\ used' = 0

(* execute_seekpn: a returned buffer opens a frame and starts its flush; the
   sign of the timing estimate decides the phase of the symbol clock.        *)
SeekPN(x, rest) ==
  /\ state = "DETECTFRAME"
  /\ execute(x)
  /\ IF Returns
     THEN /\ mf_counter' \in {0, 1}
          /\ state' = "RXPREAMBLE"
          /\ flush' = <<0>> \o rest
     ELSE flush' = rest /\ UNCHANGED <<mf_counter, state>>
  /\ fed' = Zero
  /\ called' = "none"
  /\ UNCHANGED <<preamble_counter, symbol_counter, config, used>>

(* step(): every other sample of the matched filter is a symbol. *)
Available == mf_counter + 1 >= 1
Step(x) ==
  /\ mf_counter' = IF Available THEN mf_counter + 1 - 2 ELSE mf_counter + 1
  /\ fed' = x

(* mutant: the delay of the filters is forgotten. *)
DelayNone == 0
(* Symbols the pulse-shaping and the matched filter hold back. *)
Delay == 2 * M

RxPreamble(x) ==
  /\ state = "RXPREAMBLE"
  /\ Step(x)
  /\ used' = used + 1
  /\ IF Available
     THEN /\ preamble_counter' = preamble_counter + 1
          /\ state' = IF preamble_counter + 1 = Preamble + Delay THEN "RXHEADER" ELSE state
     ELSE UNCHANGED <<preamble_counter, state>>
  /\ called' = "none"
  /\ UNCHANGED <<symbol_counter, config, qvars>>

Last(len) == Available /\ symbol_counter + 1 = len

(* A symbol that is not the last of its section is only stored. *)
Store(len) ==
  /\ used' = used + 1
  /\ symbol_counter' = IF Available THEN symbol_counter + 1 ELSE symbol_counter
  /\ ~Last(len)
  /\ called' = "none"
  /\ UNCHANGED <<state, preamble_counter, config, qvars>>

(* mutant: the payload is counted on from the header. *)
HeaderValidCountsOn ==
  /\ Last(header_sym_len)
  /\ state' = "RXPAYLOAD" /\ symbol_counter' = symbol_counter + 1
  /\ payload_sym_len' \in PayloadLens
  /\ used' = used + 1
  /\ called' = "none"
  /\ UNCHANGED <<preamble_counter, header_sym_len, qvars>>
HeaderValid ==
  /\ Last(header_sym_len)
  /\ state' = "RXPAYLOAD" /\ symbol_counter' = 0
  /\ payload_sym_len' \in PayloadLens
  /\ used' = used + 1
  /\ called' = "none"
  /\ UNCHANGED <<preamble_counter, header_sym_len, qvars>>

HeaderInvalid ==
  /\ Last(header_sym_len)
  /\ ResetAll
  /\ called' = "header"
  /\ UNCHANGED config

RxHeader(x) ==
  /\ state = "RXHEADER"
  /\ Step(x)
  /\ Store(header_sym_len) \/ HeaderValid \/ HeaderInvalid

PayloadDone ==
  /\ Last(payload_sym_len)
  /\ ResetAll
  /\ called' = "payload"
  /\ UNCHANGED config

RxPayload(x) ==
  /\ state = "RXPAYLOAD"
  /\ Step(x)
  /\ Store(payload_sym_len) \/ PayloadDone

(* One turn of the innermost running loop of execute(). *)
Handle(x, rest) ==
  \/ SeekPN(x, rest)
  \/ flush' = rest /\ (RxPreamble(x) \/ RxHeader(x) \/ RxPayload(x))

Flush ==
  /\ flush # <<>>
  /\ LET i == Head(flush)
         rest == IF i + 1 < NFFT THEN <<i + 1>> \o Tail(flush) ELSE Tail(flush)
     IN Handle(buf_time_1[i], rest)
  /\ UNCHANGED now

Live ==
  /\ flush = <<>>
  /\ now' = Successor(now)
  /\ Handle(now', <<>>)

(* The caller's reset, and a new header length.  The code does not refuse
   set_header_len while a frame is open; this caller waits for it to close.  *)
Reset ==
  /\ flush = <<>>
  /\ ResetAll
  /\ called' = "none"
  /\ UNCHANGED <<mf_counter, config, now, flush, fed>>

SetHeaderLen ==
  /\ flush = <<>> /\ state = "DETECTFRAME"
  /\ header_sym_len' \in HeaderLens
  /\ called' = "none"
  /\ UNCHANGED <<state, mf_counter, preamble_counter, symbol_counter,
                 payload_sym_len, qvars, now, flush, fed, used>>

Next == Flush \/ Live \/ Reset \/ SetHeaderLen

Spec == Init /\ [][Next]_vars

(* The caller keeps giving samples and a flush runs to its end. *)
FairSpec == Spec /\ WF_vars(Flush) /\ WF_vars(Live)

-----------------------------------------------------------------------------
Symbols == preamble_counter + symbol_counter
           + IF state = "RXPAYLOAD" THEN header_sym_len ELSE 0

(* Every index the handlers store at is inside its array. *)
TypeOK ==
  /\ state \in States /\ qstate \in {"SEEK", "ALIGN"}
  /\ mf_counter \in {-1, 0, 1}
  /\ counter \in Index
  /\ buf_time_0 \in [Index -> Cells] /\ buf_time_1 \in [Index -> Cells]
  /\ preamble_counter \in 0..(Preamble + Delay)
  /\ state = "RXPREAMBLE" => preamble_counter < Preamble + Delay
  /\ symbol_counter \in Nat
  /\ state = "RXHEADER" => symbol_counter < header_sym_len
  /\ state = "RXPAYLOAD" => symbol_counter < payload_sym_len
  /\ header_sym_len \in HeaderLens /\ payload_sym_len \in PayloadLens
  /\ now \in Samples /\ fed \in Cells /\ start \in Cells
  /\ flush \in Seq(Index)
  /\ used \in Nat /\ called \in {"none", "header", "payload"}

(* The demodulator is given the samples of a frame in the order they came and
   none is missed, from the one the peak was found at, through the buffered
   ones, over the seam to those that arrive live.                            *)
SamplesInOrder ==
  [][used' = used + 1 =>
       IF used = 0 THEN fed' = start ELSE Follows(fed, fed')]_vars

(* "run buffered samples through synchronizer": a flush never reads a cell
   the correlator has written over since.                                    *)
FlushIsBuffered ==
  \A k \in DOMAIN flush : \A i \in flush[k]..(NFFT - 1) : buf_time_1[i] # Noise

(* A frame that ends inside the flush sends the rest of it back to the
   detector, which may find a peak but never complete an alignment there: a
   flush is never started inside a flush, so execute() recurses once.        *)
OneFlush == Len(flush) <= 1

(* A frame is done with the last sample the generator writes for it, tail
   included, and no earlier than its last symbol calls for.                  *)
WithinFrame ==
  [][called' # "none" /\ used > 0 =>
       /\ used + 1 <= 2 * (Symbols + 1)
       /\ used + 1 >= 2 * (Symbols + 1) - 2
       /\ called' = "payload" =>
            Symbols + 1 = Preamble + 2 * M + header_sym_len + payload_sym_len]_vars

(* A frame that opens is closed again, valid or not. *)
FrameCloses == state # "DETECTFRAME" ~> state = "DETECTFRAME"
=============================================================================

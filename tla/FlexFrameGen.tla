---------------------------- MODULE FlexFrameGen ----------------------------
(***************************************************************************)
(* The flexible frame generator, src/src/framing/src/flexframegen.c, with   *)
(* the pulse-shaping interpolator it feeds.  A symbol is known by the frame *)
(* and place it comes from; a sample is the set of symbols the filter mixes *)
(* into it, so that a symbol of one frame leaking into another shows.       *)
(***************************************************************************)
EXTENDS Integers, Sequences

CONSTANTS
  K,            \* samples per symbol (2 in the code)
  M,            \* filter delay in symbols (7 in the code)
  Preamble,     \* preamble symbols (64 in the code)
  HeaderLens,   \* values header_sym_len takes
  PayloadLens,  \* values payload_sym_len takes
  Buffers,      \* lengths of the buffers the caller passes
  MaxFrames,    \* bound on the frames assembled
  Abort         \* may the caller abandon a frame it has begun to write?

ASSUME RateAssumption == K \in Nat \ {0} /\ M \in Nat \ {0}
ASSUME LengthAssumption ==
  /\ Preamble \in Nat \ {0}
  /\ HeaderLens \subseteq Nat \ {0} /\ HeaderLens # {}
  /\ PayloadLens \subseteq Nat \ {0} /\ PayloadLens # {}
ASSUME CallerAssumption ==
  Buffers \subseteq Nat /\ MaxFrames \in Nat /\ Abort \in BOOLEAN

VARIABLES
  state, symbol_counter, sample_counter, frame_assembled, frame_complete,
  header_sym_len, payload_sym_len,
  frame,   \* number of the frame whose symbols the arrays hold
  taps,    \* window of the interpolator, newest symbol first
  left,    \* samples the running write_samples() has still to write
  out,     \* the symbols mixed into the sample written last
  idle,    \* was no frame assembled when write_samples() was called?
  owed     \* samples of the frame, as getframelen() counts them, not written

config == <<header_sym_len, payload_sym_len>>
machine == <<state, symbol_counter, sample_counter, frame_assembled, frame_complete>>
vars == <<machine, config, frame, taps, left, out, idle, owed>>

Symbol(f, part, i) == [frame |-> f, part |-> part, at |-> i]
Silence == Symbol(0, "none", 0)

States == {"PREAMBLE", "HEADER", "PAYLOAD", "TAIL"}

(* mutant: one symbol of tail is missing. *)
TailLenShort == 2 * M - 1
TailLen == 2 * M

(* Symbols in the section a state writes. *)
SectionLen(s) ==
  CASE s = "PREAMBLE" -> Preamble
    [] s = "HEADER"   -> header_sym_len
    [] s = "PAYLOAD"  -> payload_sym_len
    [] s = "TAIL"     -> TailLen

(* mutant: half the tail is counted. *)
getframelenShort == K * (Preamble + header_sym_len + payload_sym_len + M)
getframelen == K * (Preamble + header_sym_len + payload_sym_len + TailLen)

(* The window the interpolator holds after a push, and the symbols its
   output of phase p mixes: sub-filter p has a tap on symbol j as long as
   coefficient j * K + p is within the prototype's 2 * K * M + 1.            *)
Shift(t, s) == [j \in 0..(2 * M) |-> IF j = 0 THEN s ELSE t[j - 1]]
Mix(t, p) == {t[j] : j \in {i \in 0..(2 * M) : i * K + p <= 2 * K * M}} \ {Silence}

(* create: reset, then default header and payload lengths. *)
Init ==
  /\ state = "PREAMBLE" /\ symbol_counter = 0 /\ sample_counter = 0
  /\ frame_assembled = FALSE /\ frame_complete = FALSE
  /\ header_sym_len \in HeaderLens /\ payload_sym_len \in PayloadLens
  /\ frame = 0
  /\ taps = [j \in 0..(2 * M) |-> Silence]
  /\ left = 0 /\ out = {} /\ idle = TRUE /\ owed = 0

(* mutant: the state is left where the last frame ended. *)
ResetCountersOnly ==
  /\ symbol_counter' = 0 /\ sample_counter' = 0
  /\ frame_complete' = FALSE /\ UNCHANGED state

(* flexframegen_reset: counters and flags, not the interpolator. *)
ResetMachine ==
  /\ state' = "PREAMBLE" /\ symbol_counter' = 0 /\ sample_counter' = 0
  /\ frame_complete' = FALSE

MidFrame == frame_assembled /\ ~(state = "PREAMBLE" /\ symbol_counter = 0)

Reset ==
  /\ left = 0
  /\ Abort \/ ~MidFrame
  /\ ResetMachine
  /\ frame_assembled' = FALSE
  /\ out' = {} /\ owed' = 0
  /\ UNCHANGED <<config, frame, taps, left, idle>>

(* mutant: the assembled flag is not looked at. *)
MayConfigureAnytime == left = 0
MayConfigure == left = 0 /\ ~frame_assembled

(* setprops, set_header_len and set_header_props are refused while a frame
   is assembled; otherwise the section gets whatever length its new
   properties come to.                                                       *)
SetProps ==
  /\ MayConfigure
  /\ payload_sym_len' \in PayloadLens
  /\ UNCHANGED <<machine, header_sym_len, frame, taps, left, out, idle, owed>>

SetHeader ==
  /\ MayConfigure
  /\ header_sym_len' \in HeaderLens
  /\ UNCHANGED <<machine, payload_sym_len, frame, taps, left, out, idle, owed>>

(* assemble: reset, encode header and payload, raise the flag.  (A payload
   length of 0 or above the limit is refused before anything changes.)       *)
Assemble ==
  /\ left = 0
  /\ frame < MaxFrames
  /\ Abort \/ ~MidFrame
  /\ ResetMachine
  /\ payload_sym_len' \in PayloadLens
  /\ frame_assembled' = TRUE
  /\ frame' = frame + 1
  /\ UNCHANGED <<header_sym_len, taps, left, idle>>
  /\ out' = {} /\ owed' = getframelen'

(* write_samples(buffer, n): n times Sample, then frame_complete is returned. *)
Write(n) ==
  /\ left = 0
  /\ left' = n
  /\ idle' = ~frame_assembled
  /\ out' = {}
  /\ UNCHANGED <<machine, config, frame, taps, owed>>

(* generate_preamble, _header and _payload: the next symbol of the section,
   and the next section after its last one.                                  *)
Advance(next) ==
  IF symbol_counter + 1 = SectionLen(state)
  THEN symbol_counter' = 0 /\ state' = next
  ELSE symbol_counter' = symbol_counter + 1 /\ UNCHANGED state

Section(here, next, part) ==
  /\ state = here
  /\ Advance(next)
  /\ taps' = Shift(taps, Symbol(frame, part, symbol_counter))
  /\ UNCHANGED <<frame_assembled, frame_complete>>

TailSymbol ==
  /\ state = "TAIL"
  /\ taps' = Shift(taps, Silence)
  /\ UNCHANGED state
  /\ IF symbol_counter + 1 = SectionLen("TAIL")
     THEN symbol_counter' = 0 /\ frame_complete' = TRUE /\ frame_assembled' = FALSE
     ELSE /\ symbol_counter' = symbol_counter + 1
          /\ UNCHANGED <<frame_complete, frame_assembled>>

generate_symbol ==
  IF frame_assembled
  THEN \/ Section("PREAMBLE", "HEADER", "preamble")
       \/ Section("HEADER", "PAYLOAD", "header")
       \/ Section("PAYLOAD", "TAIL", "payload")
       \/ TailSymbol
  ELSE /\ taps' = Shift(taps, Silence)
       /\ UNCHANGED <<state, symbol_counter, frame_assembled, frame_complete>>

(* mutant: the sample counter stops at its last value. *)
NextPhaseStuck == IF sample_counter + 1 < K THEN sample_counter + 1 ELSE sample_counter
NextPhase == (sample_counter + 1) % K

Sample ==
  /\ left > 0
  /\ left' = left - 1
  /\ IF sample_counter = 0 THEN generate_symbol
     ELSE UNCHANGED <<taps, state, symbol_counter, frame_assembled, frame_complete>>
  /\ out' = Mix(taps', sample_counter)
  /\ sample_counter' = NextPhase
  /\ owed' = IF owed > 0 THEN owed - 1 ELSE 0
  /\ UNCHANGED <<config, frame, idle>>

Next ==
  \/ Reset
  \/ SetProps
  \/ SetHeader
  \/ Assemble
  \/ \E n \in Buffers : Write(n)
  \/ Sample

Spec == Init /\ [][Next]_vars

(* The caller keeps asking for samples and a call runs to its end. *)
FairSpec ==
  Spec /\ WF_vars(Sample) /\ WF_vars(\E n \in Buffers \ {0} : Write(n))

-----------------------------------------------------------------------------
(* How many symbols of the current frame are out, and how many it has. *)
Position ==
  symbol_counter +
  CASE state = "PREAMBLE" -> 0
    [] state = "HEADER"   -> Preamble
    [] state = "PAYLOAD"  -> Preamble + header_sym_len
    [] state = "TAIL"     -> Preamble + header_sym_len + payload_sym_len
Total == Preamble + header_sym_len + payload_sym_len + TailLen

SymbolAt(i) ==
  IF i <= Preamble THEN Symbol(frame, "preamble", i - 1)
  ELSE IF i <= Preamble + header_sym_len
       THEN Symbol(frame, "header", i - Preamble - 1)
  ELSE IF i <= Preamble + header_sym_len + payload_sym_len
       THEN Symbol(frame, "payload", i - Preamble - header_sym_len - 1)
  ELSE Silence

(* The symbols of the current frame still to come. *)
Pending ==
  [i \in 1..(IF frame_assembled THEN Total - Position ELSE 0) |-> SymbolAt(Position + i)]

(* The generator emits each assembled frame exactly, and reports it complete
   exactly when its last symbol is out.                                      *)
Source == INSTANCE FrameSource WITH
  Tail_len <- TailLen, todo <- Pending, last <- taps[0], done <- frame_complete
ImplementsSource == Source!Spec

(* The state's counter stays inside the array it indexes: the ends are found
   by equality, so a section that became shorter under way would be overrun. *)
TypeOK ==
  /\ state \in States
  /\ symbol_counter \in Nat /\ symbol_counter < SectionLen(state)
  /\ sample_counter \in 0..(K - 1)
  /\ frame_assembled \in BOOLEAN /\ frame_complete \in BOOLEAN
  /\ header_sym_len \in HeaderLens /\ payload_sym_len \in PayloadLens
  /\ frame \in 0..MaxFrames
  /\ taps \in [0..(2 * M) -> [frame : 0..MaxFrames,
                              part : {"preamble", "header", "payload", "none"},
                              at : Nat]]
  /\ left \in Nat /\ idle \in BOOLEAN /\ owed \in Nat
  /\ \A s \in out : s \in {taps[j] : j \in 0..(2 * M)} \ {Silence}

(* No sample of a frame mixes in a symbol of an earlier frame: the tail is as
   long as the interpolator's memory.                                        *)
CleanFrames == \A s \in out : s.frame = frame

(* "Zeros will be written to the buffer if the frame is not assembled": a
   call made while no frame is assembled writes silence only, so a frame
   reported complete has nothing audible left in the filter.                 *)
ZerosWhenNotAssembled == idle => out = {}

(* getframelen() counts the frame exactly: while it is assembled the samples
   owed are those of the symbols to come and of the symbol half written, and
   when it is reported complete less than one symbol is owed.                *)
LengthPromise ==
  /\ frame_assembled =>
       owed = K * (Total - Position)
              + (IF sample_counter = 0 THEN 0 ELSE K - sample_counter)
  /\ frame_complete => owed < K

(* A frame that has begun is completed, if the caller keeps asking. *)
FrameFinishes == MidFrame ~> frame_complete
=============================================================================

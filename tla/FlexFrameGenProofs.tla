------------------------- MODULE FlexFrameGenProofs -------------------------
(***************************************************************************)
(* For every rate, filter delay, preamble and set of section lengths the    *)
(* frame generator never indexes past a section, whatever its caller does,  *)
(* and, if its caller abandons no frame, frames do not mix and zeros are    *)
(* written when no frame is assembled.                                      *)
(***************************************************************************)
EXTENDS FlexFrameGen, TLAPS

(* Between frames the counter is at the start of its section: that is why a
   new configuration, which may shorten sections, cannot leave it behind.    *)
CountsOnlyInFrame == ~frame_assembled => symbol_counter = 0

IInv == TypeOK /\ CountsOnlyInFrame

SymbolSet == [frame : 0..MaxFrames,
              part : {"preamble", "header", "payload", "none"}, at : Nat]

(* No section is empty. *)
LEMMA SectionsArePositive ==
  ASSUME NEW s \in States,
         header_sym_len \in HeaderLens, payload_sym_len \in PayloadLens
  PROVE  SectionLen(s) \in Nat \ {0}
<1>1. /\ Preamble \in Nat \ {0} /\ header_sym_len \in Nat \ {0}
      /\ payload_sym_len \in Nat \ {0} /\ 2 * M \in Nat \ {0}
  BY RateAssumption, LengthAssumption
<1>2. CASE s = "PREAMBLE"
  BY <1>1, <1>2 DEF SectionLen
<1>3. CASE s = "HEADER"
  BY <1>1, <1>3 DEF SectionLen
<1>4. CASE s = "PAYLOAD"
  BY <1>1, <1>4 DEF SectionLen
<1>5. CASE s = "TAIL"
  BY <1>1, <1>5 DEF SectionLen, TailLen
<1> QED
  BY <1>2, <1>3, <1>4, <1>5 DEF States

LEMMA SilenceIsSymbol == Silence \in SymbolSet
  BY CallerAssumption DEF Silence, Symbol, SymbolSet

(* A push keeps the window a window of symbols. *)
LEMMA ShiftType ==
  ASSUME taps \in [0..(2 * M) -> SymbolSet], NEW s \in SymbolSet
  PROVE  Shift(taps, s) \in [0..(2 * M) -> SymbolSet]
<1>1. ASSUME NEW j \in 0..(2 * M), j # 0
      PROVE  j - 1 \in 0..(2 * M)
  BY <1>1, RateAssumption
<1> QED
  BY <1>1 DEF Shift

(* A sample mixes symbols of the window only. *)
LEMMA MixInWindow ==
  ASSUME NEW t, NEW p
  PROVE  \A s \in Mix(t, p) : s \in {t[j] : j \in 0..(2 * M)} \ {Silence}
  BY DEF Mix

LEMMA InitIInv == Init => IInv
<1> SUFFICES ASSUME Init PROVE IInv
  OBVIOUS
<1>1. state \in States /\ SectionLen(state) \in Nat \ {0}
  BY SectionsArePositive DEF Init, States
<1>2. taps \in [0..(2 * M) -> SymbolSet]
  BY SilenceIsSymbol DEF Init
<1>3. sample_counter \in 0..(K - 1) /\ frame \in 0..MaxFrames
  BY RateAssumption, CallerAssumption DEF Init
<1>4. symbol_counter \in Nat /\ symbol_counter < SectionLen(state)
  BY <1>1 DEF Init
<1>5. /\ frame_assembled \in BOOLEAN /\ frame_complete \in BOOLEAN
      /\ header_sym_len \in HeaderLens /\ payload_sym_len \in PayloadLens
      /\ left \in Nat /\ idle \in BOOLEAN /\ owed \in Nat
      /\ \A s \in out : s \in {taps[j] : j \in 0..(2 * M)} \ {Silence}
  BY DEF Init
<1> QED
  BY <1>1, <1>2, <1>3, <1>4, <1>5 DEF Init, IInv, TypeOK, CountsOnlyInFrame, SymbolSet

(* The first section after a reset. *)
LEMMA ResetMachineType ==
  ASSUME ResetMachine, header_sym_len' \in HeaderLens, payload_sym_len' \in PayloadLens
  PROVE  /\ state' \in States /\ symbol_counter' = 0
         /\ symbol_counter' < SectionLen(state)'
         /\ sample_counter' \in 0..(K - 1) /\ frame_complete' \in BOOLEAN
<1>1. state' \in States
  BY DEF ResetMachine, States
<1>2. SectionLen(state)' \in Nat \ {0}
  <2>1. state' = "PREAMBLE"
    BY DEF ResetMachine
  <2>2. SectionLen(state)' = Preamble
    BY <2>1 DEF SectionLen
  <2> QED
    BY <2>2, LengthAssumption
<1>3. symbol_counter' = 0 /\ sample_counter' \in 0..(K - 1)
  BY RateAssumption DEF ResetMachine
<1>5. frame_complete' \in BOOLEAN
  BY DEF ResetMachine
<1>4. symbol_counter' < SectionLen(state)'
  BY <1>2, <1>3
<1> QED
  BY <1>1, <1>3, <1>4, <1>5

(* A new configuration between frames keeps the counter inside its section. *)
LEMMA ConfigureKeeps ==
  ASSUME IInv, MayConfigure,
         header_sym_len' \in HeaderLens, payload_sym_len' \in PayloadLens,
         UNCHANGED <<machine, frame, taps, left, out, idle, owed>>
  PROVE  IInv'
<1>1. symbol_counter' = 0 /\ state' \in States /\ state' = state
  BY DEF IInv, TypeOK, CountsOnlyInFrame, MayConfigure, machine
<1>2. SectionLen(state)' \in Nat \ {0}
  <2>1. SectionLen(state)' =
          CASE state' = "PREAMBLE" -> Preamble
            [] state' = "HEADER"   -> header_sym_len'
            [] state' = "PAYLOAD"  -> payload_sym_len'
            [] state' = "TAIL"     -> 2 * M
    BY DEF SectionLen, TailLen
  <2>2. /\ Preamble \in Nat \ {0} /\ header_sym_len' \in Nat \ {0}
        /\ payload_sym_len' \in Nat \ {0} /\ 2 * M \in Nat \ {0}
    BY RateAssumption, LengthAssumption
  <2> QED
    BY <1>1, <2>1, <2>2 DEF States
<1>3. /\ frame_assembled' = frame_assembled
      /\ sample_counter' = sample_counter /\ frame_complete' = frame_complete
  BY DEF machine
<1> QED
  BY <1>1, <1>2, <1>3 DEF IInv, TypeOK, CountsOnlyInFrame

(* Reset and assemble begin a section with its counter at its start. *)
LEMMA ResetKeeps == ASSUME IInv, Reset PROVE IInv'
<1>1. /\ UNCHANGED <<header_sym_len, payload_sym_len, frame, taps, left, idle>>
      /\ frame_assembled' = FALSE /\ out' = {} /\ owed' = 0
  BY DEF Reset, config
<1>2. /\ state' \in States /\ symbol_counter' = 0
      /\ symbol_counter' < SectionLen(state)'
      /\ sample_counter' \in 0..(K - 1) /\ frame_complete' \in BOOLEAN
  BY <1>1, ResetMachineType DEF IInv, TypeOK, Reset
<1> QED
  BY <1>1, <1>2 DEF IInv, TypeOK, CountsOnlyInFrame

LEMMA AssembleKeeps == ASSUME IInv, Assemble PROVE IInv'
<1>1. /\ UNCHANGED <<header_sym_len, taps, left, idle>>
      /\ payload_sym_len' \in PayloadLens /\ header_sym_len' \in HeaderLens
      /\ frame_assembled' = TRUE /\ out' = {}
  BY DEF Assemble, IInv, TypeOK
<1>2. /\ state' \in States /\ symbol_counter' = 0
      /\ symbol_counter' < SectionLen(state)'
      /\ sample_counter' \in 0..(K - 1) /\ frame_complete' \in BOOLEAN
  BY <1>1, ResetMachineType DEF Assemble
<1>3. frame' \in 0..MaxFrames
  BY CallerAssumption DEF Assemble, IInv, TypeOK
<1>4. owed' \in Nat
  <2>1. Preamble + header_sym_len' + payload_sym_len' + 2 * M \in Nat
    <3>1. /\ Preamble \in Nat /\ header_sym_len' \in Nat
          /\ payload_sym_len' \in Nat /\ 2 * M \in Nat
      BY <1>1, LengthAssumption, RateAssumption
    <3> QED
      BY <3>1
  <2>2. owed' = K * (Preamble + header_sym_len' + payload_sym_len' + 2 * M)
    BY DEF Assemble, getframelen, TailLen
  <2> QED
    BY <2>1, <2>2, RateAssumption
<1> QED
  BY <1>1, <1>2, <1>3, <1>4 DEF IInv, TypeOK, CountsOnlyInFrame

(* One symbol of a section: the counter moves on inside it or starts the next. *)
LEMMA SectionKeeps ==
  ASSUME IInv, UNCHANGED config,
         NEW here \in States, NEW next \in States,
         NEW part \in {"preamble", "header", "payload", "none"},
         frame_assembled, Section(here, next, part)
  PROVE  /\ state' \in States /\ symbol_counter' \in Nat
         /\ symbol_counter' < SectionLen(state)'
         /\ taps' \in [0..(2 * M) -> SymbolSet]
         /\ frame_assembled' /\ frame_assembled' \in BOOLEAN
         /\ frame_complete' \in BOOLEAN
<1>1. /\ symbol_counter \in Nat /\ symbol_counter < SectionLen(state) /\ state \in States
      /\ header_sym_len \in HeaderLens /\ payload_sym_len \in PayloadLens
      /\ SectionLen(state) \in Nat \ {0} /\ SectionLen(next) \in Nat \ {0}
  BY SectionsArePositive DEF IInv, TypeOK
<1>3. /\ state' \in States /\ symbol_counter' \in Nat
      /\ symbol_counter' < SectionLen(state)'
  <2>1. CASE symbol_counter + 1 = SectionLen(state)
    <3>1. symbol_counter' = 0 /\ state' = next
      BY <2>1 DEF Section, Advance
    <3>2. SectionLen(state)' = SectionLen(next)
      BY <3>1 DEF SectionLen, config
    <3> QED
      BY <1>1, <3>1, <3>2
  <2>2. CASE symbol_counter + 1 # SectionLen(state)
    <3>1. symbol_counter' = symbol_counter + 1 /\ state' = state
      BY <2>2 DEF Section, Advance
    <3>2. SectionLen(state)' = SectionLen(state)
      BY <3>1 DEF SectionLen, config
    <3> QED
      BY <1>1, <2>2, <3>1, <3>2
  <2> QED
    BY <2>1, <2>2
<1>4. taps' \in [0..(2 * M) -> SymbolSet]
  <2>1. Symbol(frame, part, symbol_counter) \in SymbolSet
    BY <1>1 DEF IInv, TypeOK, Symbol, SymbolSet
  <2>2. taps \in [0..(2 * M) -> SymbolSet]
    BY DEF IInv, TypeOK, SymbolSet
  <2> QED
    BY <2>1, <2>2, ShiftType DEF Section
<1>5. frame_assembled' /\ frame_assembled' \in BOOLEAN /\ frame_complete' \in BOOLEAN
  BY DEF Section, IInv, TypeOK
<1> QED
  BY <1>3, <1>4, <1>5

(* A symbol of the tail; the last one ends the frame with the counter at 0. *)
LEMMA TailKeeps ==
  ASSUME IInv, UNCHANGED config, frame_assembled, TailSymbol
  PROVE  /\ state' \in States /\ symbol_counter' \in Nat
         /\ symbol_counter' < SectionLen(state)'
         /\ taps' \in [0..(2 * M) -> SymbolSet]
         /\ frame_assembled' \in BOOLEAN /\ frame_complete' \in BOOLEAN
         /\ ~frame_assembled' => symbol_counter' = 0
<1>1. /\ state = "TAIL" /\ state' = state /\ state \in States
      /\ symbol_counter \in Nat /\ symbol_counter < SectionLen(state)
      /\ SectionLen(state) \in Nat \ {0}
  BY SectionsArePositive DEF IInv, TypeOK, TailSymbol
<1>2. SectionLen(state)' = SectionLen(state)
  BY <1>1 DEF SectionLen, config
<1>3. /\ symbol_counter' \in Nat /\ symbol_counter' < SectionLen(state)'
      /\ frame_assembled' \in BOOLEAN /\ frame_complete' \in BOOLEAN
      /\ ~frame_assembled' => symbol_counter' = 0
  <2>1. CASE symbol_counter + 1 = SectionLen("TAIL")
    <3>1. symbol_counter' = 0 /\ frame_complete' = TRUE /\ frame_assembled' = FALSE
      BY <2>1 DEF TailSymbol
    <3>2. symbol_counter' \in Nat /\ symbol_counter' < SectionLen(state)'
      BY <1>1, <1>2, <3>1
    <3>3. frame_assembled' \in BOOLEAN /\ frame_complete' \in BOOLEAN
      BY <3>1
    <3> QED
      BY <3>1, <3>2, <3>3
  <2>2. CASE symbol_counter + 1 # SectionLen("TAIL")
    <3>1. /\ symbol_counter' = symbol_counter + 1
          /\ frame_complete' = frame_complete /\ frame_assembled' = frame_assembled
      BY <2>2 DEF TailSymbol
    <3>2. symbol_counter + 1 # SectionLen(state)
      BY <1>1, <2>2
    <3>3. frame_assembled' \in BOOLEAN /\ frame_complete' \in BOOLEAN /\ frame_assembled'
      BY <3>1 DEF IInv, TypeOK
    <3>4. symbol_counter' \in Nat /\ symbol_counter' < SectionLen(state)'
      BY <1>1, <1>2, <3>1, <3>2
    <3> QED
      BY <3>3, <3>4
  <2> QED
    BY <2>1, <2>2
<1>4. taps' \in [0..(2 * M) -> SymbolSet]
  <2>1. taps \in [0..(2 * M) -> SymbolSet]
    BY DEF IInv, TypeOK, SymbolSet
  <2> QED
    BY <2>1, SilenceIsSymbol, ShiftType DEF TailSymbol
<1> QED
  BY <1>1, <1>3, <1>4

(* Whatever symbol the interpolator is given, if it is given one. *)
LEMMA SymbolKeeps ==
  ASSUME IInv, UNCHANGED config,
         \/ generate_symbol
         \/ UNCHANGED <<taps, state, symbol_counter, frame_assembled, frame_complete>>
  PROVE  /\ state' \in States /\ symbol_counter' \in Nat
         /\ symbol_counter' < SectionLen(state)'
         /\ taps' \in [0..(2 * M) -> SymbolSet]
         /\ frame_assembled' \in BOOLEAN /\ frame_complete' \in BOOLEAN
         /\ ~frame_assembled' => symbol_counter' = 0
<1>1. taps \in [0..(2 * M) -> SymbolSet]
  BY DEF IInv, TypeOK, SymbolSet
<1>2. CASE frame_assembled /\ generate_symbol
  <2>1. /\ {"PREAMBLE", "HEADER", "PAYLOAD", "TAIL"} = States
        /\ \/ Section("PREAMBLE", "HEADER", "preamble")
           \/ Section("HEADER", "PAYLOAD", "header")
           \/ Section("PAYLOAD", "TAIL", "payload")
           \/ TailSymbol
    BY <1>2 DEF generate_symbol, States
  <2>2. CASE Section("PREAMBLE", "HEADER", "preamble")
    BY <1>2, <2>1, <2>2, SectionKeeps
  <2>3. CASE Section("HEADER", "PAYLOAD", "header")
    BY <1>2, <2>1, <2>3, SectionKeeps
  <2>4. CASE Section("PAYLOAD", "TAIL", "payload")
    BY <1>2, <2>1, <2>4, SectionKeeps
  <2>5. CASE TailSymbol
    BY <1>2, <2>5, TailKeeps
  <2> QED
    BY <2>1, <2>2, <2>3, <2>4, <2>5
<1>3. CASE UNCHANGED <<state, symbol_counter, frame_assembled, frame_complete>>
           /\ taps' \in [0..(2 * M) -> SymbolSet]
  <2>1. SectionLen(state)' = SectionLen(state)
    BY <1>3 DEF SectionLen, config
  <2> QED
    BY <1>3, <2>1 DEF IInv, TypeOK, CountsOnlyInFrame
<1>4. CASE ~frame_assembled /\ generate_symbol
  <2>1. /\ UNCHANGED <<state, symbol_counter, frame_assembled, frame_complete>>
        /\ taps' = Shift(taps, Silence)
    BY <1>4 DEF generate_symbol
  <2> QED
    BY <1>1, <1>3, <2>1, SilenceIsSymbol, ShiftType
<1> QED
  BY <1>1, <1>2, <1>3, <1>4

LEMMA SampleKeeps == ASSUME IInv, Sample PROVE IInv'
<1>1. /\ UNCHANGED <<config, frame, idle>>
      /\ \/ generate_symbol
         \/ UNCHANGED <<taps, state, symbol_counter, frame_assembled, frame_complete>>
  BY DEF Sample
<1>2. /\ state' \in States /\ symbol_counter' \in Nat
      /\ symbol_counter' < SectionLen(state)'
      /\ taps' \in [0..(2 * M) -> SymbolSet]
      /\ frame_assembled' \in BOOLEAN /\ frame_complete' \in BOOLEAN
      /\ ~frame_assembled' => symbol_counter' = 0
  BY <1>1, SymbolKeeps
<1>3. sample_counter' \in 0..(K - 1)
  BY RateAssumption DEF Sample, NextPhase, IInv, TypeOK
<1>4. left' \in Nat
  BY DEF Sample, IInv, TypeOK
<1>5. owed' \in Nat
  BY DEF Sample, IInv, TypeOK
<1>6. \A s \in out' : s \in {taps'[j] : j \in 0..(2 * M)} \ {Silence}
  BY MixInWindow DEF Sample
<1>7. frame' \in 0..MaxFrames /\ idle' \in BOOLEAN
      /\ header_sym_len' \in HeaderLens /\ payload_sym_len' \in PayloadLens
  BY <1>1 DEF config, IInv, TypeOK
<1> QED
  BY <1>2, <1>3, <1>4, <1>5, <1>6, <1>7 DEF IInv, TypeOK, CountsOnlyInFrame, SymbolSet

LEMMA WriteKeeps == ASSUME IInv, NEW n \in Buffers, Write(n) PROVE IInv'
<1>1. /\ left' \in Nat /\ out' = {}
      /\ UNCHANGED <<machine, config, frame, taps, owed>>
  BY CallerAssumption DEF Write
<1>2. idle' \in BOOLEAN
  BY DEF Write, IInv, TypeOK
<1>3. SectionLen(state)' = SectionLen(state)
  BY <1>1 DEF SectionLen, config, machine
<1> QED
  BY <1>1, <1>2, <1>3 DEF IInv, TypeOK, CountsOnlyInFrame, machine, config

LEMMA NextKeeps == ASSUME IInv, [Next]_vars PROVE IInv'
<1>1. CASE Reset
  BY <1>1, ResetKeeps
<1>2. CASE SetProps
  BY <1>2, ConfigureKeeps DEF SetProps, IInv, TypeOK
<1>3. CASE SetHeader
  BY <1>3, ConfigureKeeps DEF SetHeader, IInv, TypeOK
<1>4. CASE Assemble
  BY <1>4, AssembleKeeps
<1>5. ASSUME NEW n \in Buffers, Write(n) PROVE IInv'
  BY <1>5, WriteKeeps
<1>6. CASE Sample
  BY <1>6, SampleKeeps
<1>7. CASE UNCHANGED vars
  <2>1. SectionLen(state)' = SectionLen(state)
    BY <1>7 DEF SectionLen, vars, config, machine
  <2> QED
    BY <1>7, <2>1 DEF vars, config, machine, IInv, TypeOK, CountsOnlyInFrame
<1> QED
  BY <1>1, <1>2, <1>3, <1>4, <1>5, <1>6, <1>7 DEF Next

(* The section counter never leaves the array it indexes, whatever lengths
   are configured between frames and wherever frames are abandoned.          *)
THEOREM BoundsTheorem == Spec => []TypeOK
<1>1. IInv => TypeOK
  BY DEF IInv
<1> QED
  BY InitIInv, NextKeeps, <1>1, PTL DEF Spec

-----------------------------------------------------------------------------
(* What the interpolator holds, for a caller that does not abandon frames.
   Neither CleanFrames nor ZerosWhenNotAssembled speaks of the window, which
   carries symbols from one call to the next.                                *)

(* When no frame is under way all but the oldest place of the window is
   silent: a tail of 2 * M symbols does not reach the oldest.                *)
Drained == ~MidFrame => \A j \in 0..(2 * M - 1) : taps[j] = Silence

(* In the tail the window fills with silence, one place per symbol. *)
Draining ==
  MidFrame /\ state = "TAIL" => \A j \in 0..(symbol_counter - 1) : taps[j] = Silence

(* The window holds one frame only, but for the oldest place between two
   frames; the next sample then pushes it out before it is heard.            *)
OneFrame ==
  \A j \in 0..(2 * M) :
    \/ taps[j] = Silence \/ taps[j].frame = frame
    \/ j = 2 * M /\ ~MidFrame /\ sample_counter = 0

(* No frame is assembled during a call. *)
IdleCall == idle /\ left > 0 => ~frame_assembled

FilterInv == Drained /\ Draining /\ OneFrame /\ IdleCall
               /\ CleanFrames /\ ZerosWhenNotAssembled

LEMMA FilterInit == Init => FilterInv
<1> SUFFICES ASSUME Init PROVE FilterInv
  OBVIOUS
<1>1. /\ \A j \in 0..(2 * M) : taps[j] = Silence
      /\ left = 0 /\ out = {} /\ ~MidFrame
  BY DEF Init, MidFrame
<1>2. 0..(2 * M - 1) \subseteq 0..(2 * M)
  BY RateAssumption
<1> QED
  BY <1>1, <1>2 DEF FilterInv, Drained, Draining, OneFrame, IdleCall,
                    CleanFrames, ZerosWhenNotAssembled

(* A caller that does not abandon frames resets, and assembles, between them. *)
LEMMA FilterBetween ==
  ASSUME FilterInv, ~MidFrame, ~MidFrame', UNCHANGED <<taps, left>>,
         sample_counter' = 0, left = 0, out' = {}
  PROVE  FilterInv'
<1>1. Drained'
  BY DEF FilterInv, Drained
<1>2. OneFrame'
  <2> SUFFICES ASSUME NEW j \in 0..(2 * M), j # 2 * M
               PROVE  taps[j] = Silence
    BY DEF OneFrame
  <2>1. j \in 0..(2 * M - 1)
    BY RateAssumption
  <2> QED
    BY <2>1 DEF FilterInv, Drained
<1> QED
  BY <1>1, <1>2 DEF FilterInv, Draining, IdleCall, CleanFrames, ZerosWhenNotAssembled

LEMMA FilterReset == ASSUME ~Abort, FilterInv, Reset PROVE FilterInv'
  BY FilterBetween DEF Reset, ResetMachine, MidFrame

LEMMA FilterAssemble == ASSUME ~Abort, FilterInv, Assemble PROVE FilterInv'
  BY FilterBetween DEF Assemble, ResetMachine, MidFrame

(* Configuration between frames, and the start of a call, leave the window. *)
LEMMA FilterConfigure ==
  ASSUME FilterInv, UNCHANGED <<machine, frame, taps, left, out, idle>>
  PROVE  FilterInv'
<1>1. MidFrame' = MidFrame
  BY DEF MidFrame, machine
<1> QED
  BY <1>1 DEF FilterInv, Drained, Draining, OneFrame, IdleCall, CleanFrames,
              ZerosWhenNotAssembled, machine

LEMMA FilterWrite == ASSUME FilterInv, NEW n \in Buffers, Write(n) PROVE FilterInv'
<1>1. MidFrame' = MidFrame
  BY DEF MidFrame, machine, Write
<1>2. /\ UNCHANGED <<machine, frame, taps>>
      /\ out' = {} /\ idle' = ~frame_assembled
  BY DEF Write
<1>3. IdleCall'
  BY <1>2 DEF IdleCall, machine
<1> QED
  BY <1>1, <1>2, <1>3 DEF FilterInv, Drained, Draining, OneFrame, CleanFrames,
                          ZerosWhenNotAssembled, machine

(* What a push moves where. *)
LEMMA ShiftMoves ==
  ASSUME NEW s, taps' = Shift(taps, s)
  PROVE  taps'[0] = s /\ \A j \in 1..(2 * M) : taps'[j] = taps[j - 1] /\ j - 1 \in 0..(2 * M - 1)
<1>1. 0 \in 0..(2 * M) /\ \A j \in 1..(2 * M) : j \in 0..(2 * M) /\ j # 0
  BY RateAssumption
<1>2. \A j \in 1..(2 * M) : j - 1 \in 0..(2 * M - 1)
  BY RateAssumption
<1> QED
  BY <1>1, <1>2 DEF Shift

(* A push of this frame, or of silence, leaves nothing of another frame. *)
LEMMA PushCleans ==
  ASSUME FilterInv, NEW s, taps' = Shift(taps, s), s = Silence \/ s.frame = frame
  PROVE  \A j \in 0..(2 * M) : taps'[j] = Silence \/ taps'[j].frame = frame
<1> SUFFICES ASSUME NEW j \in 0..(2 * M)
             PROVE  taps'[j] = Silence \/ taps'[j].frame = frame
  OBVIOUS
<1>1. CASE j = 0
  BY <1>1, ShiftMoves
<1>2. CASE j # 0
  <2>1. j \in 1..(2 * M) /\ j - 1 \in 0..(2 * M) /\ j - 1 # 2 * M
    BY <1>2, RateAssumption
  <2>2. taps'[j] = taps[j - 1]
    BY <2>1, ShiftMoves
  <2>3. taps[j - 1] = Silence \/ taps[j - 1].frame = frame
    BY <2>1 DEF FilterInv, OneFrame
  <2> QED
    BY <2>2, <2>3
<1> QED
  BY <1>1, <1>2

(* A symbol of the preamble, header or payload. *)
LEMMA FilterSection ==
  ASSUME IInv, FilterInv, frame_assembled,
         NEW here \in {"PREAMBLE", "HEADER", "PAYLOAD"}, NEW next, NEW part,
         next # "PREAMBLE", Section(here, next, part)
  PROVE  /\ Drained' /\ Draining'
         /\ \A j \in 0..(2 * M) : taps'[j] = Silence \/ taps'[j].frame = frame
<1>1. /\ state = here /\ symbol_counter \in Nat /\ frame_assembled' = frame_assembled
      /\ taps' = Shift(taps, Symbol(frame, part, symbol_counter))
  BY DEF Section, IInv, TypeOK
<1>2. \/ symbol_counter' = 0 /\ state' = next
      \/ symbol_counter' = symbol_counter + 1 /\ state' = here
  BY <1>1 DEF Section, Advance
<1>3. MidFrame'
  <2>1. CASE state' = next
    BY <1>1, <2>1 DEF MidFrame
  <2>2. CASE symbol_counter' = symbol_counter + 1
    <3>1. symbol_counter' # 0
      BY <1>1, <2>2
    <3> QED
      BY <1>1, <3>1 DEF MidFrame
  <2> QED
    BY <1>2, <2>1, <2>2
<1>4. Drained'
  BY <1>3 DEF Drained
<1>5. Draining'
  <2>1. state' = "TAIL" => symbol_counter' = 0
    BY <1>2
  <2>2. \A j \in 0..(0 - 1) : FALSE
    OBVIOUS
  <2> QED
    BY <2>1, <2>2 DEF Draining
<1>6. Symbol(frame, part, symbol_counter).frame = frame
  BY DEF Symbol
<1> QED
  BY <1>1, <1>4, <1>5, <1>6, PushCleans

(* A symbol of the tail; after the last one the window is drained. *)
LEMMA FilterTail ==
  ASSUME IInv, FilterInv, frame_assembled, TailSymbol
  PROVE  /\ Drained' /\ Draining'
         /\ \A j \in 0..(2 * M) : taps'[j] = Silence \/ taps'[j].frame = frame
<1>1. /\ state = "TAIL" /\ state' = "TAIL" /\ symbol_counter \in Nat
      /\ taps' = Shift(taps, Silence) /\ MidFrame
  BY DEF TailSymbol, IInv, TypeOK, MidFrame
<1>2. \A j \in 0..symbol_counter : j \in 0..(2 * M) => taps'[j] = Silence
  <2> SUFFICES ASSUME NEW j \in 0..symbol_counter, j \in 0..(2 * M)
               PROVE  taps'[j] = Silence
    OBVIOUS
  <2>1. CASE j = 0
    BY <1>1, <2>1, ShiftMoves
  <2>2. CASE j # 0
    <3>1. j \in 1..(2 * M) /\ j - 1 \in 0..(symbol_counter - 1)
      BY <1>1, <2>2, RateAssumption
    <3>2. taps'[j] = taps[j - 1]
      BY <1>1, <3>1, ShiftMoves
    <3> QED
      BY <1>1, <3>1, <3>2 DEF FilterInv, Draining
  <2> QED
    BY <2>1, <2>2
<1>3. symbol_counter < 2 * M
  BY <1>1 DEF IInv, TypeOK, SectionLen, TailLen
<1>4. CASE symbol_counter + 1 = SectionLen("TAIL")
  <2>1. symbol_counter + 1 = 2 * M
    BY <1>4 DEF SectionLen, TailLen
  <2>2. ~MidFrame'
    BY <1>4 DEF TailSymbol, MidFrame
  <2>3. \A j \in 0..(2 * M - 1) : j \in 0..symbol_counter /\ j \in 0..(2 * M)
    BY <1>1, <2>1, RateAssumption
  <2> QED
    BY <1>1, <1>2, <2>2, <2>3, PushCleans DEF Drained, Draining
<1>5. CASE symbol_counter + 1 # SectionLen("TAIL")
  <2>1. symbol_counter' = symbol_counter + 1 /\ frame_assembled'
    BY <1>5 DEF TailSymbol
  <2>2. MidFrame'
    BY <1>1, <2>1 DEF MidFrame
  <2>3. \A j \in 0..(symbol_counter' - 1) : j \in 0..symbol_counter /\ j \in 0..(2 * M)
    BY <1>1, <1>3, <2>1, RateAssumption
  <2> QED
    BY <1>1, <1>2, <2>2, <2>3, PushCleans DEF Drained, Draining
<1> QED
  BY <1>4, <1>5

(* Without a frame silence is pushed into a drained window: it is silent. *)
LEMMA FilterIdle ==
  ASSUME IInv, FilterInv, ~frame_assembled, generate_symbol
  PROVE  /\ Drained' /\ Draining' /\ \A j \in 0..(2 * M) : taps'[j] = Silence
<1>1. /\ taps' = Shift(taps, Silence) /\ ~MidFrame /\ ~MidFrame'
  BY DEF generate_symbol, MidFrame
<1>2. \A j \in 0..(2 * M) : taps'[j] = Silence
  <2> SUFFICES ASSUME NEW j \in 0..(2 * M) PROVE taps'[j] = Silence
    OBVIOUS
  <2>1. CASE j = 0
    BY <1>1, <2>1, ShiftMoves
  <2>2. CASE j # 0
    <3>1. j \in 1..(2 * M) /\ j - 1 \in 0..(2 * M - 1)
      BY <2>2, RateAssumption
    <3> QED
      BY <1>1, <3>1, ShiftMoves DEF FilterInv, Drained
  <2> QED
    BY <2>1, <2>2
<1>3. 0..(2 * M - 1) \subseteq 0..(2 * M)
  BY RateAssumption
<1> QED
  BY <1>1, <1>2, <1>3 DEF Drained, Draining

(* The later samples of a symbol push nothing and mix the oldest place no
   more: the sub-filters past the first are one tap shorter.                 *)
LEMMA LaterPhases ==
  ASSUME NEW t, NEW p \in 1..(K - 1), \A j \in 0..(2 * M - 1) : t[j] = Silence
  PROVE  Mix(t, p) = {}
<1> SUFFICES ASSUME NEW j \in 0..(2 * M), j * K + p <= 2 * K * M
             PROVE  t[j] = Silence
  BY DEF Mix
<1>1. j # 2 * M
  <2>1. (2 * M) * K = 2 * K * M /\ 2 * K * M \in Nat
    BY RateAssumption
  <2> QED
    BY <2>1, RateAssumption
<1>2. j \in 0..(2 * M - 1)
  BY <1>1, RateAssumption
<1> QED
  BY <1>2

LEMMA FilterSample == ASSUME IInv, FilterInv, Sample PROVE FilterInv'
<1>1. /\ UNCHANGED <<config, frame, idle>> /\ left > 0
      /\ out' = Mix(taps', sample_counter)
  BY DEF Sample
<1>2. /\ Drained' /\ Draining'
      /\ \A j \in 0..(2 * M) : taps'[j] = Silence \/ taps'[j].frame = frame
  <2>1. CASE sample_counter = 0 /\ frame_assembled
    <3>1. \/ Section("PREAMBLE", "HEADER", "preamble")
          \/ Section("HEADER", "PAYLOAD", "header")
          \/ Section("PAYLOAD", "TAIL", "payload")
          \/ TailSymbol
      BY <2>1 DEF Sample, generate_symbol
    <3>2. CASE Section("PREAMBLE", "HEADER", "preamble")
      BY <2>1, <3>2, FilterSection
    <3>3. CASE Section("HEADER", "PAYLOAD", "header")
      BY <2>1, <3>3, FilterSection
    <3>4. CASE Section("PAYLOAD", "TAIL", "payload")
      BY <2>1, <3>4, FilterSection
    <3>5. CASE TailSymbol
      BY <2>1, <3>5, FilterTail
    <3> QED
      BY <3>1, <3>2, <3>3, <3>4, <3>5
  <2>2. CASE sample_counter = 0 /\ ~frame_assembled
    BY <2>2, FilterIdle DEF Sample
  <2>3. CASE sample_counter # 0
    <3>1. /\ UNCHANGED <<taps, state, symbol_counter, frame_assembled>>
          /\ MidFrame' = MidFrame
      BY <2>3 DEF Sample, MidFrame
    <3> QED
      BY <2>3, <3>1 DEF FilterInv, Drained, Draining, OneFrame
  <2> QED
    BY <2>1, <2>2, <2>3
<1>3. OneFrame'
  BY <1>1, <1>2 DEF OneFrame
<1>4. CleanFrames'
  <2> SUFFICES ASSUME NEW s \in Mix(taps', sample_counter) PROVE s.frame = frame
    BY <1>1 DEF CleanFrames
  <2>1. PICK j \in 0..(2 * M) : s = taps'[j] /\ s # Silence
    BY MixInWindow
  <2> QED
    BY <1>2, <2>1
<1>5. idle => ~frame_assembled
  BY <1>1 DEF FilterInv, IdleCall
<1>6. ZerosWhenNotAssembled'
  <2> SUFFICES ASSUME ~frame_assembled PROVE Mix(taps', sample_counter) = {}
    BY <1>1, <1>5 DEF ZerosWhenNotAssembled
  <2>1. CASE sample_counter = 0
    BY <2>1, FilterIdle, MixInWindow DEF Sample
  <2>2. CASE sample_counter # 0
    <3>1. sample_counter \in 1..(K - 1)
      BY <2>2 DEF IInv, TypeOK
    <3>2. taps' = taps /\ ~MidFrame
      BY <2>2 DEF Sample, MidFrame
    <3> QED
      BY <3>1, <3>2, LaterPhases DEF FilterInv, Drained
  <2> QED
    BY <2>1, <2>2
<1>7. IdleCall'
  <2> SUFFICES ASSUME ~frame_assembled PROVE ~frame_assembled'
    BY <1>1, <1>5 DEF IdleCall
  <2> QED
    BY DEF Sample, generate_symbol
<1> QED
  BY <1>2, <1>3, <1>4, <1>6, <1>7 DEF FilterInv

LEMMA FilterNext ==
  ASSUME ~Abort, IInv, FilterInv, [Next]_vars PROVE FilterInv'
<1>1. CASE Reset
  BY <1>1, FilterReset
<1>2. CASE SetProps
  BY <1>2, FilterConfigure DEF SetProps
<1>3. CASE SetHeader
  BY <1>3, FilterConfigure DEF SetHeader
<1>4. CASE Assemble
  BY <1>4, FilterAssemble
<1>5. ASSUME NEW n \in Buffers, Write(n) PROVE FilterInv'
  BY <1>5, FilterWrite
<1>6. CASE Sample
  BY <1>6, FilterSample
<1>7. CASE UNCHANGED vars
  BY <1>7, FilterConfigure DEF vars
<1> QED
  BY <1>1, <1>2, <1>3, <1>4, <1>5, <1>6, <1>7 DEF Next

LEMMA FilterInvariance == ASSUME ~Abort PROVE Spec => []FilterInv
<1>1. Init => IInv /\ FilterInv
  BY InitIInv, FilterInit
<1>2. (IInv /\ FilterInv) /\ [Next]_vars => (IInv /\ FilterInv)'
  BY NextKeeps, FilterNext
<1> QED
  BY <1>1, <1>2, PTL DEF Spec

(* No sample of a frame mixes in a symbol of an earlier frame, for every
   rate, filter delay and section length: 2 * M symbols of tail suffice.     *)
THEOREM CleanFramesTheorem == ASSUME ~Abort PROVE Spec => []CleanFrames
<1>1. FilterInv => CleanFrames
  BY DEF FilterInv
<1> QED
  BY FilterInvariance, <1>1, PTL

(* A call made while no frame is assembled writes zeros only, unless a frame
   was abandoned.                                                            *)
THEOREM ZerosTheorem == ASSUME ~Abort PROVE Spec => []ZerosWhenNotAssembled
<1>1. FilterInv => ZerosWhenNotAssembled
  BY DEF FilterInv
<1> QED
  BY FilterInvariance, <1>1, PTL
=============================================================================

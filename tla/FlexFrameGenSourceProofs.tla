---------------------- MODULE FlexFrameGenSourceProofs ----------------------
(***************************************************************************)
(* For every rate, delay, preamble and set of section lengths, and for any  *)
(* caller, the generator keeps getframelen()'s promise and implements       *)
(* FrameSource: each assembled frame comes out symbol by symbol, in order,  *)
(* once, and is reported complete with its last symbol, which each sample   *)
(* brings nearer.                                                           *)
(***************************************************************************)
EXTENDS FlexFrameGenProofs, SequenceTheorems

(* Symbols before the section a state writes. *)
SectionStart(s) ==
  CASE s = "PREAMBLE" -> 0
    [] s = "HEADER"   -> Preamble
    [] s = "PAYLOAD"  -> Preamble + header_sym_len
    [] s = "TAIL"     -> Preamble + header_sym_len + payload_sym_len

(* Where a section begins and how long it is, one after the other. *)
LEMMA SectionsMeet ==
  ASSUME header_sym_len \in HeaderLens, payload_sym_len \in PayloadLens
  PROVE  /\ {Preamble, header_sym_len, payload_sym_len, TailLen} \subseteq Nat \ {0}
         /\ SectionStart("PREAMBLE") = 0 /\ SectionLen("PREAMBLE") = Preamble
         /\ SectionStart("HEADER") = Preamble /\ SectionLen("HEADER") = header_sym_len
         /\ SectionStart("PAYLOAD") = Preamble + header_sym_len
         /\ SectionLen("PAYLOAD") = payload_sym_len
         /\ SectionStart("TAIL") = Preamble + header_sym_len + payload_sym_len
         /\ SectionLen("TAIL") = TailLen
         /\ Total = SectionStart("TAIL") + TailLen /\ Total \in Nat
<1>1. {Preamble, header_sym_len, payload_sym_len, TailLen} \subseteq Nat \ {0}
  BY RateAssumption, LengthAssumption DEF TailLen
<1> QED
  BY <1>1 DEF SectionStart, SectionLen, Total

(* The place in the frame is a place of the section the state writes. *)
LEMMA PositionInFrame ==
  ASSUME TypeOK
  PROVE  /\ Position = symbol_counter + SectionStart(state)
         /\ symbol_counter \in Nat /\ symbol_counter < SectionLen(state)
         /\ Position \in Nat /\ Position < Total /\ Total \in Nat
<1>1. Position = symbol_counter + SectionStart(state)
  BY DEF Position, SectionStart
<1>2. /\ symbol_counter \in Nat /\ symbol_counter < SectionLen(state)
      /\ state \in {"PREAMBLE", "HEADER", "PAYLOAD", "TAIL"}
      /\ header_sym_len \in HeaderLens /\ payload_sym_len \in PayloadLens
  BY DEF TypeOK, States
<1>3. CASE state = "PREAMBLE"
  BY <1>1, <1>2, <1>3, SectionsMeet
<1>4. CASE state = "HEADER"
  BY <1>1, <1>2, <1>4, SectionsMeet
<1>5. CASE state = "PAYLOAD"
  BY <1>1, <1>2, <1>5, SectionsMeet
<1>6. CASE state = "TAIL"
  BY <1>1, <1>2, <1>6, SectionsMeet
<1> QED
  BY <1>2, <1>3, <1>4, <1>5, <1>6

(* What a symbol of an assembled frame does: it is the next one of the frame,
   and the last one completes it.                                            *)
EmitsNext ==
  /\ taps'[0] = SymbolAt(Position + 1)
  /\ IF Position + 1 = Total
     THEN ~frame_assembled' /\ frame_complete'
     ELSE /\ frame_assembled' = frame_assembled /\ frame_complete' = frame_complete
          /\ Position' = Position + 1

LEMMA SectionEmits ==
  ASSUME TypeOK, TypeOK', UNCHANGED config,
         NEW here \in {"PREAMBLE", "HEADER", "PAYLOAD"}, NEW next, NEW part,
         \/ here = "PREAMBLE" /\ next = "HEADER" /\ part = "preamble"
         \/ here = "HEADER" /\ next = "PAYLOAD" /\ part = "header"
         \/ here = "PAYLOAD" /\ next = "TAIL" /\ part = "payload",
         Section(here, next, part)
  PROVE  EmitsNext
<1>1. /\ state = here
      /\ header_sym_len \in HeaderLens /\ payload_sym_len \in PayloadLens
      /\ taps' = Shift(taps, Symbol(frame, part, symbol_counter))
      /\ UNCHANGED <<frame_assembled, frame_complete>>
  BY DEF Section, TypeOK
<1>2. taps'[0] = Symbol(frame, part, symbol_counter)
  BY <1>1, ShiftMoves
<1>3. SectionStart(state') = SectionStart(state)'
  BY DEF SectionStart, config
<1>4. /\ Position' = symbol_counter' + SectionStart(state')
      /\ Position = symbol_counter + SectionStart(here)
      /\ symbol_counter \in Nat /\ symbol_counter < SectionLen(here)
  <2>1. (Position = symbol_counter + SectionStart(state))'
    BY DEF Position, SectionStart
  <2> QED
    BY <1>1, <1>3, <2>1, PositionInFrame
<1>5. /\ SymbolAt(Position + 1) = Symbol(frame, part, symbol_counter)
      /\ Position + 1 # Total
      /\ SectionStart(next) = SectionStart(here) + SectionLen(here)
      /\ SectionStart(here) \in Nat /\ SectionLen(here) \in Nat
  <2>1. CASE here = "PREAMBLE"
    BY <1>1, <1>4, <2>1, SectionsMeet DEF SymbolAt
  <2>2. CASE here = "HEADER"
    <3>1. /\ {Preamble, header_sym_len, payload_sym_len, TailLen} \subseteq Nat \ {0}
          /\ Position = symbol_counter + Preamble /\ symbol_counter < header_sym_len
          /\ next = "PAYLOAD" /\ part = "header"
          /\ Total = Preamble + header_sym_len + payload_sym_len + TailLen
      BY <1>1, <1>4, <2>2, SectionsMeet
    <3>2. /\ Position + 1 > Preamble /\ Position + 1 <= Preamble + header_sym_len
          /\ Position + 1 - Preamble - 1 = symbol_counter /\ Position + 1 # Total
      BY <1>4, <3>1
    <3>3. SymbolAt(Position + 1) = Symbol(frame, part, symbol_counter)
      BY <1>4, <3>1, <3>2 DEF SymbolAt
    <3> QED
      BY <1>1, <2>2, <3>1, <3>2, <3>3, SectionsMeet
  <2>3. CASE here = "PAYLOAD"
    BY <1>1, <1>4, <2>3, SectionsMeet DEF SymbolAt
  <2> QED
    BY <2>1, <2>2, <2>3
<1>6. Position' = Position + 1
  <2>1. CASE symbol_counter + 1 = SectionLen(state)
    <3>1. symbol_counter' = 0 /\ state' = next
      BY <2>1 DEF Section, Advance
    <3> QED
      BY <1>1, <1>4, <1>5, <2>1, <3>1
  <2>2. CASE symbol_counter + 1 # SectionLen(state)
    <3>1. symbol_counter' = symbol_counter + 1 /\ state' = state
      BY <2>2 DEF Section, Advance
    <3> QED
      BY <1>1, <1>4, <1>5, <3>1
  <2> QED
    BY <2>1, <2>2
<1> QED
  BY <1>1, <1>2, <1>5, <1>6 DEF EmitsNext

LEMMA TailEmits ==
  ASSUME TypeOK, UNCHANGED config, TailSymbol
  PROVE  EmitsNext
<1>1. /\ state = "TAIL" /\ state' = state
      /\ header_sym_len \in HeaderLens /\ payload_sym_len \in PayloadLens
      /\ taps' = Shift(taps, Silence)
  BY DEF TailSymbol, TypeOK
<1>2. taps'[0] = Silence
  BY <1>1, ShiftMoves
<1>3. /\ Position = symbol_counter + SectionStart("TAIL")
      /\ symbol_counter \in Nat /\ symbol_counter < TailLen
      /\ Total = SectionStart("TAIL") + TailLen
      /\ SectionStart("TAIL") = Preamble + header_sym_len + payload_sym_len
      /\ SectionLen("TAIL") = TailLen
      /\ {Preamble, header_sym_len, payload_sym_len, TailLen} \subseteq Nat
  BY <1>1, PositionInFrame, SectionsMeet
<1>4. SymbolAt(Position + 1) = Silence
  BY <1>3 DEF SymbolAt
<1>5. CASE symbol_counter + 1 = TailLen
  <2>1. frame_complete' = TRUE /\ frame_assembled' = FALSE
    BY <1>3, <1>5 DEF TailSymbol
  <2>2. Position + 1 = Total
    BY <1>3, <1>5
  <2> QED
    BY <1>2, <1>4, <2>1, <2>2 DEF EmitsNext
<1>6. CASE symbol_counter + 1 # TailLen
  <2>1. /\ symbol_counter' = symbol_counter + 1
        /\ UNCHANGED <<frame_complete, frame_assembled>>
    BY <1>3, <1>6 DEF TailSymbol
  <2>2. Position' = Position + 1
    <3>1. Position' = symbol_counter' + SectionStart("TAIL")
      <4>1. SectionStart(state)' = SectionStart("TAIL")
        BY <1>1 DEF SectionStart, config
      <4>2. (Position = symbol_counter + SectionStart(state))'
        BY DEF Position, SectionStart
      <4> QED
        BY <4>1, <4>2
    <3> QED
      BY <1>3, <2>1, <3>1
  <2>3. Position + 1 # Total
    BY <1>3, <1>6
  <2> QED
    BY <1>2, <1>4, <2>1, <2>2, <2>3 DEF EmitsNext
<1> QED
  BY <1>5, <1>6

LEMMA SymbolEmits ==
  ASSUME TypeOK, TypeOK', UNCHANGED config, frame_assembled, generate_symbol
  PROVE  EmitsNext
<1>1. \/ Section("PREAMBLE", "HEADER", "preamble")
      \/ Section("HEADER", "PAYLOAD", "header")
      \/ Section("PAYLOAD", "TAIL", "payload")
      \/ TailSymbol
  BY DEF generate_symbol
<1>2. CASE Section("PREAMBLE", "HEADER", "preamble")
  BY <1>2, SectionEmits
<1>3. CASE Section("HEADER", "PAYLOAD", "header")
  BY <1>3, SectionEmits
<1>4. CASE Section("PAYLOAD", "TAIL", "payload")
  BY <1>4, SectionEmits
<1>5. CASE TailSymbol
  BY <1>5, TailEmits
<1> QED
  BY <1>1, <1>2, <1>3, <1>4, <1>5

-----------------------------------------------------------------------------
(* The samples owed, kept with the promise: a frame reported complete is not
   assembled any more.                                                       *)
LengthInv == LengthPromise /\ (frame_complete => ~frame_assembled)

LEMMA LengthInit == Init => LengthInv
  BY RateAssumption DEF Init, LengthInv, LengthPromise

(* What is owed of a symbol half written is less than a symbol. *)
LEMMA LengthSample ==
  ASSUME TypeOK, TypeOK', LengthInv, Sample PROVE LengthInv'
<1>1. /\ UNCHANGED config
      /\ sample_counter' = (sample_counter + 1) % K
      /\ owed' = IF owed > 0 THEN owed - 1 ELSE 0
      /\ IF sample_counter = 0 THEN generate_symbol
         ELSE UNCHANGED <<taps, state, symbol_counter, frame_assembled, frame_complete>>
  BY DEF Sample, NextPhase
<1>2. /\ K \in Nat \ {0} /\ sample_counter \in 0..(K - 1) /\ owed \in Nat
      /\ Position \in Nat /\ Total \in Nat /\ Position < Total
      /\ frame_assembled \in BOOLEAN /\ frame_complete \in BOOLEAN
  BY RateAssumption, PositionInFrame DEF TypeOK
<1>3. sample_counter' = IF sample_counter + 1 = K THEN 0 ELSE sample_counter + 1
  BY <1>1, <1>2
<1>4. Total' = Total
  BY <1>1 DEF Total, config
<1>5. owed' <= owed /\ owed' \in Nat
  BY <1>1, <1>2
<1>6. CASE frame_assembled /\ sample_counter = 0
  <2> DEFINE rest == Total - Position
  <2>1. EmitsNext
    BY <1>1, <1>6, SymbolEmits
  <2>2. owed = K * rest /\ rest \in Nat \ {0}
    BY <1>2, <1>6 DEF LengthInv, LengthPromise
  <2>3. CASE Position + 1 = Total
    <3>1. rest = 1
      BY <1>2, <2>3
    <3>2. owed = K
      BY <1>2, <2>2, <3>1
    <3>3. owed' < K
      BY <1>1, <1>2, <3>2
    <3> QED
      BY <2>1, <2>3, <3>3 DEF EmitsNext, LengthInv, LengthPromise
  <2>4. CASE Position + 1 # Total
    <3>1. /\ frame_assembled' = frame_assembled /\ frame_complete' = frame_complete
          /\ Position' = Position + 1
      BY <2>1, <2>4 DEF EmitsNext
    <3>2. Total' - Position' = rest - 1
      BY <1>2, <1>4, <3>1
    <3>3. K * (rest - 1) = K * rest - K
      BY <1>2, <2>2
    <3>4. rest - 1 \in Nat /\ K * (rest - 1) \in Nat
      BY <1>2, <2>2
    <3>5. owed' = owed - 1
      BY <1>1, <1>2, <2>2, <3>3, <3>4
    <3>6. owed' = K * (Total' - Position')
                  + (IF sample_counter' = 0 THEN 0 ELSE K - sample_counter')
      <4> HIDE DEF rest
      <4> QED
        BY <1>2, <1>3, <1>6, <2>2, <3>2, <3>3, <3>4, <3>5
    <3>7. ~frame_complete
      BY <1>6 DEF LengthInv
    <3> QED
      BY <3>1, <3>6, <3>7 DEF LengthInv, LengthPromise
  <2> QED
    BY <2>3, <2>4
<1>7. CASE sample_counter # 0
  <2>1. UNCHANGED <<state, symbol_counter, frame_assembled, frame_complete>>
    BY <1>1, <1>7
  <2>2. Position' = Position
    BY <1>1, <2>1 DEF Position, config
  <2>3. frame_complete' => owed' < K
    BY <1>2, <1>5, <2>1 DEF LengthInv, LengthPromise
  <2>4. ASSUME frame_assembled
        PROVE  owed' = K * (Total' - Position')
                       + (IF sample_counter' = 0 THEN 0 ELSE K - sample_counter')
    <3>1. Total - Position \in Nat /\ K * (Total - Position) \in Nat
      BY <1>2
    <3>2. owed = K * (Total - Position) + (K - sample_counter)
      BY <1>7, <2>4 DEF LengthInv, LengthPromise
    <3> QED
      BY <1>1, <1>2, <1>3, <1>4, <1>7, <2>2, <3>1, <3>2
  <2> QED
    BY <2>1, <2>3, <2>4 DEF LengthInv, LengthPromise
<1>8. CASE ~frame_assembled /\ sample_counter = 0
  <2>1. UNCHANGED <<frame_assembled, frame_complete>>
    BY <1>1, <1>8 DEF generate_symbol
  <2>2. frame_complete' => owed' < K
    BY <1>2, <1>5, <2>1 DEF LengthInv, LengthPromise
  <2> QED
    BY <1>8, <2>1, <2>2 DEF LengthInv, LengthPromise
<1> QED
  BY <1>6, <1>7, <1>8

LEMMA LengthNext ==
  ASSUME TypeOK, TypeOK', LengthInv, [Next]_vars PROVE LengthInv'
<1>1. CASE Reset
  BY <1>1 DEF Reset, ResetMachine, LengthInv, LengthPromise
<1>2. CASE SetProps \/ SetHeader
  <2>1. /\ UNCHANGED machine /\ UNCHANGED owed /\ ~frame_assembled
    BY <1>2 DEF SetProps, SetHeader, MayConfigure
  <2> QED
    BY <2>1 DEF machine, LengthInv, LengthPromise
<1>3. CASE Assemble
  <2>1. /\ state' = "PREAMBLE" /\ symbol_counter' = 0 /\ sample_counter' = 0
        /\ frame_complete' = FALSE /\ owed' = getframelen'
    BY <1>3 DEF Assemble, ResetMachine
  <2>2. Position' = 0
    BY <2>1 DEF Position
  <2>3. Total' \in Nat /\ K \in Nat /\ owed' = K * Total'
    <3>1. header_sym_len' \in HeaderLens /\ payload_sym_len' \in PayloadLens
      BY DEF TypeOK
    <3>2. /\ {Preamble, header_sym_len', payload_sym_len', 2 * M} \subseteq Nat
          /\ K \in Nat
      BY <3>1, RateAssumption, LengthAssumption
    <3>3. Total' = Preamble + header_sym_len' + payload_sym_len' + 2 * M
      BY DEF Total, TailLen
    <3>4. getframelen' = K * (Preamble + header_sym_len' + payload_sym_len' + 2 * M)
      BY DEF getframelen, TailLen
    <3> QED
      BY <2>1, <3>2, <3>3, <3>4
  <2>4. owed' = K * (Total' - Position') + 0
    BY <2>2, <2>3
  <2> QED
    BY <2>1, <2>4 DEF LengthInv, LengthPromise
<1>4. ASSUME NEW n \in Buffers, Write(n) PROVE LengthInv'
  BY <1>4 DEF Write, machine, config, LengthInv, LengthPromise, Position, Total
<1>5. CASE Sample
  BY <1>5, LengthSample
<1>6. CASE UNCHANGED vars
  BY <1>6 DEF vars, machine, config, LengthInv, LengthPromise, Position, Total
<1> QED
  BY <1>1, <1>2, <1>3, <1>4, <1>5, <1>6 DEF Next

LEMMA LengthInvariance == Spec => []LengthInv
<1>1. Init => LengthInv
  BY LengthInit
<1>2. TypeOK /\ TypeOK' /\ LengthInv /\ [Next]_vars => LengthInv'
  BY LengthNext
<1> QED
  BY <1>1, <1>2, BoundsTheorem, PTL DEF Spec

(* getframelen() counts every frame to the sample, also one that begins in the
   middle of a symbol, whatever lengths were configured and whoever was
   abandoned before.                                                         *)
THEOREM LengthTheorem == Spec => []LengthPromise
<1>1. LengthInv => LengthPromise
  BY DEF LengthInv
<1> QED
  BY <1>1, LengthInvariance, PTL

-----------------------------------------------------------------------------
(* Each sample brings a frame that has begun nearer its end; other calls leave
   it where it is.                                                           *)
Proceeding ==
  \/ frame_complete'
  \/ MidFrame' /\ Sample /\ owed > 0 /\ owed' = owed - 1
  \/ MidFrame' /\ ~Sample /\ owed' = owed
FrameProceeds == [][MidFrame => Proceeding]_vars

(* What FrameFinishes needs beside fairness: the samples owed are a natural
   number, and while the frame is under way every sample written is one less.*)
THEOREM ProceedTheorem == ASSUME ~Abort PROVE Spec => FrameProceeds
<1>1. TypeOK /\ LengthInv /\ [Next]_vars => [MidFrame => Proceeding]_vars
  <2> SUFFICES ASSUME TypeOK, LengthInv, Next, MidFrame PROVE Proceeding
    OBVIOUS
  <2>1. frame_assembled /\ (state # "PREAMBLE" \/ symbol_counter # 0)
    BY DEF MidFrame
  <2>2. CASE Sample
    <3>1. owed \in Nat /\ owed > 0 /\ owed' = owed - 1
      <4>1. owed = K * (Total - Position) + (IF sample_counter = 0 THEN 0 ELSE K - sample_counter)
        BY <2>1 DEF LengthInv, LengthPromise
      <4>2. Total - Position \in Nat \ {0} /\ K \in Nat \ {0}
        BY PositionInFrame, RateAssumption
      <4>3. K * (Total - Position) \in Nat \ {0}
        <5> \A a, b \in Nat \ {0} : a * b \in Nat \ {0}
          OBVIOUS
        <5> QED
          BY <4>2
      <4>4. sample_counter \in 0..(K - 1)
        BY DEF TypeOK
      <4>5. owed \in Nat /\ owed > 0
        <5> DEFINE owing == K * (Total - Position)
        <5>1. owing \in Nat \ {0}
          BY <4>3
        <5> HIDE DEF owing
        <5>2. owed = owing + (IF sample_counter = 0 THEN 0 ELSE K - sample_counter)
          BY <4>1 DEF owing
        <5> QED
          BY <4>2, <4>4, <5>1, <5>2
      <4> QED
        BY <2>2, <4>5 DEF Sample
    <3>2. frame_complete' \/ MidFrame'
      <4>1. CASE sample_counter = 0
        <5>1. generate_symbol /\ symbol_counter \in Nat
          BY <2>2, <4>1 DEF Sample, TypeOK
        <5>2. \/ Section("PREAMBLE", "HEADER", "preamble")
              \/ Section("HEADER", "PAYLOAD", "header")
              \/ Section("PAYLOAD", "TAIL", "payload")
              \/ TailSymbol
          BY <2>1, <5>1 DEF generate_symbol
        <5>3. CASE TailSymbol
          <6>1. state' = "TAIL" /\ "TAIL" # "PREAMBLE"
            BY <5>3 DEF TailSymbol
          <6>2. frame_complete' = TRUE \/ frame_assembled' = frame_assembled
            BY <5>3, Zenon DEF TailSymbol
          <6> QED
            BY <2>1, <6>1, <6>2, Zenon DEF MidFrame
        <5>4. CASE ~TailSymbol
          <6>1. UNCHANGED frame_assembled
            BY <5>2, <5>4, Zenon DEF Section
          <6>2. \/ state' \in {"HEADER", "PAYLOAD", "TAIL"}
                \/ state' = state /\ symbol_counter' = symbol_counter + 1
            BY <5>2, <5>4, SMTT(30) DEF Section, Advance
          <6>3. "PREAMBLE" \notin {"HEADER", "PAYLOAD", "TAIL"}
            OBVIOUS
          <6>4. symbol_counter + 1 # 0
            BY <5>1
          <6> QED
            BY <2>1, <6>1, <6>2, <6>3, <6>4, Zenon DEF MidFrame
        <5> QED
          BY <5>3, <5>4
      <4>2. CASE sample_counter # 0
        BY <2>1, <2>2, <4>2 DEF Sample, MidFrame
      <4> QED
        BY <4>1, <4>2
    <3> QED
      BY <2>2, <3>1, <3>2 DEF Proceeding
  <2>3. CASE ~Sample
    <3>1. PICK n \in Buffers : Write(n)
      BY <2>1, <2>3 DEF Next, Reset, SetProps, SetHeader, MayConfigure, Assemble
    <3>2. MidFrame' /\ owed' = owed
      BY <2>1, <3>1 DEF Write, machine, MidFrame
    <3> QED
      BY <2>3, <3>2 DEF Proceeding
  <2> QED
    BY <2>2, <2>3
<1> QED
  BY <1>1, LengthInvariance, BoundsTheorem, PTL DEF Spec, FrameProceeds

-----------------------------------------------------------------------------
(* The mapped sequence: as many symbols as the frame has left. *)
SymbolsLeft == IF frame_assembled THEN Total - Position ELSE 0

PendingShape ==
  /\ SymbolsLeft \in Nat /\ Pending \in Seq(SymbolSet) /\ Len(Pending) = SymbolsLeft
  /\ \A i \in 1..SymbolsLeft : Pending[i] = SymbolAt(Position + i)

LEMMA PendingIsSeq == ASSUME TypeOK PROVE PendingShape
<1>1. /\ SymbolsLeft \in Nat /\ Position \in Nat /\ Total \in Nat
      /\ SymbolsLeft + Position <= Total \/ SymbolsLeft = 0
  BY PositionInFrame DEF SymbolsLeft, TypeOK
<1>2. Pending = [i \in 1..SymbolsLeft |-> SymbolAt(Position + i)]
  BY DEF Pending, SymbolsLeft
<1>3. ASSUME NEW i \in 1..SymbolsLeft PROVE SymbolAt(Position + i) \in SymbolSet
  <2>1. /\ Position + i \in Nat \ {0} /\ frame \in 0..MaxFrames
        /\ {Preamble, header_sym_len, payload_sym_len} \subseteq Nat
    BY <1>1, SectionsMeet DEF TypeOK
  <2>2. \A f \in 0..MaxFrames, part \in {"preamble", "header", "payload", "none"},
           n \in Nat : Symbol(f, part, n) \in SymbolSet
    BY DEF Symbol, SymbolSet
  <2> DEFINE k == Position + i
  <2>3. CASE k <= Preamble
    <3>1. k - 1 \in Nat
      BY <2>1
    <3> QED
      BY <2>1, <2>2, <2>3, <3>1 DEF SymbolAt
  <2>4. CASE k > Preamble /\ k <= Preamble + header_sym_len
    <3>1. k - Preamble - 1 \in Nat /\ ~(k <= Preamble)
      BY <2>1, <2>4
    <3> QED
      BY <2>1, <2>2, <2>4, <3>1 DEF SymbolAt
  <2>5. CASE /\ k > Preamble + header_sym_len
             /\ k <= Preamble + header_sym_len + payload_sym_len
    <3>1. /\ k - Preamble - header_sym_len - 1 \in Nat
          /\ ~(k <= Preamble) /\ ~(k <= Preamble + header_sym_len)
      BY <2>1, <2>5
    <3> QED
      BY <2>1, <2>2, <2>5, <3>1 DEF SymbolAt
  <2>6. CASE k > Preamble + header_sym_len + payload_sym_len
    <3>1. /\ ~(k <= Preamble) /\ ~(k <= Preamble + header_sym_len)
          /\ ~(k <= Preamble + header_sym_len + payload_sym_len)
      BY <2>1, <2>6
    <3> QED
      BY <3>1, SilenceIsSymbol DEF SymbolAt
  <2> QED
    BY <2>1, <2>3, <2>4, <2>5, <2>6
<1>4. Pending \in [1..SymbolsLeft -> SymbolSet]
  BY <1>2, <1>3
<1>5. Pending \in Seq(SymbolSet)
  BY <1>1, <1>4, SeqDef
<1>6. Len(Pending) = SymbolsLeft
  BY <1>1, <1>4, <1>5, LenProperties
<1> QED
  BY <1>1, <1>2, <1>5, <1>6 DEF PendingShape

NonePending == Pending = <<>>

LEMMA NothingPending == TypeOK /\ ~frame_assembled => NonePending
<1> SUFFICES ASSUME TypeOK, ~frame_assembled PROVE Pending = <<>>
  BY DEF NonePending
<1>1. Pending \in Seq(SymbolSet) /\ Len(Pending) = 0
  BY PendingIsSeq DEF PendingShape, SymbolsLeft
<1> QED
  BY <1>1, EmptySeq

(* One symbol of the frame is one emission of the source. *)
LEMMA EmissionMaps ==
  ASSUME TypeOK, TypeOK', LengthInv, LengthInv', frame_assembled, EmitsNext,
         UNCHANGED config, UNCHANGED frame
  PROVE  Source!Emit
<1>1. /\ Pending \in Seq(SymbolSet) /\ Len(Pending) = Total - Position
      /\ Total - Position \in Nat \ {0}
      /\ \A i \in 1..(Total - Position) : Pending[i] = SymbolAt(Position + i)
      /\ Position \in Nat /\ Total \in Nat
  BY PendingIsSeq, PositionInFrame DEF PendingShape, SymbolsLeft
<1>2. Pending # <<>>
  BY <1>1
<1>3. /\ Tail(Pending) \in Seq(SymbolSet) /\ Len(Tail(Pending)) = Total - Position - 1
      /\ \A i \in 1..(Total - Position - 1) : Tail(Pending)[i] = Pending[i + 1]
  BY <1>1, <1>2, HeadTailProperties
<1>4. taps'[0] = Head(Pending)
  BY <1>1, <1>2 DEF EmitsNext
<1>5. /\ Pending' \in Seq(SymbolSet) /\ Len(Pending') = SymbolsLeft'
      /\ \A i \in 1..SymbolsLeft' : Pending'[i] = SymbolAt(Position + i)'
  <2>1. PendingShape'
    BY PendingIsSeq, PTL
  <2> QED
    BY <2>1 DEF PendingShape, SymbolSet
<1>6. Total' = Total /\ \A i : SymbolAt(i)' = SymbolAt(i)
  BY DEF Total, SymbolAt, config
<1>7. SymbolsLeft' = Total - Position - 1
  <2>1. CASE Position + 1 = Total
    BY <1>1, <2>1 DEF EmitsNext, SymbolsLeft
  <2>2. CASE Position + 1 # Total
    <3>1. frame_assembled' /\ Position' = Position + 1
      BY <2>2 DEF EmitsNext
    <3> QED
      BY <1>1, <1>6, <3>1 DEF SymbolsLeft
  <2> QED
    BY <2>1, <2>2
<1>8. Pending' = Tail(Pending)
  <2>1. ASSUME NEW i \in 1..(Total - Position - 1)
        PROVE  Pending'[i] = Tail(Pending)[i]
    <3>1. Position + 1 # Total
      BY <1>1
    <3>2. Position' = Position + 1
      BY <3>1 DEF EmitsNext
    <3>3. i + 1 \in 1..(Total - Position) /\ Position' + i = Position + (i + 1)
      BY <1>1, <3>2
    <3>4. SymbolAt(Position + i)' = SymbolAt(Position' + i)
      BY DEF SymbolAt, config
    <3> QED
      BY <1>1, <1>3, <1>5, <1>7, <3>3, <3>4
  <2> QED
    BY <1>3, <1>5, <1>7, <2>1, SeqEqual
<1>9. frame_complete' = (Tail(Pending) = <<>>)
  <2>1. (Tail(Pending) = <<>>) <=> (Position + 1 = Total)
    <3>1. (Tail(Pending) = <<>>) <=> (Len(Tail(Pending)) = 0)
      BY <1>3, EmptySeq
    <3> QED
      BY <1>1, <1>3, <3>1
  <2>2. ~frame_complete
    BY DEF LengthInv
  <2>3. frame_complete' \in BOOLEAN /\ frame_complete \in BOOLEAN
    BY DEF TypeOK
  <2> QED
    BY <2>1, <2>2, <2>3 DEF EmitsNext
<1> QED
  BY <1>2, <1>4, <1>8, <1>9 DEF Source!Emit

(* Assembling a frame owes the source's frame. *)
LEMMA AssembleMaps ==
  ASSUME TypeOK, TypeOK', Assemble
  PROVE  \E h \in HeaderLens, l \in PayloadLens : Source!Assemble(h, l)
<1>1. /\ state' = "PREAMBLE" /\ symbol_counter' = 0 /\ frame_complete' = FALSE
      /\ frame_assembled' = TRUE /\ frame' = frame + 1 /\ frame < MaxFrames
      /\ header_sym_len' = header_sym_len /\ taps' = taps
  BY DEF Assemble, ResetMachine
<1>2. header_sym_len \in HeaderLens /\ payload_sym_len' \in PayloadLens
  BY DEF TypeOK, Assemble
<1>3. Position' = 0
  BY <1>1 DEF Position
<1>4. Total' = Preamble + header_sym_len + payload_sym_len' + TailLen /\ Total' \in Nat
  <2>1. {Preamble, header_sym_len, payload_sym_len', TailLen} \subseteq Nat
    BY <1>2, RateAssumption, LengthAssumption DEF TailLen
  <2>2. Total' = Preamble + header_sym_len + payload_sym_len' + TailLen
    BY <1>1 DEF Total, TailLen
  <2> QED
    BY <2>1, <2>2
<1>5. Pending' = [i \in 1..Total' |-> SymbolAt(Position + i)']
  <2>1. Pending' = [i \in 1..(Total' - Position') |-> SymbolAt(Position + i)']
    BY <1>1 DEF Pending
  <2>2. Total' - Position' = Total'
    BY <1>3, <1>4
  <2> QED
    BY <2>1, <2>2
<1>6. ASSUME NEW i \in 1..Total'
      PROVE  SymbolAt(Position + i)' =
               IF i <= Preamble THEN Symbol(frame + 1, "preamble", i - 1)
               ELSE IF i <= Preamble + header_sym_len
                    THEN Symbol(frame + 1, "header", i - Preamble - 1)
               ELSE IF i <= Preamble + header_sym_len + payload_sym_len'
                    THEN Symbol(frame + 1, "payload", i - Preamble - header_sym_len - 1)
               ELSE Silence
  <2>1. Position' + i = i
    BY <1>3, <1>4
  <2> QED
    BY <1>1, <2>1 DEF SymbolAt, Symbol, Silence
<1>7. Pending' = Source!Frame(frame + 1, header_sym_len, payload_sym_len')
  BY <1>4, <1>5, <1>6 DEF Source!Frame, Source!Symbol, Source!Silence, Symbol, Silence
<1>8. Source!Assemble(header_sym_len, payload_sym_len')
  BY <1>1, <1>7 DEF Source!Assemble
<1> QED
  BY <1>2, <1>8

(* Every step is a step of the source, or none of its business. *)
LEMMA StepMaps ==
  ASSUME TypeOK, TypeOK', LengthInv, LengthInv', [Next]_vars
  PROVE  [Source!Next]_(Source!vars)
<1>1. CASE Reset
  <2>1. ~frame_assembled' /\ ~frame_complete' /\ frame_complete' = FALSE
        /\ UNCHANGED <<taps, frame>>
    BY <1>1 DEF Reset, ResetMachine
  <2>2. NonePending'
    BY <2>1, NothingPending, PTL
  <2> QED
    BY <2>1, <2>2 DEF NonePending, Source!Abandon, Source!Next
<1>2. CASE SetProps \/ SetHeader
  <2>1. UNCHANGED machine /\ UNCHANGED <<frame, taps>> /\ ~frame_assembled
    BY <1>2 DEF SetProps, SetHeader, MayConfigure
  <2>2. ~frame_assembled'
    BY <2>1 DEF machine
  <2>3. NonePending /\ NonePending'
    BY <2>1, <2>2, NothingPending, PTL
  <2> QED
    BY <2>1, <2>3 DEF NonePending, machine, Source!vars
<1>3. CASE Assemble
  BY <1>3, AssembleMaps DEF Source!Next
<1>4. ASSUME NEW n \in Buffers, Write(n) PROVE UNCHANGED Source!vars
  BY <1>4 DEF Write, machine, config, Source!vars, Pending, Position, Total, SymbolAt
<1>5. CASE Sample
  <2>1. UNCHANGED config /\ UNCHANGED frame
    BY <1>5 DEF Sample
  <2>2. CASE sample_counter # 0
    <3>1. UNCHANGED <<taps, state, symbol_counter, frame_assembled, frame_complete>>
      BY <1>5, <2>2 DEF Sample
    <3> QED
      BY <2>1, <3>1 DEF config, Source!vars, Pending, Position, Total, SymbolAt
  <2>3. CASE sample_counter = 0 /\ frame_assembled
    <3>1. generate_symbol
      BY <1>5, <2>3 DEF Sample
    <3>2. EmitsNext
      BY <2>1, <2>3, <3>1, SymbolEmits
    <3> QED
      BY <2>1, <2>3, <3>2, EmissionMaps DEF Source!Next
  <2>4. CASE sample_counter = 0 /\ ~frame_assembled
    <3>1. /\ taps' = Shift(taps, Silence)
          /\ UNCHANGED <<frame_assembled, frame_complete>>
      BY <1>5, <2>4 DEF Sample, generate_symbol
    <3>2. taps'[0] = Silence
      BY <3>1, ShiftMoves
    <3>3. ~frame_assembled'
      BY <2>4, <3>1
    <3>4. NonePending /\ NonePending'
      BY <2>4, <3>3, NothingPending, PTL
    <3> QED
      BY <2>1, <3>1, <3>2, <3>4
         DEF NonePending, Source!Emit, Source!Next, Source!Silence, Source!Symbol, Silence, Symbol
  <2> QED
    BY <2>2, <2>3, <2>4
<1>6. CASE UNCHANGED vars
  BY <1>6 DEF vars, machine, config, Source!vars, Pending, Position, Total, SymbolAt
<1> QED
  BY <1>1, <1>2, <1>3, <1>4, <1>5, <1>6 DEF Next

LEMMA InitMaps == Init => Source!Init
<1> SUFFICES ASSUME Init PROVE Source!Init
  OBVIOUS
<1>1. TypeOK
  BY InitIInv DEF IInv
<1>2. Pending = <<>>
  BY <1>1, NothingPending DEF NonePending, Init
<1>3. taps[0] = Silence
  BY RateAssumption DEF Init
<1> QED
  BY <1>2, <1>3 DEF Init, Source!Init, Source!Silence, Source!Symbol, Silence, Symbol

(* The generator is a frame source: whatever is called between samples, the
   symbols of the last frame assembled come out exactly once and in order.   *)
THEOREM SourceTheorem == Spec => ImplementsSource
<1>1. Init => Source!Init
  BY InitMaps
<1>2. TypeOK /\ TypeOK' /\ LengthInv /\ LengthInv' /\ [Next]_vars
        => [Source!Next]_(Source!vars)
  BY StepMaps
<1> QED
  BY <1>1, <1>2, LengthInvariance, BoundsTheorem, PTL DEF Spec, ImplementsSource, Source!Spec
=============================================================================

------------------------- MODULE FlexFrameSyncProofs -------------------------
(***************************************************************************)
(* For every size of the buffer, of the template and of the sections.  The  *)
(* invariants come in three layers.  Base holds of the code as it is: the   *)
(* counters, the symbol clock, and why execute() recurses only once.  Kept  *)
(* is about headers long enough that the samples a frame leaves in the      *)
(* flushed buffer cannot fill the detector's again: then no cell is read    *)
(* after it was overwritten.  Ordered adds that no peak is found at index   *)
(* 0: then no sample is lost or repeated.                                   *)
(***************************************************************************)
EXTENDS FlexFrameSync, SequenceTheorems, TLAPS

(* What the default header has plenty of: a frame whose header is invalid has
   used at least half of the buffer.                                         *)
LongHeaders == \A h \in HeaderLens : SLen + 2 * h - 2 >= Half

Flushing == flush # <<>>
InFrame == state # "DETECTFRAME"
At == flush[1]
(* The sample that the next step handles. *)
Upcoming == IF Flushing THEN buf_time_1[At] ELSE Successor(now)

(* TypeOK, but for a peak at index 0: it leaves the buffer full. *)
Types ==
  /\ state \in States /\ qstate \in {"SEEK", "ALIGN"}
  /\ mf_counter \in {-1, 0, 1}
  /\ counter \in 0..NFFT /\ (qstate = "SEEK" \/ ~ZeroIndex => counter \in Index)
  /\ buf_time_0 \in [Index -> Cells] /\ buf_time_1 \in [Index -> Cells]
  /\ preamble_counter \in 0..(Preamble + Delay)
  /\ state = "RXPREAMBLE" => preamble_counter < Preamble + Delay
  /\ symbol_counter \in Nat
  /\ state = "RXHEADER" => symbol_counter < header_sym_len
  /\ state = "RXPAYLOAD" => symbol_counter < payload_sym_len
  /\ header_sym_len \in HeaderLens /\ payload_sym_len \in PayloadLens
  /\ now \in Samples /\ fed \in Cells /\ start \in Cells
  /\ flush \in Seq(Index)
  /\ used \in Nat /\ called \in {"none", "header", "payload"}

(* The counters of each state, and what the symbol clock has made of the
   samples used: one of every two, but for where it started.                 *)
Clock ==
  /\ ~InFrame => preamble_counter = 0 /\ symbol_counter = 0 /\ used = 0
  /\ state = "RXPREAMBLE" => symbol_counter = 0
  /\ state \in {"RXHEADER", "RXPAYLOAD"} => preamble_counter = Preamble + Delay
  /\ InFrame => mf_counter - used + 2 * Symbols \in {0, 1}
  /\ InFrame /\ used > 0 => mf_counter \in {-1, 0}

(* The detector during a flush: it was reset when the frame closed, a template
   after the start of the buffer or later.  A peak needs a sample behind the
   cleared front, so it leaves the buffer emptier than the flush is far.      *)
ClearedFront == counter >= Half /\ \A j \in 0..(Half - 1) : buf_time_0[j] = Zero
Replay ==
  /\ qstate = "SEEK" => /\ counter + SLen <= At + Half
                        /\ counter <= At \/ ClearedFront
  /\ qstate = "ALIGN" => counter < At

(* A flush is over, or the frame has used the samples up to where it is; or it
   is back at the detector.                                                  *)
Position ==
  /\ Len(flush) <= 1
  /\ InFrame => IF Flushing THEN used = At ELSE used >= NFFT
  /\ Flushing /\ ~InFrame => Replay

Base == Types /\ Clock /\ Position

(* After a frame with a long header the detector cannot fill its buffer again
   before the flush is over, so the samples that are flushed stay.           *)
Spare == Flushing /\ ~InFrame => qstate = "SEEK" /\ counter <= At
Clean ==
  /\ \A j \in Index : buf_time_0[j] # Noise
  /\ Flushing => \A j \in Index : buf_time_1[j] # Noise
Kept == Spare /\ Clean

(* The first n cells of a buffer hold samples in the order they came. *)
InOrder(b, n) ==
  /\ \A j \in 0..(n - 1) : b[j] # Noise
  /\ \A j \in 0..(n - 2) : Follows(b[j], b[j + 1])

(* The detector's buffer continues with the sample that comes next. *)
Detecting ==
  ~InFrame =>
    /\ counter >= 1 /\ InOrder(buf_time_0, counter)
    /\ Follows(buf_time_0[counter - 1], Upcoming)
    /\ qstate = "ALIGN" => start = buf_time_0[0]

(* The buffer that is flushed ends with the last sample the caller gave, and
   the frame has been given what is before.                                  *)
Flushed ==
  /\ Flushing => InOrder(buf_time_1, NFFT) /\ buf_time_1[NFFT - 1] = now
  /\ InFrame /\ Flushing => IF At = 0 THEN start = buf_time_1[0] ELSE fed = buf_time_1[At - 1]
  /\ InFrame /\ ~Flushing => fed = now
Ordered == Detecting /\ Flushed

-----------------------------------------------------------------------------
(* Facts about the constants and about one state. *)

LEMMA Sizes ==
  /\ NFFT \in Nat /\ Half \in Nat \ {0} /\ NFFT = 2 * Half /\ Half >= SLen /\ NFFT >= 2
  /\ SLen \in Nat \ {0} /\ SLen = 2 * (Preamble + Delay) /\ Preamble + Delay \in Nat \ {0}
  /\ HeaderLens \subseteq Nat \ {0} /\ PayloadLens \subseteq Nat \ {0}
<1>1. NFFT = 2 * Half /\ Half \in Nat
  BY DetectorAssumption DEF Half
<1> QED
  BY <1>1, DetectorAssumption, SyncAssumption DEF Delay

LEMMA WindowSizes ==
  /\ Window \in Nat \ {0} /\ Samples \subseteq Nat /\ 0 \in Samples
  /\ Zero \notin Samples /\ Noise \notin Samples /\ Zero # Noise
  /\ \A n \in Samples : Successor(n) \in Samples
<1>1. Window \in Nat \ {0}
  BY DetectorAssumption
<1>2. \A n \in Samples : (n + 1) % Window \in 0..(Window - 1)
  BY <1>1 DEF Samples
<1> QED
  BY <1>1, <1>2 DEF Samples, Successor, Zero, Noise

(* The sample handled is the next one, or one that is flushed. *)
LEMMA UpcomingIs ==
  ASSUME Base
  PROVE  /\ Upcoming \in Cells
         /\ ~Flushing => Upcoming \in Samples
         /\ Flushing => At \in Index /\ flush = <<At>>
<1>1. Flushing => At \in Index /\ flush = <<At>>
  <2> SUFFICES ASSUME Flushing PROVE At \in Index /\ flush = <<At>>
    OBVIOUS
  <2>1. flush \in Seq(Index) /\ flush # <<>>
    BY DEF Base, Types, Flushing
  <2>2. Len(flush) \in Nat \ {0}
    BY <2>1, EmptySeq, Zenon
  <2>3. Len(flush) = 1
    <3>1. \A n \in Nat \ {0} : n <= 1 => n = 1
      OBVIOUS
    <3> QED
      BY <2>2, <3>1, Zenon DEF Base, Position
  <2> QED
    BY <2>1, <2>3 DEF At
<1>2. CASE Flushing
  BY <1>1, <1>2 DEF Base, Types, Upcoming
<1>3. CASE ~Flushing
  BY <1>3, WindowSizes DEF Base, Types, Upcoming, Cells
<1> QED
  BY <1>1, <1>2, <1>3

(* A step of the spec, by where its sample comes from. *)
Rest == IF Flushing /\ At + 1 < NFFT THEN <<At + 1>> ELSE <<>>
Turn == Handle(Upcoming, Rest) /\ now' = IF Flushing THEN now ELSE Upcoming
LEMMA Turns ==
  ASSUME Base, Next
  PROVE  Turn \/ Reset \/ SetHeaderLen
<1>1. CASE Flush
  <2>1. Flushing /\ At \in Index /\ flush = <<At>>
    BY <1>1, UpcomingIs DEF Flush, Flushing
  <2>2. Head(flush) = At /\ Tail(flush) = <<>>
    BY <2>1
  <2>3. <<At + 1>> \o <<>> = <<At + 1>>
    OBVIOUS
  <2> QED
    BY <1>1, <2>1, <2>2, <2>3 DEF Flush, Turn, Rest, Upcoming
<1>2. CASE Live
  BY <1>2 DEF Live, Turn, Rest, Upcoming, Flushing
<1> QED
  BY <1>1, <1>2 DEF Next

(* How far a flush is after a step that does not start one. *)
LEMMA RestIs ==
  ASSUME Base, flush' = Rest, now' = IF Flushing THEN now ELSE Upcoming
  PROVE  /\ flush' \in Seq(Index) /\ Len(flush') <= 1 /\ now' \in Samples
         /\ Flushing' <=> Flushing /\ At + 1 < NFFT
         /\ Flushing' => At' = At + 1
         /\ Flushing /\ ~Flushing' => At = NFFT - 1
<1>1. /\ Flushing' <=> Flushing /\ At + 1 < NFFT
      /\ Flushing' => At' = At + 1
  BY DEF Rest, Flushing, At
<1>2. Flushing /\ ~Flushing' => At = NFFT - 1
  BY <1>1, UpcomingIs, Sizes DEF Index
<1>3. Flushing /\ At + 1 < NFFT => At + 1 \in Index
  BY UpcomingIs, Sizes DEF Index
<1>4. flush' \in Seq(Index) /\ Len(flush') <= 1 /\ now' \in Samples
  BY <1>3, UpcomingIs DEF Rest, Base, Types
<1> QED
  BY <1>1, <1>2, <1>4

(* The kinds of turn: the detector's, and those of an open frame. *)
FrameTurn == flush' = Rest /\ (RxPreamble(Upcoming) \/ RxHeader(Upcoming) \/ RxPayload(Upcoming))
LEMMA TurnKinds == Turn => SeekPN(Upcoming, Rest) \/ FrameTurn
BY DEF Turn, Handle, FrameTurn

(* What is moved to the front of a buffer, and what stays behind it. *)
LEMMA FromIs ==
  ASSUME NEW S, NEW b \in [Index -> S], NEW r \in Index
  PROVE  /\ From(b, r) \in [Index -> S]
         /\ \A j \in 0..(NFFT - r - 1) : From(b, r)[j] = b[j + r] /\ j + r \in Index
<1>1. \A j \in Index : j + r < NFFT => j + r \in Index
  BY Sizes DEF Index
<1>2. \A j \in 0..(NFFT - r - 1) : j \in Index /\ j + r < NFFT
  BY Sizes DEF Index
<1> QED
  BY <1>1, <1>2 DEF From

-----------------------------------------------------------------------------
(* Base: the first state. *)
LEMMA BaseInit == Init => Base
<1> SUFFICES ASSUME Init PROVE Base
  OBVIOUS
<1>1. counter = Half /\ Half \in Index /\ Half \in 0..NFFT
  BY Sizes DEF Init, create, Index
<1>2. Flushing = FALSE /\ InFrame = FALSE
  BY DEF Init, Flushing, InFrame
<1>3. Types
  <2>1. Zero \in Cells /\ Noise \in Cells /\ now \in Samples
    BY WindowSizes DEF Init, Cells
  <2> QED
    BY <1>1, <2>1, Sizes DEF Init, create, Types, States
<1>4. Clock
  BY DEF Init, Clock, InFrame
<1>5. Position
  BY <1>2 DEF Position, Init
<1> QED
  BY <1>3, <1>4, <1>5 DEF Base

-----------------------------------------------------------------------------
(* Base: the detector's turn. *)

(* The detector goes on: it takes the sample, or transforms and moves what it
   has.                                                                      *)
GoesOn(x) == Collect(x) \/ Miss(x) \/ \E r \in Peaks(Filled(x)) : Peak(x, r)
Detects == SeekPN(Upcoming, Rest) /\ ~Returns /\ now' = IF Flushing THEN now ELSE Upcoming
LEMMA DetectsIs ==
  ASSUME Base, Detects
  PROVE  /\ ~InFrame /\ ~InFrame' /\ flush' = Rest /\ fed' = Zero /\ called' = "none"
         /\ UNCHANGED <<mf_counter, state, preamble_counter, symbol_counter, config, used>>
         /\ Filled(Upcoming) \in [Index -> Cells]
         /\ counter \in 0..NFFT /\ (qstate = "SEEK" => counter \in Index)
         /\ GoesOn(Upcoming) /\ (qstate = "ALIGN" => Collect(Upcoming))
<1>1. /\ ~InFrame /\ ~InFrame' /\ flush' = Rest /\ fed' = Zero /\ called' = "none"
      /\ execute(Upcoming)
      /\ UNCHANGED <<mf_counter, state, preamble_counter, symbol_counter, config, used>>
  BY DEF Detects, SeekPN, InFrame
<1>2. GoesOn(Upcoming) /\ (qstate = "ALIGN" => Collect(Upcoming))
  BY <1>1 DEF Detects, execute, execute_seek, execute_align, GoesOn, Save, Returns
<1>3. Filled(Upcoming) \in [Index -> Cells]
  BY UpcomingIs DEF Filled, Base, Types
<1>4. counter \in 0..NFFT /\ (qstate = "SEEK" => counter \in Index)
  BY DEF Base, Types
<1> QED
  BY <1>1, <1>2, <1>3, <1>4

LEMMA DetectsTypes ==
  ASSUME Base, Detects
  PROVE  /\ qstate' \in {"SEEK", "ALIGN"} /\ start' \in Cells
         /\ counter' \in 0..NFFT /\ (qstate' = "SEEK" \/ ~ZeroIndex => counter' \in Index)
         /\ buf_time_0' \in [Index -> Cells] /\ buf_time_1' \in [Index -> Cells]
<1> DEFINE F == Filled(Upcoming)
<1>1. /\ F \in [Index -> Cells] /\ counter \in 0..NFFT
      /\ GoesOn(Upcoming) /\ (qstate = "ALIGN" => Collect(Upcoming))
  BY DetectsIs
<1>2. /\ buf_time_1 \in [Index -> Cells] /\ start \in Cells /\ qstate \in {"SEEK", "ALIGN"}
      /\ [j \in Index |-> Noise] \in [Index -> Cells]
  BY DEF Base, Types, Cells
<1>3. Half \in Index /\ Half \in 0..NFFT
  BY Sizes DEF Index
<1>4. CASE Collect(Upcoming)
  <2>1. /\ buf_time_0' = F /\ counter' = counter + 1 /\ counter + 1 < NFFT
        /\ UNCHANGED <<qstate, buf_time_1, start>>
    BY <1>4 DEF Collect
  <2>2. counter' \in Index /\ counter' \in 0..NFFT
    BY <1>1, <2>1, Sizes DEF Index
  <2> QED
    BY <1>1, <1>2, <2>1, <2>2
<1>5. CASE Miss(Upcoming)
  <2>1. /\ buf_time_0' = From(F, Half) /\ counter' = Half /\ UNCHANGED <<qstate, start>>
        /\ buf_time_1' \in {buf_time_1, [j \in Index |-> Noise]}
    BY <1>5 DEF Miss
  <2>2. From(F, Half) \in [Index -> Cells]
    BY <1>1, <1>3, FromIs
  <2> QED
    BY <1>2, <1>3, <2>1, <2>2
<1>6. ASSUME NEW r \in Peaks(F), Peak(Upcoming, r)
      PROVE  /\ qstate' = "ALIGN" /\ start' \in Cells
             /\ counter' \in 0..NFFT /\ (~ZeroIndex => counter' \in Index)
             /\ buf_time_0' \in [Index -> Cells] /\ buf_time_1' \in [Index -> Cells]
  <2>1. /\ buf_time_0' = From(F, r) /\ counter' = NFFT - r
        /\ buf_time_1' = [j \in Index |-> Noise] /\ qstate' = "ALIGN" /\ start' = F[r]
    BY <1>6 DEF Peak
  <2>2. r \in Index /\ (~ZeroIndex => r # 0) /\ NFFT - r \in 0..NFFT
        /\ (~ZeroIndex => NFFT - r \in Index)
    BY Sizes DEF Peaks, Index
  <2>3. From(F, r) \in [Index -> Cells] /\ F[r] \in Cells
    BY <1>1, <2>2, FromIs
  <2> QED
    BY <1>2, <2>1, <2>2, <2>3
<1> QED
  BY <1>1, <1>4, <1>5, <1>6 DEF GoesOn

(* A frame that closed during the flush: the detector fills its buffer behind
   cleared cells, so a peak it finds leaves it fewer samples than the flush
   has given since.                                                          *)
LEMMA ReplayStep ==
  ASSUME Base, Detects, Flushing'
  PROVE  Replay'
<1> DEFINE F == Filled(Upcoming)
<1>1. /\ ~InFrame /\ flush' = Rest /\ now' = (IF Flushing THEN now ELSE Upcoming)
      /\ GoesOn(Upcoming) /\ (qstate = "ALIGN" => Collect(Upcoming))
  BY DetectsIs DEF Detects
<1>2. Flushing /\ At + 1 < NFFT /\ At' = At + 1 /\ At \in Nat
  BY <1>1, RestIs, UpcomingIs, Sizes DEF Index
<1>3. Replay /\ qstate \in {"SEEK", "ALIGN"} /\ counter \in Nat
  BY <1>1, <1>2, Sizes DEF Base, Position, Types
<1>4. CASE Collect(Upcoming)
  <2>1. buf_time_0' = F /\ counter' = counter + 1 /\ UNCHANGED qstate
    BY <1>4 DEF Collect
  <2>2. ClearedFront => ClearedFront'
    <3> SUFFICES ASSUME ClearedFront PROVE ClearedFront'
      OBVIOUS
    <3>1. counter >= Half /\ counter' >= Half
      BY <1>3, <2>1, Sizes DEF ClearedFront
    <3>2. \A j \in 0..(Half - 1) : j \in Index /\ j # counter
      BY <1>3, <3>1, Sizes DEF Index
    <3> QED
      BY <2>1, <3>1, <3>2 DEF ClearedFront, Filled
  <2>3. qstate = "SEEK" => /\ counter + 1 + SLen <= At + 1 + Half
                           /\ counter + 1 <= At + 1 \/ ClearedFront'
    BY <1>2, <1>3, <2>2, Sizes DEF Replay
  <2>4. qstate = "ALIGN" => counter + 1 < At + 1
    BY <1>2, <1>3 DEF Replay
  <2> QED
    BY <1>2, <2>1, <2>3, <2>4 DEF Replay
<1>5. CASE ~Collect(Upcoming) /\ counter + 1 >= NFFT
  <2>1. /\ qstate = "SEEK" /\ counter + SLen <= At + Half /\ ClearedFront
        /\ counter = NFFT - 1
    BY <1>1, <1>2, <1>3, <1>5, Sizes DEF Replay, Base, Types, Index
  <2>2. At' >= Half + SLen
    BY <1>2, <2>1, Sizes
  <2>3. CASE Miss(Upcoming)
    <3>1. counter' = Half /\ qstate' = "SEEK"
      BY <2>1, <2>3 DEF Miss
    <3> QED
      BY <1>2, <2>2, <3>1, Sizes DEF Replay
  <2>4. ASSUME NEW r \in Peaks(F), Peak(Upcoming, r)
        PROVE  Replay'
    <3>1. counter' = NFFT - r /\ qstate' = "ALIGN"
      BY <2>4 DEF Peak
    <3>2. PICK j \in r..(r + SLen - 1) : F[j] # Zero
      BY DEF Peaks
    <3>3. r \in Nat /\ j \in Index
      BY <3>2, Sizes DEF Peaks, Index
    <3>4. j >= Half
      <4>1. \A i \in 0..(Half - 1) : i \in Index /\ i # counter
        BY <2>1, Sizes DEF Index
      <4>2. \A i \in 0..(Half - 1) : F[i] = Zero
        BY <2>1, <4>1 DEF ClearedFront, Filled
      <4> QED
        BY <3>2, <3>3, <4>2, Sizes DEF Index
    <3>5. NFFT - r < Half + SLen
      BY <3>2, <3>3, <3>4, Sizes DEF Index
    <3> QED
      BY <1>2, <2>2, <3>1, <3>3, <3>5, Sizes DEF Replay
  <2> QED
    BY <1>1, <1>5, <2>3, <2>4 DEF GoesOn
<1> QED
  BY <1>1, <1>4, <1>5 DEF GoesOn, Miss, Peak

LEMMA DetectsBase ==
  ASSUME Base, Detects
  PROVE  Base'
<1>1. /\ ~InFrame /\ ~InFrame' /\ flush' = Rest /\ fed' = Zero /\ called' = "none"
      /\ UNCHANGED <<mf_counter, state, preamble_counter, symbol_counter, config, used>>
  BY DetectsIs
<1>2. flush' \in Seq(Index) /\ Len(flush') <= 1 /\ now' \in Samples
  BY <1>1, RestIs DEF Detects
<1>3. Types'
  BY <1>1, <1>2, DetectsTypes DEF Base, Types, config, Cells
<1>4. Clock'
  BY <1>1 DEF Base, Clock, InFrame, Symbols
<1>5. Position'
  BY <1>1, <1>2, ReplayStep DEF Position
<1> QED
  BY <1>3, <1>4, <1>5 DEF Base

(* The aligned buffer is returned: a frame opens, and its flush. *)
Opens == SeekPN(Upcoming, Rest) /\ Returns /\ now' = IF Flushing THEN now ELSE Upcoming
LEMMA OpensIs ==
  ASSUME Base, Opens
  PROVE  /\ ~InFrame /\ InFrame' /\ ~Flushing /\ Flushing' /\ At' = 0
         /\ state' = "RXPREAMBLE" /\ flush' = <<0>> /\ fed' = Zero /\ called' = "none"
         /\ mf_counter' \in {0, 1} /\ now' = Upcoming /\ Upcoming \in Samples
         /\ UNCHANGED <<preamble_counter, symbol_counter, config, used, start>>
         /\ qstate = "ALIGN" /\ counter + 1 >= NFFT
         /\ Filled(Upcoming) \in [Index -> Cells] /\ buf_time_1' = Filled(Upcoming)
         /\ qstate' = "SEEK" /\ counter' = Half
         /\ buf_time_0' = [j \in Index |-> IF j < Half THEN Filled(Upcoming)[j + Half] ELSE Zero]
<1>1. ~InFrame /\ qstate = "ALIGN" /\ counter + 1 >= NFFT
  BY DEF Opens, SeekPN, InFrame, Returns
<1>2. ~Flushing
  <2> SUFFICES ASSUME Flushing PROVE FALSE
    OBVIOUS
  <2>1. counter < At
    BY <1>1 DEF Base, Position, Replay
  <2> QED
    BY <1>1, <2>1, UpcomingIs, Sizes DEF Index, Base, Types
<1>3. Save(Upcoming)
  <2>1. counter \in Nat /\ NFFT \in Nat
    BY Sizes DEF Base, Types
  <2> QED
    BY <1>1, <2>1 DEF Opens, SeekPN, execute, execute_seek, execute_align, Collect
<1>4. Rest = <<>> /\ <<0>> \o <<>> = <<0>>
  BY <1>2 DEF Rest
<1>5. /\ state' = "RXPREAMBLE" /\ flush' = <<0>> /\ fed' = Zero /\ called' = "none"
      /\ mf_counter' \in {0, 1} /\ now' = Upcoming /\ Upcoming \in Samples
      /\ UNCHANGED <<preamble_counter, symbol_counter, config, used>>
  BY <1>2, <1>4, UpcomingIs DEF Opens, SeekPN
<1>6. Flushing' /\ At' = 0 /\ InFrame'
  BY <1>5 DEF Flushing, At, InFrame
<1>7. Filled(Upcoming) \in [Index -> Cells]
  BY UpcomingIs DEF Filled, Base, Types
<1> QED
  BY <1>1, <1>2, <1>3, <1>5, <1>6, <1>7 DEF Save

LEMMA OpensBase ==
  ASSUME Base, Opens
  PROVE  Base'
<1>1. /\ ~InFrame /\ InFrame' /\ Flushing' /\ At' = 0
      /\ state' = "RXPREAMBLE" /\ flush' = <<0>> /\ fed' = Zero /\ called' = "none"
      /\ mf_counter' \in {0, 1} /\ now' = Upcoming /\ Upcoming \in Samples
      /\ UNCHANGED <<preamble_counter, symbol_counter, config, used, start>>
  BY OpensIs
<1>2. /\ Filled(Upcoming) \in [Index -> Cells] /\ buf_time_1' = Filled(Upcoming)
      /\ qstate' = "SEEK" /\ counter' = Half
      /\ buf_time_0' = [j \in Index |-> IF j < Half THEN Filled(Upcoming)[j + Half] ELSE Zero]
  BY OpensIs
<1>3. preamble_counter = 0 /\ symbol_counter = 0 /\ used = 0
  BY <1>1 DEF Base, Clock
<1>4. 0 \in Index /\ Half \in Index /\ Half \in 0..NFFT
  BY Sizes DEF Index
<1>5. Types'
  <2>1. \A j \in Index : j < Half => j + Half \in Index
    BY Sizes DEF Index
  <2>2. buf_time_0' \in [Index -> Cells]
    BY <1>2, <2>1 DEF Cells
  <2>3. flush' \in Seq(Index)
    BY <1>1, <1>4
  <2>4. fed' \in Cells /\ preamble_counter < Preamble + Delay
    BY <1>1, <1>3, Sizes DEF Cells
  <2> QED
    BY <1>1, <1>2, <1>3, <1>4, <2>2, <2>3, <2>4 DEF Base, Types, States, config
<1>6. Clock'
  <2>1. Symbols' = 0 /\ used' = 0
    BY <1>1, <1>3 DEF Symbols
  <2>2. \A m \in {0, 1} : m - 0 + 2 * 0 \in {0, 1}
    OBVIOUS
  <2>3. mf_counter' - used' + 2 * Symbols' \in {0, 1}
    BY <1>1, <2>1, <2>2, Zenon
  <2>4. ~(used' > 0)
    BY <2>1
  <2> QED
    BY <1>1, <1>3, <2>3, <2>4 DEF Clock, InFrame
<1>7. Position'
  BY <1>1, <1>3 DEF Position
<1> QED
  BY <1>5, <1>6, <1>7 DEF Base

-----------------------------------------------------------------------------
(* Base: the turn of an open frame: it is given the sample, or closes with it. *)
Closes == (RxHeader(Upcoming) /\ HeaderInvalid) \/ (RxPayload(Upcoming) /\ PayloadDone)
Gives == \/ RxPreamble(Upcoming)
         \/ RxHeader(Upcoming) /\ (Store(header_sym_len) \/ HeaderValid)
         \/ RxPayload(Upcoming) /\ Store(payload_sym_len)
LEMMA FrameTurnKinds == FrameTurn => flush' = Rest /\ InFrame /\ (Gives \/ Closes)
BY DEF FrameTurn, Gives, Closes, RxPreamble, RxHeader, RxPayload, InFrame

LEMMA Counters ==
  ASSUME Base
  PROVE  /\ preamble_counter \in Nat /\ symbol_counter \in Nat /\ used \in Nat
         /\ header_sym_len \in Nat \ {0} /\ payload_sym_len \in Nat \ {0}
         /\ mf_counter \in {-1, 0, 1} /\ Symbols \in Nat
         /\ Available <=> mf_counter \in {0, 1}
<1>1. /\ preamble_counter \in Nat /\ symbol_counter \in Nat /\ used \in Nat
      /\ header_sym_len \in Nat \ {0} /\ payload_sym_len \in Nat \ {0}
      /\ mf_counter \in {-1, 0, 1}
  BY Sizes DEF Base, Types
<1>2. Symbols \in Nat
  BY <1>1 DEF Symbols
<1> QED
  BY <1>1, <1>2 DEF Available

(* Every other sample is a symbol, of one section or the next. *)
LEMMA GivesIs ==
  ASSUME Base, Gives
  PROVE  /\ InFrame /\ InFrame' /\ used' = used + 1 /\ fed' = Upcoming /\ called' = "none"
         /\ UNCHANGED <<qvars, header_sym_len>>
         /\ mf_counter' = IF Available THEN mf_counter - 1 ELSE mf_counter + 1
         /\ Symbols' = IF Available THEN Symbols + 1 ELSE Symbols
<1>1. CASE RxPreamble(Upcoming)
  <2>1. state = "RXPREAMBLE" /\ state' \in {"RXPREAMBLE", "RXHEADER"} /\ UNCHANGED symbol_counter
    BY <1>1 DEF RxPreamble
  <2>2. preamble_counter' = IF Available THEN preamble_counter + 1 ELSE preamble_counter
    BY <1>1 DEF RxPreamble
  <2>3. Symbols' = IF Available THEN Symbols + 1 ELSE Symbols
    BY <2>1, <2>2, Counters DEF Symbols
  <2> QED
    BY <1>1, <2>1, <2>3, Counters DEF RxPreamble, Step, InFrame, config
<1>2. CASE RxHeader(Upcoming) /\ Store(header_sym_len)
  <2>1. Symbols' = IF Available THEN Symbols + 1 ELSE Symbols
    BY <1>2, Counters DEF RxHeader, Store, Symbols
  <2> QED
    BY <1>2, <2>1, Counters DEF RxHeader, Store, Step, InFrame, config
<1>3. CASE RxHeader(Upcoming) /\ HeaderValid
  <2>1. Available /\ symbol_counter + 1 = header_sym_len
    BY <1>3 DEF HeaderValid, Last
  <2>2. Symbols' = Symbols + 1
    BY <1>3, <2>1, Counters DEF RxHeader, HeaderValid, Symbols
  <2> QED
    BY <1>3, <2>1, <2>2, Counters DEF RxHeader, HeaderValid, Step, InFrame
<1>4. CASE RxPayload(Upcoming) /\ Store(payload_sym_len)
  <2>1. Symbols' = IF Available THEN Symbols + 1 ELSE Symbols
    BY <1>4, Counters DEF RxPayload, Store, Symbols, config
  <2> QED
    BY <1>4, <2>1, Counters DEF RxPayload, Store, Step, InFrame, config
<1> QED
  BY <1>1, <1>2, <1>3, <1>4 DEF Gives

LEMMA GivesCounters ==
  ASSUME Base, Gives
  PROVE  /\ state' \in States /\ preamble_counter' \in 0..(Preamble + Delay)
         /\ state' = "RXPREAMBLE" => preamble_counter' < Preamble + Delay /\ symbol_counter' = 0
         /\ symbol_counter' \in Nat
         /\ state' = "RXHEADER" => symbol_counter' < header_sym_len
         /\ state' = "RXPAYLOAD" => symbol_counter' < payload_sym_len'
         /\ state' \in {"RXHEADER", "RXPAYLOAD"} => preamble_counter' = Preamble + Delay
         /\ payload_sym_len' \in PayloadLens
<1>1. CASE RxPreamble(Upcoming)
  <2>1. /\ state = "RXPREAMBLE" /\ UNCHANGED <<symbol_counter, config>>
        /\ preamble_counter \in Nat /\ preamble_counter < Preamble + Delay /\ symbol_counter = 0
    BY <1>1, Counters DEF RxPreamble, Base, Types, Clock
  <2>2. CASE Available
    <3>1. /\ preamble_counter' = preamble_counter + 1
          /\ state' = IF preamble_counter + 1 = Preamble + Delay THEN "RXHEADER" ELSE "RXPREAMBLE"
      BY <1>1, <2>1, <2>2 DEF RxPreamble
    <3> QED
      BY <2>1, <3>1, Counters, Sizes DEF Base, Types, States, config
  <2>3. CASE ~Available
    <3>1. UNCHANGED <<state, preamble_counter>>
      BY <1>1, <2>3 DEF RxPreamble
    <3> QED
      BY <2>1, <3>1, Sizes DEF Base, Types, States, config
  <2> QED
    BY <2>2, <2>3
<1>2. CASE RxHeader(Upcoming) /\ Store(header_sym_len)
  <2>1. /\ state = "RXHEADER" /\ UNCHANGED <<state, preamble_counter, config>>
        /\ symbol_counter' = (IF Available THEN symbol_counter + 1 ELSE symbol_counter)
        /\ ~(Available /\ symbol_counter + 1 = header_sym_len)
        /\ symbol_counter < header_sym_len /\ preamble_counter = Preamble + Delay
    BY <1>2 DEF RxHeader, Store, Last, Base, Types, Clock
  <2> QED
    BY <2>1, Counters, Sizes DEF Base, Types, States, config
<1>3. CASE RxHeader(Upcoming) /\ HeaderValid
  <2>1. /\ state' = "RXPAYLOAD" /\ symbol_counter' = 0 /\ payload_sym_len' \in PayloadLens
        /\ preamble_counter' = preamble_counter /\ preamble_counter = Preamble + Delay
    BY <1>3 DEF RxHeader, HeaderValid, Base, Clock
  <2>2. 0 < payload_sym_len'
    BY <2>1, Sizes
  <2> QED
    BY <2>1, <2>2, Sizes DEF States
<1>4. CASE RxPayload(Upcoming) /\ Store(payload_sym_len)
  <2>1. /\ state = "RXPAYLOAD" /\ UNCHANGED <<state, preamble_counter, config>>
        /\ symbol_counter' = (IF Available THEN symbol_counter + 1 ELSE symbol_counter)
        /\ ~(Available /\ symbol_counter + 1 = payload_sym_len)
        /\ symbol_counter < payload_sym_len /\ preamble_counter = Preamble + Delay
    BY <1>4 DEF RxPayload, Store, Last, Base, Types, Clock
  <2> QED
    BY <2>1, Counters, Sizes DEF Base, Types, States, config
<1> QED
  BY <1>1, <1>2, <1>3, <1>4 DEF Gives

LEMMA GivesBase ==
  ASSUME Base, Gives, flush' = Rest, now' = IF Flushing THEN now ELSE Upcoming
  PROVE  Base'
<1>1. /\ InFrame /\ InFrame' /\ used' = used + 1 /\ fed' = Upcoming /\ called' = "none"
      /\ UNCHANGED <<qvars, header_sym_len>>
      /\ mf_counter' = (IF Available THEN mf_counter - 1 ELSE mf_counter + 1)
      /\ Symbols' = (IF Available THEN Symbols + 1 ELSE Symbols)
  BY GivesIs
<1>2. /\ flush' \in Seq(Index) /\ Len(flush') <= 1 /\ now' \in Samples
      /\ Flushing' <=> Flushing /\ At + 1 < NFFT
      /\ Flushing' => At' = At + 1
      /\ Flushing /\ ~Flushing' => At = NFFT - 1
  BY <1>1, RestIs
<1>3. Types'
  <2>1. mf_counter' \in {-1, 0, 1} /\ used' \in Nat
    BY <1>1, Counters
  <2>2. fed' \in Cells
    BY <1>1, UpcomingIs
  <2> QED
    BY <1>1, <1>2, <2>1, <2>2, GivesCounters DEF Base, Types, qvars
<1>4. Clock'
  <2>1. mf_counter' - used' + 2 * Symbols' \in {0, 1} /\ mf_counter' \in {-1, 0}
    <3>1. mf_counter - used + 2 * Symbols \in {0, 1}
      BY <1>1 DEF Base, Clock
    <3> QED
      BY <1>1, <3>1, Counters
  <2> QED
    BY <1>1, <2>1, GivesCounters DEF Clock
<1>5. Position'
  <2>1. IF Flushing THEN used = At ELSE used >= NFFT
    BY <1>1 DEF Base, Position
  <2>2. IF Flushing' THEN used' = At' ELSE used' >= NFFT
    BY <1>1, <1>2, <2>1, Counters, Sizes
  <2> QED
    BY <1>1, <1>2, <2>2 DEF Position
<1> QED
  BY <1>3, <1>4, <1>5 DEF Base

(* A frame that closes hands an empty buffer back to the detector. *)
LEMMA ClosedBase ==
  ASSUME Base, ResetAll, UNCHANGED config, mf_counter' \in {-1, 0, 1}, fed' \in Cells,
         called' \in {"none", "header", "payload"}, now' \in Samples,
         flush' \in Seq(Index), Len(flush') <= 1, Flushing' => At' \in Nat /\ SLen <= At'
  PROVE  Base'
<1>1. /\ ~InFrame' /\ state' = "DETECTFRAME" /\ preamble_counter' = 0 /\ symbol_counter' = 0
      /\ used' = 0 /\ qstate' = "SEEK" /\ counter' = Half /\ start' = Zero
      /\ buf_time_0' = [j \in Index |-> Zero] /\ buf_time_1' = buf_time_1
  BY DEF ResetAll, reset, InFrame
<1>2. Types'
  <2>1. Zero \in Cells /\ Half \in Index /\ Half \in 0..NFFT
    BY Sizes DEF Cells, Index
  <2> QED
    BY <1>1, <2>1, Sizes DEF Base, Types, States, config
<1>3. Clock'
  BY <1>1 DEF Clock, InFrame
<1>4. Position'
  <2>1. Flushing' => Replay'
    <3> SUFFICES ASSUME Flushing' PROVE Replay'
      OBVIOUS
    <3>1. \A j \in 0..(Half - 1) : j \in Index
      BY Sizes DEF Index
    <3>2. ClearedFront'
      BY <1>1, <3>1, Sizes DEF ClearedFront
    <3>3. Half + SLen <= At' + Half
      BY Sizes
    <3> QED
      BY <1>1, <3>2, <3>3 DEF Replay
  <2> QED
    BY <1>1, <2>1 DEF Position
<1> QED
  BY <1>2, <1>3, <1>4 DEF Base

(* The symbols and the samples of a frame that closes. *)
LEMMA ClosesIs ==
  ASSUME Base, Closes
  PROVE  /\ InFrame /\ ResetAll /\ UNCHANGED config /\ fed' = Upcoming /\ Available
         /\ mf_counter' = mf_counter - 1 /\ called' \in {"header", "payload"}
         /\ \/ called' = "header" /\ Symbols + 1 = Preamble + Delay + header_sym_len
            \/ called' = "payload"
               /\ Symbols + 1 = Preamble + Delay + header_sym_len + payload_sym_len
         /\ used + 1 <= 2 * (Symbols + 1) /\ used + 1 >= 2 * (Symbols + 1) - 2
<1>1. /\ InFrame /\ ResetAll /\ UNCHANGED config /\ fed' = Upcoming /\ Available
      /\ called' \in {"header", "payload"}
  BY DEF Closes, RxHeader, RxPayload, HeaderInvalid, PayloadDone, Step, Last, InFrame
<1>2. mf_counter' = mf_counter - 1
  <2>1. mf_counter' = mf_counter + 1 - 2
    BY <1>1 DEF Closes, RxHeader, RxPayload, Step
  <2> QED
    BY <2>1, Counters
<1>3. \/ called' = "header" /\ Symbols + 1 = Preamble + Delay + header_sym_len
      \/ called' = "payload" /\ Symbols + 1 = Preamble + Delay + header_sym_len + payload_sym_len
  <2>1. CASE RxHeader(Upcoming) /\ HeaderInvalid
    <3>1. /\ state = "RXHEADER" /\ called' = "header" /\ symbol_counter + 1 = header_sym_len
          /\ preamble_counter = Preamble + Delay
      BY <2>1 DEF RxHeader, HeaderInvalid, Last, Base, Clock
    <3> QED
      BY <3>1, Counters DEF Symbols
  <2>2. CASE RxPayload(Upcoming) /\ PayloadDone
    <3>1. /\ state = "RXPAYLOAD" /\ called' = "payload" /\ symbol_counter + 1 = payload_sym_len
          /\ preamble_counter = Preamble + Delay
      BY <2>2 DEF RxPayload, PayloadDone, Last, Base, Clock
    <3> QED
      BY <3>1, Counters DEF Symbols
  <2> QED
    BY <2>1, <2>2 DEF Closes
<1>4. mf_counter - used + 2 * Symbols \in {0, 1}
  BY <1>1 DEF Base, Clock
<1>5. used > 0 => mf_counter \in {-1, 0}
  BY <1>1 DEF Base, Clock
<1>6. used + 1 <= 2 * (Symbols + 1) /\ used + 1 >= 2 * (Symbols + 1) - 2
  BY <1>1, <1>4, <1>5, Counters
<1> QED
  BY <1>1, <1>2, <1>3, <1>6

(* The frame closes at or after its header, a template's length of samples and
   two for each header symbol but one.                                        *)
LEMMA ClosesLate ==
  ASSUME Base, Closes, flush' = Rest, now' = IF Flushing THEN now ELSE Upcoming
  PROVE  /\ ~InFrame'
         /\ Flushing' => Flushing /\ At' = At + 1 /\ At' \in Nat
         /\ Flushing' => SLen + 2 * header_sym_len - 2 <= At'
<1>1. /\ ~InFrame' /\ InFrame /\ used + 1 >= 2 * (Symbols + 1) - 2
      /\ Symbols + 1 >= Preamble + Delay + header_sym_len
  <2>1. ~InFrame' /\ InFrame /\ used + 1 >= 2 * (Symbols + 1) - 2
    BY ClosesIs DEF ResetAll, InFrame
  <2>2. \/ Symbols + 1 = Preamble + Delay + header_sym_len
        \/ Symbols + 1 = Preamble + Delay + header_sym_len + payload_sym_len
    BY ClosesIs
  <2>3. Preamble + Delay \in Nat /\ header_sym_len \in Nat /\ payload_sym_len \in Nat
    BY Counters, Sizes
  <2>4. Symbols + 1 >= Preamble + Delay + header_sym_len
    BY <2>2, <2>3
  <2> QED
    BY <2>1, <2>4
<1>2. Flushing' => Flushing /\ At' = At + 1 /\ At \in Nat
  BY RestIs, UpcomingIs, Sizes DEF Index
<1>3. Flushing => used = At
  BY <1>1 DEF Base, Position
<1> QED
  BY <1>1, <1>2, <1>3, Counters, Sizes

LEMMA ClosesBase ==
  ASSUME Base, Closes, flush' = Rest, now' = IF Flushing THEN now ELSE Upcoming
  PROVE  Base'
<1>1. /\ ResetAll /\ UNCHANGED config /\ fed' = Upcoming /\ Available
      /\ mf_counter' = mf_counter - 1 /\ called' \in {"header", "payload"}
  BY ClosesIs
<1>2. mf_counter' \in {-1, 0, 1} /\ fed' \in Cells
  BY <1>1, Counters, UpcomingIs
<1>3. flush' \in Seq(Index) /\ Len(flush') <= 1 /\ now' \in Samples
  BY RestIs
<1>4. Flushing' => At' \in Nat /\ SLen <= At'
  BY ClosesLate, Counters, Sizes
<1> QED
  BY <1>1, <1>2, <1>3, <1>4, ClosedBase

LEMMA BaseStep ==
  ASSUME Base, [Next]_vars
  PROVE  Base'
<1>1. CASE UNCHANGED vars
  BY <1>1 DEF vars, config, qvars, Base, Types, Clock, Symbols, Position, Replay, ClearedFront,
              InFrame, Flushing, At
<1>2. CASE Turn
  <2>1. now' = IF Flushing THEN now ELSE Upcoming
    BY <1>2 DEF Turn
  <2>2. CASE SeekPN(Upcoming, Rest)
    BY <2>1, <2>2, DetectsBase, OpensBase DEF Detects, Opens
  <2>3. CASE FrameTurn
    BY <2>1, <2>3, FrameTurnKinds, GivesBase, ClosesBase
  <2> QED
    BY <1>2, <2>2, <2>3, TurnKinds
<1>3. CASE Reset
  <2>1. /\ ResetAll /\ UNCHANGED <<mf_counter, config, now, flush, fed>> /\ called' = "none"
        /\ flush = <<>>
    BY <1>3 DEF Reset
  <2>2. /\ ~Flushing' /\ mf_counter' \in {-1, 0, 1} /\ fed' \in Cells /\ now' \in Samples
        /\ flush' \in Seq(Index) /\ Len(flush') <= 1
    BY <2>1 DEF Base, Types, Position, Flushing
  <2> QED
    BY <2>1, <2>2, ClosedBase
<1>4. CASE SetHeaderLen
  <2>1. /\ ~InFrame /\ ~InFrame' /\ header_sym_len' \in HeaderLens /\ called' = "none"
        /\ UNCHANGED <<state, mf_counter, preamble_counter, symbol_counter,
                       payload_sym_len, qvars, now, flush, fed, used>>
    BY <1>4 DEF SetHeaderLen, InFrame
  <2>2. Types'
    BY <2>1 DEF Base, Types, qvars, InFrame
  <2>3. Clock' /\ Position'
    BY <2>1 DEF Base, Clock, Position, Replay, ClearedFront, qvars, InFrame, Flushing, At
  <2> QED
    BY <2>2, <2>3 DEF Base
<1> QED
  BY <1>1, <1>2, <1>3, <1>4, Turns

LEMMA BaseHolds == Spec => []Base
<1>1. Init => Base
  BY BaseInit
<1>2. Base /\ [Next]_vars => Base'
  BY BaseStep
<1> QED
  BY <1>1, <1>2, PTL DEF Spec

-----------------------------------------------------------------------------
(* Kept: nothing that is flushed is overwritten. *)

LEMMA UpcomingClean == ASSUME Base, Clean PROVE Upcoming \in Cells \ {Noise}
BY UpcomingIs, WindowSizes DEF Clean, Upcoming

LEMMA KeptInit == Init => Kept
BY WindowSizes DEF Init, create, Kept, Spare, Clean, Flushing

(* With room behind what it has, the detector only takes the sample. *)
LEMMA SpareCollects ==
  ASSUME Base, Spare, Detects, Flushing'
  PROVE  Flushing /\ At' = At + 1 /\ counter \in Nat /\ counter <= At /\ Collect(Upcoming)
<1>1. Flushing /\ At + 1 < NFFT /\ At' = At + 1 /\ At \in Nat
  BY DetectsIs, RestIs, UpcomingIs, Sizes DEF Index, Detects
<1>2. counter \in Nat /\ counter <= At
  BY <1>1, DetectsIs, Sizes DEF Spare
<1>3. ~(counter + 1 >= NFFT)
  BY <1>1, <1>2, Sizes
<1> QED
  BY <1>1, <1>2, <1>3, DetectsIs DEF GoesOn, Miss, Peak

LEMMA KeptDetects ==
  ASSUME Base, Kept, Detects
  PROVE  Kept'
<1> DEFINE F == Filled(Upcoming)
<1>1. F \in [Index -> Cells \ {Noise}]
  <2>1. buf_time_0 \in [Index -> Cells] /\ \A j \in Index : buf_time_0[j] # Noise
    BY DEF Base, Types, Kept, Clean
  <2> QED
    BY <2>1, UpcomingClean DEF Filled, Kept
<1>2. buf_time_0' \in [Index -> Cells \ {Noise}]
  <2>1. CASE Collect(Upcoming)
    BY <1>1, <2>1 DEF Collect
  <2>2. CASE Miss(Upcoming)
    <3>1. Half \in Index
      BY Sizes DEF Index
    <3>2. From(F, Half) \in [Index -> Cells \ {Noise}]
      BY <1>1, <3>1, FromIs
    <3> QED
      BY <2>2, <3>2 DEF Miss
  <2>3. ASSUME NEW r \in Peaks(F), Peak(Upcoming, r)
        PROVE  buf_time_0' \in [Index -> Cells \ {Noise}]
    <3>1. r \in Index
      BY Sizes DEF Peaks, Index
    <3>2. From(F, r) \in [Index -> Cells \ {Noise}]
      BY <1>1, <3>1, FromIs
    <3> QED
      BY <2>3, <3>2 DEF Peak
  <2> QED
    BY <2>1, <2>2, <2>3, DetectsIs DEF GoesOn
<1>3. Flushing' => /\ Flushing /\ At' = At + 1 /\ counter \in Nat /\ counter <= At
                   /\ counter' = counter + 1 /\ UNCHANGED <<qstate, buf_time_1>>
  BY SpareCollects DEF Kept, Collect
<1>4. Spare'
  <2> SUFFICES ASSUME Flushing' PROVE qstate' = "SEEK" /\ counter' <= At'
    BY DEF Spare
  <2>1. qstate = "SEEK" /\ counter + 1 <= At + 1
    BY <1>3, DetectsIs, UpcomingIs, Sizes DEF Kept, Spare, Index
  <2> QED
    BY <1>3, <2>1
<1>5. Clean'
  BY <1>2, <1>3 DEF Kept, Clean
<1> QED
  BY <1>4, <1>5 DEF Kept

LEMMA KeptOpens ==
  ASSUME Base, Kept, Opens
  PROVE  Kept'
<1>1. /\ InFrame' /\ buf_time_1' = Filled(Upcoming)
      /\ buf_time_0' = [j \in Index |-> IF j < Half THEN Filled(Upcoming)[j + Half] ELSE Zero]
  BY OpensIs
<1>2. \A j \in Index : Filled(Upcoming)[j] # Noise
  BY UpcomingClean DEF Filled, Kept, Clean
<1>3. \A j \in Index : j < Half => j + Half \in Index
  BY Sizes DEF Index
<1> QED
  BY <1>1, <1>2, <1>3, WindowSizes DEF Kept, Spare, Clean

LEMMA KeptStep ==
  ASSUME LongHeaders, Base, Kept, [Next]_vars
  PROVE  Kept'
<1>1. CASE UNCHANGED vars
  BY <1>1 DEF vars, qvars, Kept, Spare, Clean, InFrame, Flushing, At
<1>2. ASSUME Turn, FrameTurn PROVE Kept'
  <2>1. flush' = Rest /\ now' = (IF Flushing THEN now ELSE Upcoming) /\ (Gives \/ Closes)
    BY <1>2, FrameTurnKinds DEF Turn
  <2>2. Flushing' => Flushing
    BY <2>1, RestIs
  <2>3. CASE Gives
    <3>1. InFrame' /\ UNCHANGED qvars
      BY <2>3, GivesIs
    <3> QED
      BY <2>2, <3>1 DEF Kept, Spare, Clean, qvars
  <2>4. CASE Closes
    <3>1. /\ qstate' = "SEEK" /\ counter' = Half /\ buf_time_1' = buf_time_1
          /\ buf_time_0' = [j \in Index |-> Zero]
      BY <2>4, ClosesIs DEF ResetAll, reset
    <3>2. Flushing' => Half <= At'
      <4>1. SLen + 2 * header_sym_len - 2 >= Half
        BY DEF LongHeaders, Base, Types
      <4> QED
        BY <2>1, <2>4, <4>1, ClosesLate, Counters, Sizes
    <3> QED
      BY <2>2, <3>1, <3>2, WindowSizes DEF Kept, Spare, Clean
  <2> QED
    BY <2>1, <2>3, <2>4
<1>3. CASE Turn
  BY <1>2, <1>3, TurnKinds, KeptDetects, KeptOpens DEF Detects, Opens, Turn
<1>4. CASE Reset
  BY <1>4, WindowSizes DEF Reset, ResetAll, reset, Kept, Spare, Clean, Flushing
<1>5. CASE SetHeaderLen
  BY <1>5 DEF SetHeaderLen, qvars, Kept, Spare, Clean, InFrame, Flushing, At
<1> QED
  BY <1>1, <1>3, <1>4, <1>5, Turns

LEMMA KeptHolds == ASSUME LongHeaders PROVE Spec => []Kept
<1>1. Base /\ Kept /\ [Next]_vars => Kept'
  BY KeptStep
<1> QED
  BY <1>1, KeptInit, BaseHolds, PTL DEF Spec

-----------------------------------------------------------------------------
(* Ordered: no sample is lost or repeated. *)

Orderly == Base /\ Kept /\ Ordered

LEMMA OrderedInit == Init => Ordered
<1> SUFFICES ASSUME Init PROVE Ordered
  OBVIOUS
<1>1. \A j \in 0..(Half - 1) : buf_time_0[j] = Zero
  BY Sizes DEF Init, create, Index
<1>2. \A j \in 0..(Half - 2) : j \in 0..(Half - 1) /\ j + 1 \in 0..(Half - 1)
  BY Sizes
<1>3. InOrder(buf_time_0, Half)
  BY <1>1, <1>2, WindowSizes DEF InOrder, Follows
<1>4. Upcoming # Noise
  BY WindowSizes DEF Init, Upcoming, Flushing
<1>5. Half - 1 \in 0..(Half - 1) /\ Half >= 1
  BY Sizes
<1> QED
  BY <1>1, <1>3, <1>4, <1>5 DEF Init, create, Ordered, Detecting, Flushed, InFrame, Flushing, Follows

(* While the flushed buffer is not written, one sample comes after another. *)
LEMMA UpcomingFollows ==
  ASSUME Orderly, flush' = Rest, Flushing' => buf_time_1' = buf_time_1,
         now' = IF Flushing THEN now ELSE Upcoming
  PROVE  /\ Follows(Upcoming, Upcoming')
         /\ ~Flushing' => Upcoming = now'
<1>1. /\ Flushing' <=> Flushing /\ At + 1 < NFFT
      /\ Flushing' => At' = At + 1
      /\ Flushing /\ ~Flushing' => At = NFFT - 1
  BY RestIs DEF Orderly
<1>2. CASE Flushing'
  <2>1. At \in 0..(NFFT - 2) /\ Upcoming' = buf_time_1[At + 1] /\ Upcoming = buf_time_1[At]
    BY <1>1, <1>2, UpcomingIs, Sizes DEF Index, Upcoming, Orderly
  <2> QED
    BY <1>1, <1>2, <2>1 DEF Orderly, Ordered, Flushed, InOrder
<1>3. CASE ~Flushing'
  <2>1. Upcoming = now' /\ now' \in Samples
    BY <1>1, <1>3, RestIs DEF Orderly, Ordered, Flushed, Upcoming
  <2>2. Upcoming' = Successor(now')
    BY <1>3 DEF Upcoming
  <2> QED
    BY <1>3, <2>1, <2>2, WindowSizes DEF Follows
<1> QED
  BY <1>2, <1>3

(* The sample is written behind the others. *)
LEMMA FilledIs ==
  ASSUME Orderly, ~ZeroIndex, ~InFrame
  PROVE  /\ Filled(Upcoming) \in [Index -> Cells]
         /\ counter \in 1..(NFFT - 1)
         /\ InOrder(Filled(Upcoming), counter + 1)
         /\ Filled(Upcoming)[counter] = Upcoming
         /\ Filled(Upcoming)[0] = buf_time_0[0]
<1> DEFINE F == Filled(Upcoming)
<1>1. counter \in 1..(NFFT - 1) /\ counter \in Index /\ 0 \in Index /\ NFFT \in Nat
  BY Sizes DEF Orderly, Base, Types, Ordered, Detecting, Index
<1>2. F \in [Index -> Cells]
  BY UpcomingIs DEF Filled, Orderly, Base, Types
<1>3. F[counter] = Upcoming /\ \A j \in 0..(counter - 1) : F[j] = buf_time_0[j]
  <2>1. \A j \in 0..(counter - 1) : j \in Index /\ j # counter
    BY <1>1 DEF Index
  <2> QED
    BY <1>1, <2>1 DEF Filled
<1>4. /\ \A j \in 0..(counter - 1) : buf_time_0[j] # Noise
      /\ \A j \in 0..(counter - 2) : Follows(buf_time_0[j], buf_time_0[j + 1])
      /\ Follows(buf_time_0[counter - 1], Upcoming) /\ Upcoming # Noise
  BY UpcomingClean DEF Orderly, Kept, Ordered, Detecting, InOrder
<1>5. \A j \in 0..((counter + 1) - 1) : F[j] # Noise
  <2>1. \A j \in 0..((counter + 1) - 1) : j \in 0..(counter - 1) \/ j = counter
    BY <1>1
  <2> HIDE DEF F
  <2> QED
    BY <1>3, <1>4, <2>1
<1>6. \A j \in 0..((counter + 1) - 2) : Follows(F[j], F[j + 1])
  <2>1. ASSUME NEW j \in 0..((counter + 1) - 2)
        PROVE  \/ j \in 0..(counter - 2) /\ j + 1 \in 0..(counter - 1) /\ j \in 0..(counter - 1)
               \/ j = counter - 1 /\ j + 1 = counter /\ j \in 0..(counter - 1)
    BY <1>1
  <2> HIDE DEF F
  <2> QED
    BY <1>3, <1>4, <2>1
<1> QED
  BY <1>1, <1>2, <1>3, <1>5, <1>6 DEF InOrder

(* What is moved to the front of the buffer stays in order. *)
LEMMA FromInOrder ==
  ASSUME NEW b \in [Index -> Cells], InOrder(b, NFFT), NEW r \in 1..(NFFT - 1)
  PROVE  /\ InOrder(From(b, r), NFFT - r)
         /\ From(b, r)[NFFT - r - 1] = b[NFFT - 1]
         /\ From(b, r)[0] = b[r]
<1>1. NFFT \in Nat /\ NFFT - r \in 1..(NFFT - 1) /\ r \in Nat /\ r \in Index
  BY Sizes DEF Index
<1>2. \A j \in 0..(NFFT - r - 1) : From(b, r)[j] = b[j + r] /\ j + r \in 0..(NFFT - 1)
  BY <1>1, FromIs DEF Index
<1>3. \A j \in 0..(NFFT - r - 2) :
        /\ j \in 0..(NFFT - r - 1) /\ j + 1 \in 0..(NFFT - r - 1)
        /\ j + r \in 0..(NFFT - 2) /\ (j + 1) + r = (j + r) + 1
  BY <1>1
<1>4. InOrder(From(b, r), NFFT - r)
  BY <1>2, <1>3 DEF InOrder
<1>5. NFFT - r - 1 \in 0..(NFFT - r - 1) /\ 0 \in 0..(NFFT - r - 1)
      /\ (NFFT - r - 1) + r = NFFT - 1 /\ 0 + r = r
  BY <1>1
<1> QED
  BY <1>2, <1>4, <1>5

(* With no peak at index 0 there is room for the next sample, and the last
   one in the buffer is the one just taken.                                  *)
LEMMA DetectsInOrder ==
  ASSUME Orderly, ~ZeroIndex, Detects
  PROVE  /\ counter' \in Nat /\ counter' >= 1
         /\ InOrder(buf_time_0', counter') /\ buf_time_0'[counter' - 1] = Upcoming
         /\ qstate' = "ALIGN" => start' = buf_time_0'[0]
<1> DEFINE F == Filled(Upcoming)
<1>1. /\ ~InFrame /\ GoesOn(Upcoming) /\ (qstate = "ALIGN" => Collect(Upcoming))
  BY DetectsIs DEF Orderly
<1>2. /\ F \in [Index -> Cells] /\ counter \in 1..(NFFT - 1) /\ F[counter] = Upcoming
      /\ InOrder(F, counter + 1) /\ F[0] = buf_time_0[0]
  BY <1>1, FilledIs
<1>3. NFFT \in Nat /\ Half \in 1..(NFFT - 1) /\ NFFT - Half = Half
  BY Sizes
<1>4. qstate = "ALIGN" => start = buf_time_0[0]
  BY <1>1 DEF Orderly, Ordered, Detecting
<1>5. CASE Collect(Upcoming)
  <2>1. buf_time_0' = F /\ counter' = counter + 1 /\ UNCHANGED <<qstate, start>>
    BY <1>5 DEF Collect
  <2>2. counter' \in Nat /\ counter' >= 1 /\ counter' - 1 = counter
    BY <1>2, <2>1
  <2> QED
    BY <1>2, <1>4, <2>1, <2>2
<1>6. ASSUME counter + 1 >= NFFT
      PROVE  InOrder(F, NFFT) /\ F[NFFT - 1] = Upcoming
  <2>1. counter = NFFT - 1 /\ counter + 1 = NFFT
    BY <1>2, <1>3, <1>6
  <2> QED
    BY <1>2, <2>1
<1>7. CASE Miss(Upcoming)
  <2>1. /\ counter + 1 >= NFFT /\ buf_time_0' = From(F, Half) /\ counter' = Half
        /\ UNCHANGED qstate
    BY <1>7 DEF Miss
  <2>2. InOrder(From(F, Half), Half) /\ From(F, Half)[Half - 1] = Upcoming
    BY <1>2, <1>3, <1>6, <2>1, FromInOrder
  <2>3. qstate # "ALIGN"
    BY <1>1, <1>2, <1>3, <2>1 DEF Collect
  <2> QED
    BY <1>3, <2>1, <2>2, <2>3
<1>8. ASSUME NEW r \in Peaks(F), Peak(Upcoming, r)
      PROVE  /\ counter' \in Nat /\ counter' >= 1
             /\ InOrder(buf_time_0', counter') /\ buf_time_0'[counter' - 1] = Upcoming
             /\ start' = buf_time_0'[0]
  <2>1. /\ counter + 1 >= NFFT /\ buf_time_0' = From(F, r) /\ counter' = NFFT - r
        /\ start' = F[r]
    BY <1>8 DEF Peak
  <2>2. r \in 1..(NFFT - 1)
    BY Sizes DEF Peaks
  <2>3. /\ InOrder(From(F, r), NFFT - r)
        /\ From(F, r)[NFFT - r - 1] = Upcoming /\ From(F, r)[0] = F[r]
    BY <1>2, <1>6, <2>1, <2>2, FromInOrder
  <2>4. NFFT - r \in Nat /\ NFFT - r >= 1
    BY <1>3, <2>2
  <2> QED
    BY <2>1, <2>3, <2>4
<1> QED
  BY <1>1, <1>5, <1>7, <1>8 DEF GoesOn

LEMMA OrderedDetects ==
  ASSUME Orderly, ~ZeroIndex, Detects
  PROVE  Ordered'
<1>1. ~InFrame' /\ flush' = Rest /\ now' = (IF Flushing THEN now ELSE Upcoming)
  BY DetectsIs DEF Orderly, Detects
<1>2. Flushing' => Flushing /\ buf_time_1' = buf_time_1
  BY SpareCollects DEF Orderly, Kept, Collect
<1>3. Follows(Upcoming, Upcoming')
  BY <1>1, <1>2, UpcomingFollows
<1>4. Detecting'
  BY <1>3, DetectsInOrder DEF Detecting
<1>5. now' = now \/ ~Flushing
  BY <1>1
<1>6. Flushed'
  BY <1>1, <1>2, <1>5 DEF Orderly, Ordered, Flushed
<1> QED
  BY <1>4, <1>6 DEF Ordered

LEMMA OrderedOpens ==
  ASSUME Orderly, ~ZeroIndex, Opens
  PROVE  Ordered'
<1>1. /\ ~InFrame /\ InFrame' /\ Flushing' /\ At' = 0 /\ now' = Upcoming /\ start' = start
      /\ qstate = "ALIGN" /\ counter + 1 >= NFFT /\ buf_time_1' = Filled(Upcoming)
  BY OpensIs DEF Orderly
<1>2. counter = NFFT - 1 /\ counter + 1 = NFFT
  BY <1>1, FilledIs, Sizes
<1>3. /\ InOrder(Filled(Upcoming), NFFT) /\ Filled(Upcoming)[NFFT - 1] = Upcoming
      /\ Filled(Upcoming)[0] = buf_time_0[0]
  BY <1>1, <1>2, FilledIs
<1>4. start = buf_time_0[0]
  BY <1>1 DEF Orderly, Ordered, Detecting
<1> QED
  BY <1>1, <1>3, <1>4 DEF Ordered, Detecting, Flushed

LEMMA OrderedGives ==
  ASSUME Orderly, Gives, flush' = Rest, now' = IF Flushing THEN now ELSE Upcoming
  PROVE  Ordered'
<1>1. InFrame' /\ fed' = Upcoming /\ UNCHANGED qvars /\ InFrame
  BY GivesIs DEF Orderly
<1>2. /\ Flushing' <=> Flushing /\ At + 1 < NFFT
      /\ Flushing' => At' = At + 1
  BY RestIs DEF Orderly
<1>3. ~Flushing' => Upcoming = now'
  BY <1>1, UpcomingFollows DEF qvars
<1>4. Flushing' => InOrder(buf_time_1', NFFT) /\ buf_time_1'[NFFT - 1] = now'
  BY <1>1, <1>2 DEF Orderly, Ordered, Flushed, qvars
<1>5. ASSUME Flushing' PROVE At' # 0 /\ fed' = buf_time_1'[At' - 1]
  <2>1. At' = At + 1 /\ At \in Nat /\ Flushing
    BY <1>2, <1>5, UpcomingIs, Sizes DEF Index, Orderly
  <2>2. At' # 0 /\ At' - 1 = At
    BY <2>1
  <2> QED
    BY <1>1, <2>1, <2>2 DEF Upcoming, qvars
<1> QED
  BY <1>1, <1>3, <1>4, <1>5 DEF Ordered, Detecting, Flushed

(* The detector that a frame is closed to has only cleared cells. *)
LEMMA OrderedClosed ==
  ASSUME Orderly, ResetAll, Upcoming' # Noise,
         Flushing' => Flushing /\ now' = now
  PROVE  Ordered'
<1>1. /\ ~InFrame' /\ qstate' = "SEEK" /\ counter' = Half /\ buf_time_1' = buf_time_1
      /\ buf_time_0' = [j \in Index |-> Zero]
  BY DEF ResetAll, reset, InFrame
<1>2. \A j \in 0..(Half - 1) : buf_time_0'[j] = Zero
  <2>1. \A j \in 0..(Half - 1) : j \in Index
    BY Sizes DEF Index
  <2> QED
    BY <1>1, <2>1
<1>3. \A j \in 0..(Half - 2) : j \in 0..(Half - 1) /\ j + 1 \in 0..(Half - 1)
  BY Sizes
<1>4. Half - 1 \in 0..(Half - 1) /\ Half >= 1
  BY Sizes
<1>5. InOrder(buf_time_0', Half)
  BY <1>2, <1>3, WindowSizes DEF InOrder, Follows
<1>6. Follows(buf_time_0'[Half - 1], Upcoming')
  BY <1>2, <1>4 DEF Follows
<1> QED
  BY <1>1, <1>4, <1>5, <1>6 DEF Orderly, Ordered, Detecting, Flushed

LEMMA OrderedStep ==
  ASSUME ~ZeroIndex, Orderly, [Next]_vars
  PROVE  Ordered'
<1> USE DEF Orderly
<1>1. CASE UNCHANGED vars
  BY <1>1 DEF vars, qvars, Ordered, Detecting, Flushed, InFrame, Flushing, At, Upcoming
<1>2. ASSUME Turn, FrameTurn PROVE Ordered'
  <2>1. flush' = Rest /\ now' = (IF Flushing THEN now ELSE Upcoming) /\ (Gives \/ Closes)
    BY <1>2, FrameTurnKinds DEF Turn
  <2>2. ASSUME Closes PROVE Ordered'
    <3>1. ResetAll /\ buf_time_1' = buf_time_1
      BY <2>2, ClosesIs DEF ResetAll, reset
    <3>2. Follows(Upcoming, Upcoming') /\ Upcoming \in Cells \ {Noise}
      BY <2>1, <3>1, UpcomingFollows, UpcomingClean DEF Kept
    <3>3. Upcoming' # Noise
      BY <3>2, WindowSizes DEF Follows, Cells
    <3>4. Flushing' => Flushing /\ now' = now
      BY <2>1, RestIs
    <3> QED
      BY <3>1, <3>3, <3>4, OrderedClosed
  <2> QED
    BY <2>1, <2>2, OrderedGives
<1>3. CASE Turn
  BY <1>2, <1>3, TurnKinds, OrderedDetects, OrderedOpens DEF Detects, Opens, Turn
<1>4. CASE Reset
  <2>1. ResetAll /\ ~Flushing' /\ Upcoming' = Successor(now) /\ now \in Samples
    BY <1>4 DEF Reset, Flushing, Upcoming, Base, Types
  <2> QED
    BY <2>1, WindowSizes, OrderedClosed
<1>5. CASE SetHeaderLen
  BY <1>5 DEF SetHeaderLen, qvars, Ordered, Detecting, Flushed, InFrame, Flushing, At, Upcoming
<1> QED
  BY <1>1, <1>3, <1>4, <1>5, Turns

LEMMA OrderedHolds == ASSUME ~ZeroIndex, LongHeaders PROVE Spec => []Ordered
<1>1. Base /\ Kept /\ Ordered /\ [Next]_vars => Ordered'
  BY OrderedStep DEF Orderly
<1> QED
  BY <1>1, OrderedInit, BaseHolds, KeptHolds, PTL DEF Spec

-----------------------------------------------------------------------------
(* The theorems. *)

(* Every counter the handlers index an array with stays inside it, when no
   peak is found at index 0.                                                 *)
THEOREM TypeTheorem == ASSUME ~ZeroIndex PROVE Spec => []TypeOK
<1>1. Base => TypeOK
  BY DEF Base, Types, TypeOK
<1> QED
  BY <1>1, BaseHolds, PTL

(* execute() recurses at most once, whatever the lengths and wherever a peak
   is found: a frame that ends while the buffer is flushed leaves the detector
   too few samples to return another.                                        *)
THEOREM OneFlushTheorem == Spec => []OneFlush
BY BaseHolds, PTL DEF Base, Position, OneFlush

(* What a flush has still to read is what the detector saved: samples, and
   none of them overwritten by the correlator.                               *)
THEOREM FlushTheorem == ASSUME LongHeaders PROVE Spec => []FlushIsBuffered
<1>1. Base /\ Kept => FlushIsBuffered
  <2> SUFFICES ASSUME Base, Kept, NEW k \in DOMAIN flush, NEW i \in flush[k]..(NFFT - 1)
               PROVE  buf_time_1[i] # Noise
    BY DEF FlushIsBuffered
  <2>1. Flushing /\ At \in Index /\ flush = <<At>>
    <3>1. Flushing
      BY DEF Flushing
    <3> QED
      BY <3>1, UpcomingIs
  <2>2. k = 1 /\ flush[k] = At
    BY <2>1
  <2>3. i \in Index
    BY <2>1, <2>2, Sizes DEF Index
  <2> QED
    BY <2>1, <2>3 DEF Kept, Clean
<1> QED
  BY <1>1, BaseHolds, KeptHolds, PTL

(* The demodulator is given a frame's samples in order and without a gap,
   over the seam between the flushed buffer and the live samples.            *)
THEOREM SamplesTheorem == ASSUME ~ZeroIndex, LongHeaders PROVE Spec => SamplesInOrder
<1> DEFINE InStep == used' = used + 1 => IF used = 0 THEN fed' = start ELSE Follows(fed, fed')
<1>1. Base /\ Ordered /\ [Next]_vars => [InStep]_vars
  <2> SUFFICES ASSUME Base, Ordered, Next, used' = used + 1
               PROVE  IF used = 0 THEN fed' = start ELSE Follows(fed, fed')
    OBVIOUS
  <2>1. used \in Nat /\ used' # used /\ used' # 0
    BY Counters
  <2>2. Gives
    <3>1. Turn /\ ~SeekPN(Upcoming, Rest)
      BY <2>1, Turns DEF Reset, ResetAll, SetHeaderLen, SeekPN
    <3>2. Gives \/ Closes
      BY <3>1, TurnKinds, FrameTurnKinds
    <3> QED
      BY <2>1, <3>2, ClosesIs DEF ResetAll
  <2>3. InFrame /\ fed' = Upcoming
    BY <2>2, GivesIs
  <2>4. CASE Flushing
    <3>1. At = used /\ At \in Index
      BY <2>3, <2>4, UpcomingIs DEF Base, Position
    <3>2. CASE used = 0
      BY <2>3, <2>4, <3>1, <3>2 DEF Ordered, Flushed, Upcoming
    <3>3. CASE used # 0
      <4>1. At - 1 \in 0..(NFFT - 2) /\ (At - 1) + 1 = At
        BY <2>1, <3>1, <3>3, Sizes DEF Index
      <4>2. Follows(buf_time_1[At - 1], buf_time_1[(At - 1) + 1])
        BY <2>4, <4>1 DEF Ordered, Flushed, InOrder
      <4> QED
        BY <2>3, <2>4, <3>1, <3>3, <4>1, <4>2 DEF Ordered, Flushed, Upcoming
    <3> QED
      BY <3>2, <3>3
  <2>5. CASE ~Flushing
    <3>1. used # 0
      BY <2>1, <2>3, <2>5, Sizes DEF Base, Position
    <3>2. fed = now /\ now # Zero /\ Upcoming = Successor(now)
      BY <2>3, <2>5, WindowSizes DEF Base, Types, Ordered, Flushed, Upcoming
    <3> QED
      BY <2>3, <3>1, <3>2 DEF Follows
  <2> QED
    BY <2>4, <2>5
<1> QED
  BY <1>1, BaseHolds, OrderedHolds, PTL DEF Spec, SamplesInOrder

(* A frame is done no earlier than its last symbol and no later than the last
   sample the generator writes for it.                                       *)
THEOREM WithinFrameTheorem == Spec => WithinFrame
<1> DEFINE Within == called' # "none" /\ used > 0 =>
                       /\ used + 1 <= 2 * (Symbols + 1)
                       /\ used + 1 >= 2 * (Symbols + 1) - 2
                       /\ called' = "payload" =>
                            Symbols + 1 = Preamble + 2 * M + header_sym_len + payload_sym_len
<1>1. Base /\ [Next]_vars => [Within]_vars
  <2> SUFFICES ASSUME Base, Next, called' # "none"
               PROVE  /\ used + 1 <= 2 * (Symbols + 1)
                      /\ used + 1 >= 2 * (Symbols + 1) - 2
                      /\ called' = "payload" =>
                           Symbols + 1 = Preamble + 2 * M + header_sym_len + payload_sym_len
    OBVIOUS
  <2>1. Turn /\ ~SeekPN(Upcoming, Rest)
    BY Turns DEF Reset, SetHeaderLen, SeekPN
  <2>2. Gives \/ Closes
    BY <2>1, TurnKinds, FrameTurnKinds
  <2>3. Closes
    BY <2>2, GivesIs
  <2> QED
    BY <2>3, ClosesIs DEF Delay
<1> QED
  BY <1>1, BaseHolds, PTL DEF Spec, WithinFrame

-----------------------------------------------------------------------------
(* What FrameCloses needs beside fairness: every sample handled while a frame
   is open is counted or closes it, and the count is bounded.                *)

FrameSymbols == Preamble + Delay + header_sym_len + IF state = "RXPAYLOAD" THEN payload_sym_len ELSE 0
FrameBound == state # "DETECTFRAME" => used < 2 * FrameSymbols
FrameAdvances ==
  [][state # "DETECTFRAME" /\ (Flush \/ Live) =>
       \/ state' = "DETECTFRAME"
       \/ used' = used + 1 /\ header_sym_len' = header_sym_len
          /\ (state = "RXPAYLOAD" => state' = "RXPAYLOAD" /\ payload_sym_len' = payload_sym_len)]_vars

(* An open frame is given fewer than two samples for each of its symbols. *)
THEOREM FrameBoundTheorem == Spec => []FrameBound
<1>1. Base => FrameBound
  <2> SUFFICES ASSUME Base, InFrame PROVE used < 2 * FrameSymbols
    BY DEF FrameBound, InFrame
  <2>1. mf_counter - used + 2 * Symbols \in {0, 1} /\ mf_counter \in {-1, 0, 1} /\ used \in Nat
    BY Counters DEF Base, Clock
  <2>2. Symbols \in Nat /\ FrameSymbols \in Nat /\ Symbols + 1 <= FrameSymbols
    <3>1. CASE state = "RXPREAMBLE"
      <4>1. Symbols < Preamble + Delay
        BY <3>1, Counters DEF Base, Types, Clock, Symbols
      <4>2. FrameSymbols = Preamble + Delay + header_sym_len
        BY <3>1, Counters, Sizes DEF FrameSymbols
      <4> QED
        BY <4>1, <4>2, Counters, Sizes
    <3>2. CASE state = "RXHEADER"
      BY <3>2, Counters, Sizes DEF Base, Types, Clock, Symbols, FrameSymbols
    <3>3. CASE state = "RXPAYLOAD"
      BY <3>3, Counters, Sizes DEF Base, Types, Clock, Symbols, FrameSymbols
    <3> QED
      BY <3>1, <3>2, <3>3 DEF Base, Types, States, InFrame
  <2> QED
    BY <2>1, <2>2
<1> QED
  BY <1>1, BaseHolds, PTL

(* No sample leaves an open frame where it was, and its lengths stay but for
   the payload's, which the header brings.                                   *)
THEOREM FrameAdvancesTheorem == Spec => FrameAdvances
<1> DEFINE Advance == state # "DETECTFRAME" /\ (Flush \/ Live) =>
              \/ state' = "DETECTFRAME"
              \/ used' = used + 1 /\ header_sym_len' = header_sym_len
                 /\ (state = "RXPAYLOAD" => state' = "RXPAYLOAD" /\ payload_sym_len' = payload_sym_len)
<1>1. Base /\ [Next]_vars => [Advance]_vars
  <2> SUFFICES ASSUME Base, Next, InFrame, Flush \/ Live, InFrame'
               PROVE  used' = used + 1 /\ header_sym_len' = header_sym_len
                      /\ (state = "RXPAYLOAD" => state' = "RXPAYLOAD" /\ payload_sym_len' = payload_sym_len)
    BY DEF InFrame
  <2>1. Turn /\ ~SeekPN(Upcoming, Rest)
    BY Turns DEF Reset, SetHeaderLen, SeekPN, InFrame, ResetAll
  <2>2. Gives
    BY <2>1, TurnKinds, FrameTurnKinds, ClosesIs DEF ResetAll, InFrame
  <2>3. used' = used + 1 /\ header_sym_len' = header_sym_len
    BY <2>2, GivesIs
  <2>4. state = "RXPAYLOAD" => state' = "RXPAYLOAD" /\ payload_sym_len' = payload_sym_len
    BY <2>2 DEF Gives, RxPreamble, RxHeader, RxPayload, Store, config
  <2> QED
    BY <2>3, <2>4
<1> QED
  BY <1>1, BaseHolds, PTL DEF Spec, FrameAdvances
=============================================================================

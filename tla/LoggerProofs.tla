---------------------------- MODULE LoggerProofs ----------------------------
(***************************************************************************)
(* For any number of threads, callbacks and levels.  The invariants come in *)
(* three layers.  Base holds of every caller: the slots of the callbacks.   *)
(* Counting is about the lock: unless a refused callback may be reported    *)
(* while others log, one thread at a time is past it, and no event is lost  *)
(* or counted twice.  IInv is about callers that add no callback while      *)
(* others log: then each event is stamped and shown to those that asked.    *)
(***************************************************************************)
EXTENDS Logger, FiniteSetTheorems, SequenceTheorems, WellFoundedInduction, TLAPS

Locked == Logging \ {"lock"}

(* The callbacks asked for take the first slots, and the one that is being
   added, by one thread at most, the last of them.                           *)
Slotted ==
  /\ wanted \in Seq(Levels) /\ Len(wanted) <= MaxCallbacks
  /\ \A i \in Slots : cb_function[i] <=> i <= Len(wanted)
  /\ \A t \in Threads : pc[t] \in Adding =>
       /\ wanted # <<>> /\ at[t] = Len(wanted) /\ ev[t] = wanted[Len(wanted)]
       /\ \A u \in Threads : pc[u] \in Adding => u = t

Base == TypeOK /\ Slotted

(* One thread at a time is past the lock, where it reads and writes count[]:
   it holds the mutex, or without one no other thread logs.                  *)
Held == \A t \in Threads : owner = t <=> lock_callback /\ pc[t] \in Locked
Mutex ==
  /\ Held
  /\ \A t, u \in Threads : t # u /\ pc[t] \in Logging /\ pc[u] \in Logging => lock_callback
Loaded == \A t \in Threads : pc[t] = "counted" => seen[t] = count[ev[t]]

Counting == Mutex /\ Loaded /\ CountsExact

(* Who may be inside together: threads that log with a lock callback.  Nobody
   else shares the object.                                                   *)
Exclusive ==
  \A t, u \in Threads : t # u /\ pc[t] # "idle" /\ pc[u] # "idle" =>
    lock_callback /\ pc[t] \in Logging /\ pc[u] \in Logging

(* The callbacks registered so far are the ones asked for, in order; of the
   one that is being added the fields not yet stored are excepted.           *)
BeingAdded(stages) == \E t \in Threads : pc[t] \in stages
Settled(i, stages) == i < Len(wanted) \/ ~BeingAdded(stages)
Registered ==
  \A i \in 1..Len(wanted) :
    /\ Settled(i, {"context"}) => cb_context[i] = i
    /\ Settled(i, {"context", "level"}) => cb_level[i] = wanted[i]

(* Nobody listens below min_level, which vlog() compares with alone. *)
MinimumLow ==
  /\ min_level <= level
  /\ \A i \in 1..Len(wanted) : Settled(i, Adding) => min_level <= wanted[i]

(* How far each thread that logs has got: after k callbacks it has shown its
   event to stdout and to those of the k that asked for it.                  *)
Sees(t, k) == OnStdout(ev[t]) \o Asked(wanted, ev[t])[k]
ProgressOf(t) ==
  /\ pc[t] \notin {"callbacks"} \cup Adding => at[t] = 1
  /\ pc[t] # "callbacks" => shown[t] = <<>>
  /\ pc[t] = "callbacks" => at[t] \in 1..(Len(wanted) + 1) /\ shown[t] = Sees(t, at[t] - 1)
  /\ pc[t] \in {"stdout", "callbacks"} => stamped[t] = (ev[t] >= min_level)
Progress == \A t \in Threads : ProgressOf(t)

IInv == Base /\ Exclusive /\ Registered /\ MinimumLow /\ Progress

-----------------------------------------------------------------------------
(* Facts about one state. *)

(* The induction that the recursive definition of Asked calls for. *)
LEMMA SetInduction ==
  ASSUME NEW S, 0 \in S, \A n \in Nat : n \in S => n + 1 \in S
  PROVE  \A n \in Nat : n \in S
<1> SUFFICES ASSUME NEW k \in Nat, k \notin S PROVE FALSE
  OBVIOUS
<1> DEFINE T == {n \in Nat : n \notin S}
<1>1. PICK m \in T : \A y \in T : ~(<<y, m>> \in OpToRel(<, Nat))
  <2>1. T \subseteq Nat /\ T # {}
    OBVIOUS
  <2> HIDE DEF T
  <2> QED
    BY <2>1, NatLessThanWellFounded, WFMin
<1>2. \A y \in T : ~(y < m)
  BY <1>1 DEF OpToRel
<1>3. m # 0 /\ m - 1 \in Nat
  OBVIOUS
<1>4. m - 1 \in S
  BY <1>2, <1>3
<1> QED
  BY <1>3, <1>4

(* What Asked(w, l) returns, one callback after another. *)
LEMMA AskedIs ==
  ASSUME NEW w \in Seq(Levels), NEW l \in Levels
  PROVE  /\ Asked(w, l)[0] = <<>>
         /\ \A k \in 1..Len(w) :
              Asked(w, l)[k] = IF l >= w[k] THEN Append(Asked(w, l)[k - 1], k)
                                              ELSE Asked(w, l)[k - 1]
<1> DEFINE D(f, i) == IF i = 0 THEN <<>>
                      ELSE IF l >= w[i] THEN Append(f[i - 1], i) ELSE f[i - 1]
           S == {m \in Nat : \E f : f = [i \in 0..m |-> D(f, i)]}
           F == CHOOSE f : f = [i \in 0..Len(w) |-> D(f, i)]
<1>1. 0 \in S
  <2>1. [i \in 0..0 |-> <<>>] = [i \in 0..0 |-> D([j \in 0..0 |-> <<>>], i)]
    OBVIOUS
  <2> QED
    BY <2>1
<1>2. ASSUME NEW n \in Nat, n \in S PROVE n + 1 \in S
  <2>1. PICK f : f = [i \in 0..n |-> D(f, i)]
    BY <1>2
  <2> DEFINE g == [i \in 0..(n + 1) |-> IF i <= n THEN f[i] ELSE D(f, n + 1)]
  <2>2. ASSUME NEW i \in 0..(n + 1) PROVE g[i] = D(g, i)
    <3>1. CASE i <= n
      <4>1. i \in 0..n /\ (i # 0 => i - 1 \in 0..n)
        BY <3>1
      <4>2. f[i] = D(f, i)
        BY <2>1, <4>1
      <4>3. D(f, i) = D(g, i)
        BY <4>1
      <4> QED
        BY <3>1, <4>2, <4>3
    <3>2. CASE i = n + 1
      BY <3>2
    <3> QED
      BY <3>1, <3>2
  <2>3. g = [i \in 0..(n + 1) |-> D(g, i)]
    BY <2>2
  <2>4. \E h : h = [i \in 0..(n + 1) |-> D(h, i)]
    <3> HIDE DEF D, g
    <3> QED
      BY <2>3
  <2> QED
    BY <2>4
<1>3. Len(w) \in S
  <2> HIDE DEF S
  <2> QED
    BY <1>1, <1>2, SetInduction
<1>4. PICK f : f = [i \in 0..Len(w) |-> D(f, i)]
  BY <1>3
<1>5. F = [i \in 0..Len(w) |-> D(F, i)]
  <2> HIDE DEF D
  <2> QED
    BY <1>4
<1>6. Asked(w, l) = F
  BY DEF Asked
<1>7. \A k \in 0..Len(w) : F[k] = D(F, k)
  <2> HIDE DEF D, F
  <2> QED
    BY <1>5
<1> QED
  <2> HIDE DEF F
  <2> QED
    BY <1>6, <1>7

(* It is a sequence of the numbers of callbacks. *)
LEMMA AskedIsSeq ==
  ASSUME NEW w \in Seq(Levels), NEW l \in Levels, NEW k \in 0..Len(w)
  PROVE  Asked(w, l)[k] \in Seq(Nat)
<1> DEFINE S == {n \in Nat : n <= Len(w) => Asked(w, l)[n] \in Seq(Nat)}
<1>1. 0 \in S
  <2>1. Asked(w, l)[0] = <<>>
    BY AskedIs
  <2>2. <<>> \in Seq(Nat)
    OBVIOUS
  <2>3. Asked(w, l)[0] \in Seq(Nat)
    BY <2>1, <2>2
  <2> QED
    BY <2>3
<1>2. ASSUME NEW n \in Nat, n \in S PROVE n + 1 \in S
  <2>1. CASE n + 1 <= Len(w)
    <3>1. n + 1 \in 1..Len(w) /\ (n + 1) - 1 = n /\ Asked(w, l)[n] \in Seq(Nat)
      BY <1>2, <2>1
    <3>2. Asked(w, l)[n + 1] = IF l >= w[n + 1] THEN Append(Asked(w, l)[n], n + 1)
                                                ELSE Asked(w, l)[n]
      BY <3>1, AskedIs
    <3>3. Append(Asked(w, l)[n], n + 1) \in Seq(Nat)
      BY <3>1
    <3>4. Asked(w, l)[n + 1] \in Seq(Nat)
      BY <3>1, <3>2, <3>3
    <3> QED
      BY <3>4
  <2> QED
    BY <2>1
<1>3. k \in S
  <2> HIDE DEF S
  <2> QED
    BY <1>1, <1>2, SetInduction
<1> QED
  BY <1>3

(* Each of them is a callback that asked for l. *)
LEMMA AskedListens ==
  ASSUME NEW w \in Seq(Levels), NEW l \in Levels, NEW k \in 0..Len(w)
  PROVE  \A j \in 1..Len(Asked(w, l)[k]) :
           Asked(w, l)[k][j] \in 1..k /\ l >= w[Asked(w, l)[k][j]]
<1> DEFINE Good(a, n) == \A j \in 1..Len(a) : a[j] \in 1..n /\ l >= w[a[j]]
           S == {n \in Nat : n <= Len(w) => Good(Asked(w, l)[n], n)}
<1>1. 0 \in S
  <2>1. Asked(w, l)[0] = <<>>
    BY AskedIs
  <2>2. Good(<<>>, 0)
    OBVIOUS
  <2>3. Good(Asked(w, l)[0], 0)
    <3> HIDE DEF Good
    <3> QED
      BY <2>1, <2>2
  <2> HIDE DEF Good
  <2> QED
    BY <2>3
<1>2. ASSUME NEW n \in Nat, n \in S PROVE n + 1 \in S
  <2>1. CASE n + 1 <= Len(w)
    <3>1. n + 1 \in 1..Len(w) /\ (n + 1) - 1 = n /\ n \in 0..Len(w)
      BY <2>1
    <3>2. Asked(w, l)[n + 1] = IF l >= w[n + 1] THEN Append(Asked(w, l)[n], n + 1)
                                              ELSE Asked(w, l)[n]
      BY <3>1, AskedIs
    <3>3. Asked(w, l)[n] \in Seq(Nat)
      BY <3>1, AskedIsSeq
    <3>4. Good(Asked(w, l)[n], n)
      BY <1>2, <3>1
    <3>5. ASSUME NEW a \in Seq(Nat), Good(a, n)
          PROVE  Good(a, n + 1) /\ (l >= w[n + 1] => Good(Append(a, n + 1), n + 1))
      BY <3>5
    <3>6. Good(Asked(w, l)[n + 1], n + 1)
      <4> HIDE DEF Good
      <4> QED
        BY <3>2, <3>3, <3>4, <3>5
    <3> QED
      BY <3>6
  <2> QED
    BY <2>1
<1>3. k \in S
  <2> HIDE DEF S
  <2> QED
    BY <1>1, <1>2, SetInduction
<1> QED
  BY <1>3

LEMMA IntervalCardinality ==
  ASSUME NEW n \in Nat
  PROVE  Cardinality(1..n) = n
BY FS_Interval

(* A set of natural numbers that is not empty has its least element. *)
LEMMA MinOfNats ==
  ASSUME NEW S \in SUBSET Nat, S # {}
  PROVE  MinOf(S) \in S /\ \A n \in S : MinOf(S) <= n
<1>1. PICK m \in S : \A y \in S : ~(<<y, m>> \in OpToRel(<, Nat))
  BY NatLessThanWellFounded, WFMin
<1>2. \A y \in S : ~(y < m)
  BY <1>1 DEF OpToRel
<1>3. \A y \in S : m <= y
  BY <1>2
<1> QED
  BY <1>3 DEF MinOf

(* The free slots are those after the callbacks asked for, so that these are
   what get_num_callbacks() counts and what vlog() runs over.                *)
SlotsCounted ==
  /\ num_callbacks = Len(wanted)
  /\ \A i, k \in Slots : i < k /\ ~Free(k) => ~Free(i)
  /\ \A t \in Threads : at[t] \in Nat \ {0} => (Over(t) <=> at[t] > Len(wanted))
LEMMA SlotsLemma == Slotted => SlotsCounted
<1> SUFFICES ASSUME Slotted PROVE SlotsCounted
  OBVIOUS
<1>1. Len(wanted) \in Nat /\ MaxCallbacks \in Nat /\ Len(wanted) <= MaxCallbacks
  BY LoggerAssumption DEF Slotted
<1>2. \A i \in Slots : ~Free(i) <=> i <= Len(wanted)
  BY DEF Slotted, Free
<1>3. {i \in Slots : \A k \in 1..i : ~Free(k)} = 1..Len(wanted)
  BY <1>1, <1>2 DEF Slots
<1>4. num_callbacks = Len(wanted)
  <2>1. Cardinality(1..Len(wanted)) = Len(wanted)
    BY <1>1, IntervalCardinality
  <2> QED
    BY <1>3, <2>1 DEF num_callbacks
<1> QED
  BY <1>1, <1>2, <1>4 DEF SlotsCounted, Slots, Over

(* What a thread holds are numbers. *)
LEMMA Numbers ==
  ASSUME TypeOK, NEW t \in Threads
  PROVE  /\ at[t] \in Nat \ {0} /\ ev[t] \in Nat /\ ev[t] \in Levels /\ seen[t] \in Nat
         /\ count[ev[t]] \in Nat /\ level \in Nat /\ min_level \in Nat
         /\ wanted \in Seq(Levels) /\ Len(wanted) \in Nat
         /\ \A i \in 1..Len(wanted) : wanted[i] \in Nat
<1>1. Levels \subseteq Nat /\ \A n \in 1..MaxCallbacks + 1 : n \in Nat \ {0}
  BY LoggerAssumption DEF Levels
<1>2. at[t] \in 1..MaxCallbacks + 1 /\ ev[t] \in Levels /\ seen[t] \in Nat
  BY DEF TypeOK
<1>3. level \in Levels /\ min_level \in Levels /\ wanted \in Seq(Levels)
  BY DEF TypeOK
<1>4. count[ev[t]] \in Nat
  BY <1>2 DEF TypeOK
<1>5. Len(wanted) \in Nat /\ \A i \in 1..Len(wanted) : wanted[i] \in Levels
  BY <1>3
<1> QED
  BY <1>1, <1>2, <1>3, <1>4, <1>5

(* One thread at a time is past the lock. *)
LEMMA OneLocked ==
  ASSUME Mutex, NEW t \in Threads, NEW u \in Threads,
         pc[t] \in Locked, pc[u] \in Locked
  PROVE  t = u
  BY DEF Mutex, Held, Locked, Logging

(* The steps that log leave the callbacks, and the one being added, alone. *)
LogStep(t) == (\E l \in Levels : Log(t, l)) \/ AddRefused(t) \/ Lock(t) \/ Count(t)
                \/ Counted(t) \/ Stamp(t) \/ Stdout(t) \/ Invoke(t) \/ Unlock(t)
ConfigStep(t) == (\E l \in Levels : AddCallback(t, l) \/ SetLevel(t, l))
                   \/ (\E given \in BOOLEAN : SetLock(t, given)) \/ Reset(t)
                   \/ AddContext(t) \/ AddLevel(t) \/ AddMinimum(t)
LEMMA Steps == Next <=> \E t \in Threads : LogStep(t) \/ ConfigStep(t)
BY DEF Next, Work, LogStep, ConfigStep

LEMMA LogStepFrame ==
  ASSUME TypeOK, NEW t \in Threads, LogStep(t)
  PROVE  /\ UNCHANGED <<config, wanted>>
         /\ pc' \in [Threads -> {"idle"} \cup Logging \cup Adding]
         /\ pc[t] \notin Adding /\ pc'[t] \notin Adding
         /\ \A u \in Threads \ {t} : /\ pc'[u] = pc[u] /\ at'[u] = at[u] /\ ev'[u] = ev[u]
                                     /\ shown'[u] = shown[u] /\ stamped'[u] = stamped[u]
                                     /\ seen'[u] = seen[u]
<1> USE DEF TypeOK, Go, Logging, Adding
<1>1. CASE (\E l \in Levels : Log(t, l)) \/ AddRefused(t)
  BY <1>1 DEF Log, AddRefused
<1>2. CASE Lock(t) \/ Count(t)
  BY <1>2 DEF Lock, Count, config
<1>3. CASE Counted(t) \/ Stamp(t)
  BY <1>3 DEF Counted, Stamp
<1>4. CASE Stdout(t)
  BY <1>4 DEF Stdout
<1>5. CASE Invoke(t)
  BY <1>5 DEF Invoke
<1>6. CASE Unlock(t)
  BY <1>6 DEF Unlock
<1> QED
  BY <1>1, <1>2, <1>3, <1>4, <1>5, <1>6 DEF LogStep

-----------------------------------------------------------------------------
(* Base: types and slots, whoever calls what when. *)

LEMMA BaseInit == Init => Base
<1> SUFFICES ASSUME Init PROVE Base
  OBVIOUS
<1> USE LoggerAssumption, NoThreadAssumption
<1>1. Slotted
  BY DEF Init, Slotted, Adding, Slots
<1>2. SlotsCounted
  BY <1>1, SlotsLemma
<1>3. Info \in Levels /\ Warn \in Levels /\ 0 \in Levels
  BY DEF Levels
<1>4. \A i, k \in Slots : i < k /\ ~Free(k) => ~Free(i)
  BY <1>2 DEF SlotsCounted
<1>5. Len(wanted) = num_callbacks
  BY <1>2 DEF SlotsCounted
<1>6. level \in Levels /\ min_level \in Levels
  BY <1>3 DEF Init
<1>7. /\ cb_function \in [Slots -> BOOLEAN] /\ cb_level \in [Slots -> Levels]
      /\ lock_callback \in BOOLEAN /\ stamped \in [Threads -> BOOLEAN]
      /\ pc \in [Threads -> {"idle"} \cup Logging \cup Adding]
      /\ ev \in [Threads -> Levels] /\ owner = NoThread
      /\ shown \in [Threads -> Seq(0..MaxCallbacks)] /\ wanted \in Seq(Levels)
  <2>1. <<>> \in Seq(0..MaxCallbacks) /\ <<>> \in Seq(Levels)
    OBVIOUS
  <2> QED
    BY <1>3, <2>1, Zenon DEF Init
<1>8. /\ cb_context \in [Slots -> 0..MaxCallbacks] /\ at \in [Threads -> 1..MaxCallbacks + 1]
      /\ count \in [Levels -> Nat] /\ logged \in [Levels -> Nat] /\ seen \in [Threads -> Nat]
  BY DEF Init
<1> QED
  BY <1>1, <1>4, <1>5, <1>6, <1>7, <1>8 DEF Base, TypeOK

(* One callback is added at a time. *)
LEMMA AddsAlone ==
  ASSUME TypeOK, NEW t \in Threads, NEW l \in Levels, AddCallback(t, l)
  PROVE  \A u \in Threads : pc[u] \notin Adding
BY DEF AddCallback, MayAdd, Alone, Go, Adding

LEMMA SlottedStep ==
  ASSUME Base, [Next]_vars
  PROVE  Slotted'
<1> USE LoggerAssumption DEF Slots
<1>1. CASE UNCHANGED vars
  BY <1>1 DEF vars, config, Base, Slotted
<1>2. ASSUME NEW t \in Threads, LogStep(t) PROVE Slotted'
  <2>1. \A u \in Threads : /\ pc'[u] \in Adding <=> pc[u] \in Adding
                           /\ pc[u] \in Adding => at'[u] = at[u] /\ ev'[u] = ev[u]
    BY <1>2, LogStepFrame DEF Base
  <2>2. UNCHANGED <<config, wanted>>
    BY <1>2, LogStepFrame DEF Base
  <2> QED
    BY <2>1, <2>2 DEF Base, Slotted, config
<1>3. ASSUME NEW t \in Threads, ConfigStep(t) PROVE Slotted'
  <2>1. pc \in [Threads -> {"idle"} \cup Logging \cup Adding] /\ Len(wanted) \in Nat
        /\ wanted \in Seq(Levels) /\ Len(wanted) <= MaxCallbacks
    BY DEF Base, TypeOK, Slotted
  <2>2. CASE \E l \in Levels : AddCallback(t, l)
    <3>1. PICK l \in Levels : AddCallback(t, l)
      BY <2>2
    <3>2. /\ wanted' \in Seq(Levels) /\ Len(wanted') = Len(wanted) + 1
          /\ wanted'[Len(wanted) + 1] = l
      BY <2>1, <3>1 DEF AddCallback
    <3>3. Len(wanted) < MaxCallbacks /\ num_callbacks = Len(wanted)
      BY <2>1, <3>1, SlotsLemma DEF AddCallback, SlotsCounted, Base
    <3>4. \A i \in Slots : cb_function'[i] <=> i = Len(wanted) + 1 \/ cb_function[i]
      BY <3>1, <3>3 DEF AddCallback, Base, TypeOK
    <3>5. \A i \in Slots : cb_function'[i] <=> i <= Len(wanted)'
      BY <2>1, <3>2, <3>4 DEF Base, Slotted
    <3>6. at'[t] = Len(wanted) + 1 /\ ev'[t] = l
      BY <3>1, <3>3 DEF AddCallback, Base, TypeOK
    <3>7. \A u \in Threads : pc'[u] \in Adding => u = t
      BY <2>1, <3>1, AddsAlone DEF AddCallback, Go, Base
    <3>8. wanted' # <<>> /\ Len(wanted)' <= MaxCallbacks
      BY <2>1, <3>2, <3>3
    <3> QED
      BY <3>2, <3>5, <3>6, <3>7, <3>8 DEF Slotted
  <2>3. CASE (\E l \in Levels : SetLevel(t, l)) \/ \E given \in BOOLEAN : SetLock(t, given)
    BY <2>3 DEF SetLevel, SetLock, Base, Slotted
  <2>4. CASE Reset(t)
    <3>1. wanted' = <<>> /\ \A u \in Threads : pc'[u] = "idle"
      BY <2>4 DEF Reset, Alone
    <3>2. \A i \in Slots : cb_function'[i] = FALSE
      BY <2>4 DEF Reset
    <3> QED
      BY <3>1, <3>2 DEF Slotted, Adding
  <2>5. CASE AddContext(t) \/ AddLevel(t)
    <3>1. /\ UNCHANGED <<wanted, cb_function, at, ev>> /\ pc[t] \in Adding /\ pc'[t] \in Adding
          /\ \A u \in Threads \ {t} : pc'[u] = pc[u]
      BY <2>1, <2>5 DEF AddContext, AddLevel, Go, Adding
    <3> QED
      BY <3>1 DEF Base, Slotted
  <2>6. CASE AddMinimum(t)
    <3>1. /\ pc[t] \in Adding /\ pc'[t] = "idle" /\ UNCHANGED wanted
          /\ \A u \in Threads \ {t} : pc'[u] = pc[u]
      BY <2>1, <2>6 DEF AddMinimum, Go, Adding
    <3>2. at[t] = Len(wanted) /\ \A u \in Threads : pc'[u] \notin Adding
      BY <3>1 DEF Base, Slotted, Adding
    <3>3. \A i \in Slots : cb_function'[i] <=> i <= Len(wanted)
      <4>1. \A i \in Slots : cb_function'[i] = (i # at[t] + 1 /\ cb_function[i])
        BY <2>6 DEF AddMinimum, Terminator
      <4>2. \A i \in Slots : (cb_function[i] <=> i <= Len(wanted)) /\ i \in Nat
        BY DEF Base, Slotted
      <4>3. \A i \in Slots : cb_function'[i] <=> i # Len(wanted) + 1 /\ i <= Len(wanted)
        BY <3>2, <4>1, <4>2, Zenon
      <4>4. \A i \in Slots : i # Len(wanted) + 1 /\ i <= Len(wanted) <=> i <= Len(wanted)
        BY <2>1, <4>2
      <4> QED
        BY <4>3, <4>4, Zenon
    <3> QED
      BY <2>1, <3>1, <3>2, <3>3 DEF Slotted
  <2> QED
    BY <1>3, <2>2, <2>3, <2>4, <2>5, <2>6 DEF ConfigStep
<1> QED
  BY <1>1, <1>2, <1>3, Steps

(* The minimum of levels is one of them. *)
LEMMA LowerLemma ==
  ASSUME TypeOK, NEW l \in Levels
  PROVE  Lower(l) \in Levels /\ Lower(l) <= l /\ Lower(l) <= min_level
<1>1. {l, min_level} \in SUBSET Nat /\ {l, min_level} # {} /\ {l, min_level} \subseteq Levels
  BY LoggerAssumption DEF TypeOK, Levels
<1>2. Lower(l) \in {l, min_level} /\ \A n \in {l, min_level} : Lower(l) <= n
  BY <1>1, MinOfNats DEF Lower
<1> QED
  BY <1>1, <1>2

LEMMA SetLevelLemma ==
  ASSUME Base, NEW t \in Threads, NEW l \in Levels, SetLevel(t, l)
  PROVE  /\ min_level' \in Levels /\ min_level' <= l
         /\ \A i \in 1..Len(wanted) : min_level' <= cb_level[i]
<1> DEFINE S == {l} \cup {cb_level[i] : i \in 1..num_callbacks}
<1>1. num_callbacks = Len(wanted) /\ Len(wanted) \in Nat /\ 1..Len(wanted) \subseteq Slots
  BY SlotsLemma, LoggerAssumption DEF Base, Slotted, SlotsCounted, Slots
<1>2. S \subseteq Levels /\ Levels \subseteq Nat /\ S # {} /\ l \in S
  <2>1. \A i \in 1..num_callbacks : cb_level[i] \in Levels
    BY <1>1 DEF Base, TypeOK
  <2>2. Levels \subseteq Nat
    BY LoggerAssumption DEF Levels
  <2> QED
    BY <2>1, <2>2
<1>3. MinOf(S) \in S /\ \A n \in S : MinOf(S) <= n
  <2> HIDE DEF S
  <2> QED
    BY <1>2, MinOfNats
<1>4. \A i \in 1..Len(wanted) : cb_level[i] \in S
  BY <1>1
<1>5. min_level' = MinOf(S)
  BY DEF SetLevel
<1> HIDE DEF S
<1> QED
  BY <1>2, <1>3, <1>4, <1>5

LEMMA TypeStep ==
  ASSUME Base, [Next]_vars
  PROVE  TypeOK'
<1> USE LoggerAssumption
<1>0. 1 \in 1..MaxCallbacks + 1 /\ \A n \in 0..MaxCallbacks : n + 1 \in 1..MaxCallbacks + 1
  OBVIOUS
<1>1. SlotsCounted'
  <2>1. Slotted'
    BY SlottedStep
  <2> QED
    BY <2>1, SlotsLemma, PTL
<1>2. wanted' \in Seq(Levels) /\ Len(wanted') = num_callbacks' /\ (\A i, k \in Slots : i < k /\ ~Free(k) => ~Free(i))'
  BY <1>1, SlottedStep DEF SlotsCounted, Slotted
<1>3. CASE UNCHANGED vars
  BY <1>2, <1>3 DEF vars, config, Base, TypeOK
<1>4. ASSUME NEW t \in Threads, LogStep(t) PROVE TypeOK'
  <2> USE DEF Base, TypeOK, Go
  <2>1. UNCHANGED config /\ pc' \in [Threads -> {"idle"} \cup Logging \cup Adding]
    BY <1>4, LogStepFrame
  <2>2. ASSUME NEW l \in Levels, Log(t, l) PROVE TypeOK'
    BY <1>2, <2>1, <2>2 DEF Log, config
  <2>3. CASE AddRefused(t)
    <3>1. Error \in Levels
      BY DEF Levels
    <3> QED
      BY <1>2, <2>1, <2>3, <3>1 DEF AddRefused, config
  <2>4. CASE Lock(t)
    BY <1>2, <2>1, <2>4 DEF Lock, config
  <2>5. CASE Count(t)
    <3>1. seen' \in [Threads -> Nat] /\ logged' \in [Levels -> Nat]
      <4>1. count[ev[t]] \in Nat /\ logged[ev[t]] + 1 \in Nat
        BY Numbers
      <4> QED
        BY <2>5, <4>1 DEF Count
    <3> QED
      BY <1>2, <2>1, <2>5, <3>1 DEF Count, config
  <2>6. CASE Counted(t)
    <3>1. seen' \in [Threads -> Nat] /\ count' \in [Levels -> Nat]
      <4>1. seen[t] + 1 \in Nat
        BY Numbers
      <4> QED
        BY <2>6, <4>1 DEF Counted
    <3> QED
      BY <1>2, <2>1, <2>6, <3>1 DEF Counted, config
  <2>7. CASE Stamp(t)
    <3>1. (ev[t] >= min_level) \in BOOLEAN
      OBVIOUS
    <3>2. stamped' \in [Threads -> BOOLEAN]
      BY <2>7, <3>1, Zenon DEF Stamp
    <3> QED
      BY <1>2, <2>1, <2>7, <3>2 DEF Stamp, config
  <2>8. CASE Stdout(t)
    <3>1. shown' \in [Threads -> Seq(0..MaxCallbacks)]
      BY <2>8 DEF Stdout
    <3> QED
      BY <1>2, <2>1, <2>8, <3>1 DEF Stdout, config
  <2>9. CASE Invoke(t)
    <3>1. at[t] \in 1..MaxCallbacks
      BY <2>9 DEF Invoke, Over, Slots
    <3>2. at[t] + 1 \in 1..MaxCallbacks + 1
      <4>1. \A n \in 1..MaxCallbacks : n + 1 \in 1..MaxCallbacks + 1
        BY <1>0
      <4> QED
        BY <3>1, <4>1, Zenon
    <3>3. at' \in [Threads -> 1..MaxCallbacks + 1]
      BY <2>9, <3>2 DEF Invoke
    <3>4. cb_context[at[t]] \in 0..MaxCallbacks
      BY <3>1 DEF Slots
    <3>5. shown' \in [Threads -> Seq(0..MaxCallbacks)]
      BY <2>9, <3>4 DEF Invoke
    <3> QED
      BY <1>2, <2>1, <2>9, <3>3, <3>5 DEF Invoke, config
  <2>10. CASE Unlock(t)
    <3>1. 0 \in Levels
      BY DEF Levels
    <3>2. stamped' \in [Threads -> BOOLEAN] /\ owner' \in Threads \cup {NoThread}
      BY <2>10, Zenon DEF Unlock, Release
    <3>3. at' \in [Threads -> 1..MaxCallbacks + 1]
      BY <1>0, <2>10 DEF Unlock
    <3>4. shown' \in [Threads -> Seq(0..MaxCallbacks)] /\ ev' \in [Threads -> Levels]
      BY <2>10, <3>1 DEF Unlock
    <3> QED
      BY <1>2, <2>1, <2>10, <3>2, <3>3, <3>4 DEF Unlock, config
  <2> QED
    BY <1>4, <2>2, <2>3, <2>4, <2>5, <2>6, <2>7, <2>8, <2>9, <2>10 DEF LogStep
<1>5. ASSUME NEW t \in Threads, ConfigStep(t) PROVE TypeOK'
  <2> USE DEF Base, TypeOK, Go
  <2>1. num_callbacks = Len(wanted) /\ Len(wanted) \in Nat
    BY DEF Slotted
  <2>2. ASSUME NEW l \in Levels, AddCallback(t, l) PROVE TypeOK'
    <3>1. num_callbacks + 1 \in 1..MaxCallbacks + 1
      <4>1. num_callbacks \in 0..MaxCallbacks
        BY <2>1, <2>2 DEF AddCallback, Slotted
      <4> QED
        BY <1>0, <4>1
    <3>2. cb_function' \in [Slots -> BOOLEAN]
      BY <2>2, Zenon DEF AddCallback
    <3> QED
      BY <1>2, <2>2, <3>1, <3>2 DEF AddCallback, Adding
  <2>3. ASSUME NEW l \in Levels, SetLevel(t, l) PROVE TypeOK'
    <3>1. min_level' \in Levels
      BY <2>3, SetLevelLemma
    <3> QED
      BY <1>2, <2>3, <3>1 DEF SetLevel
  <2>4. ASSUME NEW given \in BOOLEAN, SetLock(t, given) PROVE TypeOK'
    BY <1>2, <2>4 DEF SetLock
  <2>5. CASE Reset(t)
    <3>1. Warn \in Levels /\ 0 \in Levels
      BY DEF Levels
    <3>2. lock_callback' \in BOOLEAN /\ cb_function' \in [Slots -> BOOLEAN]
      BY <2>5, Zenon DEF Reset
    <3>3. /\ cb_context' \in [Slots -> 0..MaxCallbacks] /\ cb_level' \in [Slots -> Levels]
          /\ count' \in [Levels -> Nat] /\ logged' \in [Levels -> Nat]
      BY <2>5, <3>1 DEF Reset
    <3> QED
      BY <1>2, <2>5, <3>1, <3>2, <3>3 DEF Reset
  <2>6. CASE AddContext(t)
    <3>1. Len(wanted) \in 0..MaxCallbacks
      BY <2>1 DEF Slotted
    <3> QED
      BY <1>2, <2>6, <3>1 DEF AddContext, Adding
  <2>7. CASE AddLevel(t)
    BY <1>2, <2>7 DEF AddLevel, Adding
  <2>8. CASE AddMinimum(t)
    <3>1. Lower(ev[t]) \in Levels
      BY LowerLemma
    <3>3. 0 \in Levels
      BY DEF Levels
    <3>4. ev' \in [Threads -> Levels] /\ at' \in [Threads -> 1..MaxCallbacks + 1]
      BY <1>0, <2>8, <3>3 DEF AddMinimum
    <3>5. pc' \in [Threads -> {"idle"} \cup Logging \cup Adding]
      BY <2>8 DEF AddMinimum
    <3>2. cb_function' \in [Slots -> BOOLEAN]
      BY <2>8 DEF AddMinimum
    <3> QED
      BY <1>2, <2>8, <3>1, <3>2, <3>4, <3>5 DEF AddMinimum
  <2> QED
    BY <1>5, <2>2, <2>3, <2>4, <2>5, <2>6, <2>7, <2>8 DEF ConfigStep
<1> QED
  BY <1>3, <1>4, <1>5, Steps

LEMMA BaseHolds == Spec => []Base
<1>1. Init => Base
  BY BaseInit
<1>2. Base /\ [Next]_vars => Base'
  BY TypeStep, SlottedStep DEF Base
<1> QED
  BY <1>1, <1>2, PTL DEF Spec

-----------------------------------------------------------------------------
(* Counting: what the lock callback is for. *)

(* No thread has to report a refused callback while others log without a lock. *)
NoneRefused == ~(AddLive /\ Global)

(* What configures the logger is not seen by the threads that log. *)
LEMMA ConfigStepFrame ==
  ASSUME TypeOK, NEW t \in Threads, ConfigStep(t)
  PROVE  /\ owner' = owner
         /\ pc[t] \notin Logging /\ pc'[t] \notin Logging
         /\ \A u \in Threads \ {t} : /\ pc'[u] = pc[u] /\ ev'[u] = ev[u] /\ seen'[u] = seen[u]
         /\ lock_callback' # lock_callback \/ count' # count => \A u \in Threads : pc[u] = "idle" /\ pc'[u] = "idle"
<1> USE DEF TypeOK, Go, Logging, Adding
<1>1. CASE \E l \in Levels : AddCallback(t, l)
  BY <1>1 DEF AddCallback
<1>2. CASE \E l \in Levels : SetLevel(t, l)
  BY <1>2 DEF SetLevel
<1>3. CASE \E given \in BOOLEAN : SetLock(t, given)
  BY <1>3 DEF SetLock, Alone
<1>4. CASE Reset(t)
  BY <1>4 DEF Reset, Alone
<1>5. CASE AddContext(t) \/ AddLevel(t)
  BY <1>5 DEF AddContext, AddLevel
<1>6. CASE AddMinimum(t)
  BY <1>6 DEF AddMinimum
<1> QED
  BY <1>1, <1>2, <1>3, <1>4, <1>5, <1>6 DEF ConfigStep

(* Whoever holds the mutex is past the lock, and gives it back as it leaves. *)
LEMMA HeldStep ==
  ASSUME Base, Held, [Next]_vars
  PROVE  Held'
<1> USE NoThreadAssumption DEF Locked, Logging
<1>0. pc \in [Threads -> {"idle"} \cup Logging \cup Adding]
  BY DEF Base, TypeOK
<1>1. CASE UNCHANGED vars
  BY <1>1 DEF vars, config, Held
<1>2. ASSUME NEW t \in Threads, LogStep(t) PROVE Held'
  <2>1. lock_callback' = lock_callback /\ \A u \in Threads \ {t} : pc'[u] = pc[u]
    BY <1>2, LogStepFrame DEF Base, config
  <2>2. CASE Lock(t)
    <3>1. /\ pc'[t] = "count" /\ pc[t] = "lock"
          /\ IF lock_callback THEN owner = NoThread /\ owner' = t ELSE owner' = owner
      BY <1>0, <2>2 DEF Lock, Go
    <3> QED
      BY <2>1, <3>1 DEF Held
  <2>3. CASE Unlock(t)
    <3>1. /\ pc[t] \in Locked /\ pc'[t] = "idle"
          /\ owner' = IF lock_callback THEN NoThread ELSE owner
      BY <1>0, <2>3 DEF Unlock, Release, Go
    <3> QED
      BY <2>1, <3>1 DEF Held
  <2>4. CASE ~Lock(t) /\ ~Unlock(t)
    <3>1. owner' = owner /\ (pc'[t] \in Locked <=> pc[t] \in Locked)
      BY <1>0, <1>2, <2>4 DEF LogStep, Log, AddRefused, Count, Counted, Stamp, Stdout, Invoke, Go
    <3> QED
      BY <2>1, <3>1 DEF Held
  <2> QED
    BY <2>2, <2>3, <2>4
<1>3. ASSUME NEW t \in Threads, ConfigStep(t) PROVE Held'
  <2>1. /\ owner' = owner /\ pc[t] \notin Logging /\ pc'[t] \notin Logging
        /\ \A u \in Threads \ {t} : pc'[u] = pc[u]
        /\ lock_callback' # lock_callback => \A u \in Threads : pc[u] = "idle" /\ pc'[u] = "idle"
    BY <1>3, ConfigStepFrame DEF Base
  <2>2. CASE lock_callback' # lock_callback
    BY <2>1, <2>2 DEF Held
  <2>3. CASE lock_callback' = lock_callback
    BY <2>1, <2>3 DEF Held
  <2> QED
    BY <2>2, <2>3
<1> QED
  BY <1>1, <1>2, <1>3, Steps

LEMMA MutexStep ==
  ASSUME NoneRefused, Base, Mutex, [Next]_vars
  PROVE  Mutex'
<1>1. Held'
  BY HeldStep DEF Mutex
<1>2. SUFFICES ASSUME NEW u \in Threads, NEW v \in Threads, u # v,
                      pc'[u] \in Logging, pc'[v] \in Logging
               PROVE  lock_callback'
  BY <1>1 DEF Mutex
<1>3. CASE UNCHANGED vars
  BY <1>2, <1>3 DEF vars, config, Mutex
<1>4. ASSUME NEW t \in Threads, LogStep(t) PROVE lock_callback'
  <2>1. lock_callback' = lock_callback /\ \A w \in Threads \ {t} : pc'[w] = pc[w]
    BY <1>4, LogStepFrame DEF Base, config
  <2>2. CASE pc[t] \in Logging
    BY <1>2, <2>1, <2>2 DEF Mutex
  <2>3. CASE pc[t] \notin Logging
    <3>1. lock_callback \/ Alone(t)
      <4>1. (\E l \in Levels : Log(t, l)) \/ AddRefused(t)
        BY <1>4, <2>3 DEF LogStep, Lock, Count, Counted, Stamp, Stdout, Invoke, Unlock, Go, Logging
      <4>2. AddRefused(t) => Alone(t)
        BY Zenon DEF AddRefused, MayAdd, NoneRefused
      <4> QED
        BY <4>1, <4>2 DEF Log, MayLog
    <3> QED
      BY <1>2, <2>1, <3>1 DEF Alone, Logging
  <2> QED
    BY <2>2, <2>3
<1>5. ASSUME NEW t \in Threads, ConfigStep(t) PROVE lock_callback'
  <2>1. /\ pc'[t] \notin Logging /\ \A w \in Threads \ {t} : pc'[w] = pc[w]
        /\ lock_callback' # lock_callback => \A w \in Threads : pc'[w] = "idle"
    BY <1>5, ConfigStepFrame DEF Base
  <2> QED
    BY <1>2, <2>1 DEF Mutex, Logging
<1> QED
  BY <1>3, <1>4, <1>5, Steps

(* No thread writes a counter that another has read to increment it. *)
LEMMA LoadedStep ==
  ASSUME Base, Mutex, Loaded, [Next]_vars
  PROVE  Loaded'
<1> SUFFICES ASSUME NEW u \in Threads, pc'[u] = "counted"
             PROVE  seen'[u] = count'[ev'[u]]
  BY DEF Loaded
<1>1. CASE UNCHANGED vars
  BY <1>1 DEF vars, Loaded
<1>2. ASSUME NEW t \in Threads, LogStep(t) PROVE seen'[u] = count'[ev'[u]]
  <2>1. CASE u # t
    <3>1. pc[u] = "counted" /\ ev'[u] = ev[u] /\ seen'[u] = seen[u]
      BY <1>2, <2>1, LogStepFrame DEF Base
    <3>2. pc[t] \notin Locked
      BY <2>1, <3>1, OneLocked DEF Locked, Logging
    <3>3. count' = count
      BY <1>2, <3>2 DEF LogStep, Log, AddRefused, Lock, Count, Counted, Stamp, Stdout,
         Invoke, Unlock, Go, Locked, Logging
    <3> QED
      BY <3>1, <3>3 DEF Loaded
  <2>2. CASE u = t
    <3>1. Count(t)
      BY <1>2, <2>2 DEF LogStep, Log, AddRefused, Lock, Count, Counted, Stamp, Stdout,
         Invoke, Unlock, Go, Base, TypeOK
    <3> QED
      BY <2>2, <3>1 DEF Count, Base, TypeOK
  <2> QED
    BY <2>1, <2>2
<1>3. ASSUME NEW t \in Threads, ConfigStep(t) PROVE seen'[u] = count'[ev'[u]]
  <2>1. /\ pc'[t] # "counted" /\ count' = count
        /\ u # t => pc'[u] = pc[u] /\ ev'[u] = ev[u] /\ seen'[u] = seen[u]
    BY <1>3, ConfigStepFrame DEF Base, Logging
  <2> QED
    BY <2>1 DEF Loaded
<1> QED
  BY <1>1, <1>2, <1>3, Steps

(* The event being counted is the one between a load and a store. *)
BeingCounted(l) == {t \in Threads : pc[t] = "counted" /\ ev[t] = l}

LEMMA CountsStep ==
  ASSUME Base, Counting, [Next]_vars
  PROVE  CountsExact'
<1> USE DEF BeingCounted
<1>1. SUFFICES ASSUME NEW l \in Levels
               PROVE  logged'[l] = count'[l] + Cardinality(BeingCounted(l)')
  BY DEF CountsExact
<1>2. logged[l] = count[l] + Cardinality(BeingCounted(l)) /\ count[l] \in Nat /\ logged[l] \in Nat
  BY DEF Base, Counting, CountsExact, TypeOK
<1>3. Cardinality({}) = 0 /\ \A u : Cardinality({u}) = 1
  BY FS_EmptySet, FS_Singleton
<1>4. CASE UNCHANGED vars
  BY <1>2, <1>4 DEF vars
<1>5. ASSUME NEW t \in Threads, LogStep(t)
      PROVE  logged'[l] = count'[l] + Cardinality(BeingCounted(l)')
  <2>1. /\ pc' \in [Threads -> {"idle"} \cup Logging \cup Adding]
        /\ \A u \in Threads \ {t} : pc'[u] = pc[u] /\ ev'[u] = ev[u]
    BY <1>5, LogStepFrame DEF Base
  <2>2. CASE Count(t)
    <3>1. pc[t] = "count" /\ pc'[t] = "counted" /\ ev' = ev /\ count' = count
      BY <2>1, <2>2 DEF Count, Go, Base, TypeOK
    <3>2. \A u \in Threads : pc[u] # "counted"
      BY <3>1, OneLocked DEF Counting, Locked, Logging
    <3>3. ev[t] \in Levels /\ logged'[l] = IF l = ev[t] THEN logged[l] + 1 ELSE logged[l]
      BY <2>2 DEF Count, Base, TypeOK
    <3>4. BeingCounted(l) = {}
      BY <3>2
    <3>5. BeingCounted(l)' = IF l = ev[t] THEN {t} ELSE {}
      BY <2>1, <3>1, <3>2
    <3>6. logged[l] = count[l]
      BY <1>2, <1>3, <3>4
    <3>7. CASE l = ev[t]
      <4>1. Cardinality(BeingCounted(l)') = 1
        BY <1>3, <3>5, <3>7
      <4> QED
        BY <1>2, <3>1, <3>3, <3>6, <3>7, <4>1
    <3>8. CASE l # ev[t]
      <4>1. Cardinality(BeingCounted(l)') = 0
        BY <1>3, <3>5, <3>8
      <4> QED
        BY <1>2, <3>1, <3>3, <3>6, <3>8, <4>1
    <3> QED
      BY <3>7, <3>8
  <2>3. CASE Counted(t)
    <3>1. /\ pc[t] = "counted" /\ pc'[t] = "stamp" /\ logged' = logged
          /\ ev[t] \in Levels /\ seen[t] = count[ev[t]]
      BY <2>1, <2>3 DEF Counted, Go, Base, TypeOK, Counting, Loaded
    <3>2. \A u \in Threads : pc[u] = "counted" => u = t
      BY <3>1, OneLocked DEF Counting, Locked, Logging
    <3>3. count'[l] = IF l = ev[t] THEN count[l] + 1 ELSE count[l]
      BY <2>3, <3>1 DEF Counted, Base, TypeOK
    <3>4. BeingCounted(l)' = {}
      BY <2>1, <3>1, <3>2
    <3>5. BeingCounted(l) = IF l = ev[t] THEN {t} ELSE {}
      BY <3>1, <3>2
    <3>6. Cardinality(BeingCounted(l)') = 0
      BY <1>3, <3>4
    <3>7. CASE l = ev[t]
      <4>1. Cardinality(BeingCounted(l)) = 1
        BY <1>3, <3>5, <3>7
      <4> QED
        BY <1>2, <3>1, <3>3, <3>6, <3>7, <4>1
    <3>8. CASE l # ev[t]
      <4>1. Cardinality(BeingCounted(l)) = 0
        BY <1>3, <3>5, <3>8
      <4> QED
        BY <1>2, <3>1, <3>3, <3>6, <3>8, <4>1
    <3> QED
      BY <3>7, <3>8
  <2>4. CASE ~Count(t) /\ ~Counted(t)
    <3>1. UNCHANGED <<count, logged>> /\ pc[t] # "counted" /\ pc'[t] # "counted"
      BY <1>5, <2>1, <2>4 DEF LogStep, Log, AddRefused, Lock, Stamp, Stdout, Invoke,
         Unlock, Go, Base, TypeOK
    <3>2. BeingCounted(l)' = BeingCounted(l)
      BY <2>1, <3>1
    <3> QED
      BY <1>2, <3>1, <3>2
  <2> QED
    BY <2>2, <2>3, <2>4
<1>6. ASSUME NEW t \in Threads, ConfigStep(t)
      PROVE  logged'[l] = count'[l] + Cardinality(BeingCounted(l)')
  <2>1. /\ \A u \in Threads \ {t} : pc'[u] = pc[u] /\ ev'[u] = ev[u]
        /\ pc[t] # "counted" /\ pc'[t] # "counted"
    BY <1>6, ConfigStepFrame DEF Base, Logging
  <2>2. CASE Reset(t)
    <3>1. \A u \in Threads : pc'[u] = "idle"
      BY <2>2 DEF Reset, Alone
    <3>2. BeingCounted(l)' = {}
      BY <3>1
    <3>3. Cardinality(BeingCounted(l)') = 0
      BY <1>3, <3>2, Zenon
    <3>4. count'[l] = 0 /\ logged'[l] = 0
      BY <2>2 DEF Reset
    <3> QED
      BY <3>3, <3>4
  <2>3. CASE ~Reset(t)
    <3>1. UNCHANGED <<count, logged>>
      BY <1>6, <2>3 DEF ConfigStep, AddCallback, SetLevel, SetLock, AddContext, AddLevel,
         AddMinimum
    <3>2. BeingCounted(l)' = BeingCounted(l)
      BY <2>1
    <3> QED
      BY <1>2, <3>1, <3>2
  <2> QED
    BY <2>2, <2>3
<1> QED
  BY <1>4, <1>5, <1>6, Steps

LEMMA HeldHolds == Spec => []Held
<1>1. Init => Held
  BY NoThreadAssumption DEF Init, Held, Locked, Logging
<1>2. Base /\ Held /\ [Next]_vars => Held'
  BY HeldStep
<1> QED
  BY <1>1, <1>2, BaseHolds, PTL DEF Spec

LEMMA CountingHolds == ASSUME NoneRefused PROVE Spec => []Counting
<1>1. Init => Counting
  <2> SUFFICES ASSUME Init PROVE Counting
    OBVIOUS
  <2>1. Mutex /\ Loaded
    BY NoThreadAssumption DEF Init, Mutex, Held, Loaded, Locked, Logging
  <2>2. \A l \in Levels : {t \in Threads : pc[t] = "counted" /\ ev[t] = l} = {}
    BY DEF Init
  <2>3. Cardinality({}) = 0
    BY FS_EmptySet
  <2>4. \A l \in Levels : Cardinality({t \in Threads : pc[t] = "counted" /\ ev[t] = l}) = 0
    BY <2>2, <2>3, Zenon
  <2>5. \A l \in Levels : logged[l] = 0 /\ count[l] = 0
    BY DEF Init
  <2> QED
    BY <2>1, <2>4, <2>5 DEF Counting, CountsExact
<1>2. Base /\ Counting /\ [Next]_vars => Counting'
  BY MutexStep, LoadedStep, CountsStep DEF Counting
<1> QED
  BY <1>1, <1>2, BaseHolds, PTL DEF Spec

-----------------------------------------------------------------------------
(* The inductive invariant of callers that add no callback while others log. *)

(* What configures the logger runs alone. *)
LEMMA ConfigAlone ==
  ASSUME ~AddLive, IInv, NEW t \in Threads, ConfigStep(t)
  PROVE  /\ Alone(t)
         /\ pc[t] \in {"idle"} \cup Adding
         /\ \A u \in Threads : pc[u] \notin Logging
<1>1. pc[t] \in {"idle"} \cup Adding
  BY DEF ConfigStep, AddCallback, SetLevel, SetLock, Reset, AddContext, AddLevel,
         AddMinimum, Go, Adding
<1>2. Alone(t)
  <2>1. CASE pc[t] \in Adding
    BY <2>1 DEF IInv, Exclusive, Alone, Adding, Logging
  <2>2. CASE pc[t] = "idle"
    BY <2>2 DEF ConfigStep, AddCallback, SetLevel, SetLock, Reset, AddContext, AddLevel,
                AddMinimum, Go, Adding, MayAdd
  <2> QED
    BY <1>1, <2>1, <2>2
<1> QED
  BY <1>1, <1>2 DEF Alone, Adding, Logging

LEMMA ExclusiveStep ==
  ASSUME ~AddLive, IInv, [Next]_vars
  PROVE  Exclusive'
<1> USE DEF Logging
<1>1. CASE UNCHANGED vars
  BY <1>1 DEF vars, config, IInv, Exclusive
<1>0. pc \in [Threads -> {"idle"} \cup Logging \cup Adding]
  BY DEF IInv, Base, TypeOK
<1>2. ASSUME NEW t \in Threads, LogStep(t) PROVE Exclusive'
  <2>1. /\ pc'[t] \in Logging \cup {"idle"} /\ lock_callback' = lock_callback
        /\ \A u \in Threads \ {t} : pc'[u] = pc[u]
    BY <1>2, LogStepFrame DEF IInv, Base, config, Adding
  <2>2. CASE pc[t] # "idle"
    <3>1. pc[t] \in Logging
      BY <1>0, <1>2, <2>2, LogStepFrame DEF IInv, Base
    <3> QED
      BY <2>1, <2>2, <3>1 DEF IInv, Exclusive
  <2>3. CASE pc[t] = "idle"
    <3>1. \/ \A u \in Threads \ {t} : pc[u] = "idle"
          \/ lock_callback /\ \A u \in Threads : pc[u] \notin Adding
      BY <1>2, <2>3 DEF LogStep, Log, AddRefused, Lock, Count, Counted, Stamp, Stdout, Invoke,
         Unlock, Go, MayLog, MayAdd, Alone
    <3>2. \A u \in Threads : pc[u] \notin Adding => pc[u] \in Logging \cup {"idle"}
      BY <1>0, Zenon
    <3> QED
      BY <2>1, <3>1, <3>2 DEF IInv, Exclusive
  <2> QED
    BY <2>2, <2>3
<1>3. ASSUME NEW t \in Threads, ConfigStep(t) PROVE Exclusive'
  <2>1. \A u \in Threads \ {t} : pc'[u] = "idle"
    BY <1>3, ConfigAlone, ConfigStepFrame DEF Alone, IInv, Base
  <2> QED
    BY <2>1 DEF Exclusive
<1> QED
  BY <1>1, <1>2, <1>3, Steps

LEMMA RegisteredStep ==
  ASSUME ~AddLive, IInv, [Next]_vars
  PROVE  Registered'
<1> USE LoggerAssumption DEF BeingAdded, Settled, Slots
<1>1. CASE UNCHANGED vars
  BY <1>1 DEF vars, config, IInv, Registered
<1>2. ASSUME NEW t \in Threads, LogStep(t) PROVE Registered'
  <2>1. \A u \in Threads : /\ pc'[u] \in Adding <=> pc[u] \in Adding
                           /\ pc[u] \in Adding => pc'[u] = pc[u]
    BY <1>2, LogStepFrame DEF IInv, Base
  <2>2. UNCHANGED <<config, wanted>>
    BY <1>2, LogStepFrame DEF IInv, Base
  <2> QED
    BY <2>1, <2>2 DEF IInv, Registered, config, Adding
<1>3. ASSUME NEW t \in Threads, ConfigStep(t) PROVE Registered'
  <2>1. \A u \in Threads : pc[u] \notin Logging /\ (u # t => pc[u] = "idle")
    BY <1>3, ConfigAlone DEF Alone
  <2>2. /\ pc \in [Threads -> {"idle"} \cup Logging \cup Adding] /\ Len(wanted) \in Nat
        /\ wanted \in Seq(Levels) /\ Len(wanted) <= MaxCallbacks
        /\ cb_context \in [Slots -> 0..MaxCallbacks] /\ cb_level \in [Slots -> Levels]
    <3>1. wanted \in Seq(Levels) /\ Len(wanted) <= MaxCallbacks
      BY DEF IInv, Base, Slotted
    <3>2. /\ pc \in [Threads -> {"idle"} \cup Logging \cup Adding]
          /\ cb_context \in [Slots -> 0..MaxCallbacks] /\ cb_level \in [Slots -> Levels]
      BY DEF IInv, Base, TypeOK
    <3> QED
      BY <3>1, <3>2
  <2>3. pc[t] \in Adding => /\ at[t] = Len(wanted) /\ Len(wanted) >= 1
                            /\ ev[t] = wanted[Len(wanted)] /\ Len(wanted) \in Slots
    BY <2>2 DEF IInv, Base, Slotted
  <2>4. CASE \E l \in Levels : AddCallback(t, l)
    <3>1. PICK l \in Levels : AddCallback(t, l)
      BY <2>4
    <3>2. /\ Len(wanted') = Len(wanted) + 1
          /\ \A i \in 1..Len(wanted) : wanted'[i] = wanted[i]
          /\ UNCHANGED <<cb_context, cb_level>>
      BY <2>2, <3>1 DEF AddCallback
    <3>3. pc'[t] = "context" /\ \A u \in Threads : pc[u] = "idle"
      BY <2>1, <2>2, <3>1 DEF AddCallback, Go
    <3>4. \A i \in 1..Len(wanted) : cb_context[i] = i /\ cb_level[i] = wanted[i]
      BY <3>3 DEF IInv, Registered
    <3> QED
      BY <2>2, <3>2, <3>3, <3>4 DEF Registered
  <2>5. CASE (\E l \in Levels : SetLevel(t, l)) \/ \E given \in BOOLEAN : SetLock(t, given)
    BY <2>5 DEF SetLevel, SetLock, IInv, Registered
  <2>6. CASE Reset(t)
    BY <2>6 DEF Reset, Registered
  <2>7. CASE AddContext(t)
    <3>1. /\ pc[t] = "context" /\ pc'[t] = "level"
          /\ \A u \in Threads : u # t => pc'[u] = "idle"
          /\ UNCHANGED <<wanted, cb_level>>
      BY <2>1, <2>2, <2>7 DEF AddContext, Go
    <3>2. \A i \in Slots : cb_context'[i] = IF i = Len(wanted) THEN i ELSE cb_context[i]
      BY <2>2, <2>3, <2>7, <3>1 DEF AddContext, Adding
    <3>3. \A i \in 1..Len(wanted) :
            /\ cb_context'[i] = i
            /\ Settled(i, {"context", "level"})' => cb_level[i] = wanted[i]
      BY <2>2, <3>1, <3>2 DEF IInv, Registered
    <3> QED
      BY <3>1, <3>3 DEF Registered
  <2>8. CASE AddLevel(t)
    <3>1. /\ pc[t] = "level" /\ pc'[t] = "minimum" /\ UNCHANGED <<wanted, cb_context>>
      BY <2>2, <2>8 DEF AddLevel, Go
    <3>2. \A i \in Slots : cb_level'[i] = IF i = Len(wanted) THEN wanted[i] ELSE cb_level[i]
      BY <2>2, <2>3, <2>8, <3>1 DEF AddLevel, Adding
    <3>3. \A i \in 1..Len(wanted) : cb_context[i] = i /\ cb_level'[i] = wanted[i]
      BY <2>1, <2>2, <3>1, <3>2 DEF IInv, Registered
    <3> QED
      BY <3>1, <3>3 DEF Registered
  <2>9. CASE AddMinimum(t)
    <3>1. pc[t] = "minimum" /\ UNCHANGED <<wanted, cb_context, cb_level>>
      BY <2>9 DEF AddMinimum, Go
    <3>2. \A i \in 1..Len(wanted) : cb_context[i] = i /\ cb_level[i] = wanted[i]
      BY <2>1, <2>2, <3>1 DEF IInv, Registered
    <3> QED
      BY <3>1, <3>2 DEF Registered
  <2> QED
    BY <1>3, <2>4, <2>5, <2>6, <2>7, <2>8, <2>9 DEF ConfigStep
<1> QED
  BY <1>1, <1>2, <1>3, Steps

LEMMA MinimumStep ==
  ASSUME ~AddLive, IInv, [Next]_vars
  PROVE  MinimumLow'
<1> USE LoggerAssumption DEF BeingAdded, Settled, Levels
<1>1. CASE UNCHANGED vars
  BY <1>1 DEF vars, config, IInv, MinimumLow
<1>2. ASSUME NEW t \in Threads, LogStep(t) PROVE MinimumLow'
  <2>1. \A u \in Threads : pc'[u] \in Adding <=> pc[u] \in Adding
    BY <1>2, LogStepFrame DEF IInv, Base
  <2>2. UNCHANGED <<config, wanted>>
    BY <1>2, LogStepFrame DEF IInv, Base
  <2> QED
    BY <2>1, <2>2 DEF IInv, MinimumLow, config
<1>3. ASSUME NEW t \in Threads, ConfigStep(t) PROVE MinimumLow'
  <2>1. \A u \in Threads : pc[u] \notin Logging /\ (u # t => pc[u] = "idle")
    BY <1>3, ConfigAlone DEF Alone
  <2>2. /\ pc \in [Threads -> {"idle"} \cup Logging \cup Adding] /\ Len(wanted) \in Nat
        /\ wanted \in Seq(0..MaxLevel) /\ level \in Nat /\ min_level \in Nat
    BY DEF IInv, Base, TypeOK
  <2>3. ASSUME NEW l \in Levels, AddCallback(t, l) PROVE MinimumLow'
    <3>1. pc[t] = "idle" /\ pc'[t] = "context" /\ UNCHANGED <<level, min_level>>
      BY <2>2, <2>3 DEF AddCallback, Go
    <3>2. /\ Len(wanted') = Len(wanted) + 1
          /\ \A i \in 1..Len(wanted) : wanted'[i] = wanted[i]
      BY <2>2, <2>3 DEF AddCallback
    <3>3. \A i \in 1..Len(wanted) : min_level <= wanted[i]
      BY <2>1, <3>1 DEF IInv, MinimumLow, Adding
    <3>4. BeingAdded(Adding)'
      BY <3>1 DEF Adding
    <3>5. \A i \in 1..Len(wanted)' : Settled(i, Adding)' => i \in 1..Len(wanted)
      BY <2>2, <3>2, <3>4
    <3> QED
      BY <3>1, <3>2, <3>3, <3>5 DEF IInv, MinimumLow
  <2>4. ASSUME NEW l \in Levels, SetLevel(t, l) PROVE MinimumLow'
    <3>1. \A i \in 1..Len(wanted) : cb_level[i] = wanted[i]
      <4>1. ~BeingAdded({"context", "level"})
        BY <2>4 DEF SetLevel, Alone
      <4> QED
        BY <4>1 DEF IInv, Registered
    <3>2. min_level' <= l /\ \A i \in 1..Len(wanted) : min_level' <= wanted[i]
      BY <2>4, <3>1, SetLevelLemma DEF IInv
    <3> QED
      BY <2>4, <3>2 DEF SetLevel, MinimumLow
  <2>5. CASE \E given \in BOOLEAN : SetLock(t, given)
    BY <2>5 DEF SetLock, IInv, MinimumLow
  <2>6. CASE Reset(t)
    BY <2>6 DEF Reset, MinimumLow
  <2>7. CASE AddContext(t) \/ AddLevel(t)
    <3>1. UNCHANGED <<level, min_level, wanted>> /\ pc'[t] \in Adding /\ pc[t] \in Adding
      BY <2>2, <2>7 DEF AddContext, AddLevel, Go, Adding
    <3> QED
      BY <3>1 DEF IInv, MinimumLow
  <2>8. CASE AddMinimum(t)
    <3>1. /\ UNCHANGED <<level, wanted>> /\ pc[t] = "minimum"
          /\ min_level' = Lower(ev[t]) /\ ev[t] \in Levels
      BY <2>8 DEF AddMinimum, Go, IInv, Base, TypeOK
    <3>2. Len(wanted) >= 1 /\ ev[t] = wanted[Len(wanted)]
      BY <2>2, <3>1 DEF IInv, Base, Slotted, Adding
    <3>3. min_level' \in Nat /\ min_level' <= ev[t] /\ min_level' <= min_level
      BY <3>1, LowerLemma DEF IInv, Base
    <3>4. ASSUME NEW i \in 1..Len(wanted) PROVE min_level' <= wanted[i]
      <4>1. CASE i = Len(wanted)
        BY <4>1, <3>2, <3>3
      <4>2. CASE i < Len(wanted)
        <5>1. min_level <= wanted[i]
          BY <4>2 DEF IInv, MinimumLow
        <5> QED
          BY <2>2, <3>3, <5>1
      <4> QED
        BY <2>2, <4>1, <4>2
    <3>5. min_level' <= level
      BY <2>2, <3>3 DEF IInv, MinimumLow
    <3> QED
      BY <3>1, <3>4, <3>5 DEF MinimumLow
  <2> QED
    BY <1>3, <2>3, <2>4, <2>5, <2>6, <2>7, <2>8 DEF ConfigStep
<1> QED
  BY <1>1, <1>2, <1>3, Steps

LEMMA InvokeProgress ==
  ASSUME IInv, NEW t \in Threads, Invoke(t)
  PROVE  ProgressOf(t)'
<1>1. /\ pc[t] = "callbacks" /\ pc' = pc /\ UNCHANGED <<config, wanted, ev, stamped>>
      /\ at[t] \in Nat \ {0} /\ ~Over(t) /\ ev[t] \in Levels /\ wanted \in Seq(Levels)
  BY Numbers DEF Invoke, IInv, Base
<1>2. ProgressOf(t)
  BY DEF IInv, Progress, ProgressOf, Sees
<1>3. at[t] \in 1..Len(wanted) /\ at[t] \in Slots
  <2>1. at[t] <= Len(wanted)
    BY <1>1, SlotsLemma DEF IInv, Base, SlotsCounted
  <2> QED
    BY <1>1, <2>1, LoggerAssumption DEF IInv, Base, Slotted, Slots
<1>4. ~BeingAdded(Adding) /\ ~BeingAdded({"context"}) /\ ~BeingAdded({"context", "level"})
  BY <1>1 DEF IInv, Exclusive, BeingAdded, Adding, Logging
<1>5. cb_context[at[t]] = at[t] /\ cb_level[at[t]] = wanted[at[t]]
  BY <1>3, <1>4 DEF IInv, Registered, Settled
<1>6. at'[t] = at[t] + 1 /\ at'[t] \in 1..(Len(wanted) + 1)
  <2>1. at'[t] = at[t] + 1
    BY DEF Invoke, IInv, Base, TypeOK
  <2> QED
    BY <1>1, <1>3, <2>1
<1>7. shown'[t] = IF ev[t] >= wanted[at[t]] THEN Append(shown[t], at[t]) ELSE shown[t]
  BY <1>1, <1>5 DEF Invoke, Listens, IInv, Base, TypeOK
<1>. DEFINE s == Asked(wanted, ev[t])
<1>8. shown'[t] = OnStdout(ev[t]) \o s[at[t]]
  <2>1. s[at[t]] = IF ev[t] >= wanted[at[t]] THEN Append(s[at[t] - 1], at[t]) ELSE s[at[t] - 1]
    BY <1>1, <1>3, AskedIs
  <2>2. s[at[t] - 1] \in Seq(Nat)
    <3>1. at[t] - 1 \in 0..Len(wanted)
      BY <1>1, <1>3
    <3> QED
      BY <1>1, <3>1, AskedIsSeq
  <2>3. shown[t] = OnStdout(ev[t]) \o s[at[t] - 1]
    BY <1>1, <1>2 DEF ProgressOf, Sees
  <2>4. OnStdout(ev[t]) \in Seq(Nat)
    BY DEF OnStdout
  <2>5. \A a, b \in Seq(Nat) : a \o Append(b, at[t]) = Append(a \o b, at[t])
    BY <1>1
  <2> HIDE DEF s
  <2> QED
    BY <1>7, <2>1, <2>2, <2>3, <2>4, <2>5
<1>9. shown'[t] = Sees(t, at[t] - 1)'
  <2>1. at'[t] - 1 = at[t]
    BY <1>1, <1>6
  <2> QED
    BY <1>1, <1>8, <2>1 DEF Sees, OnStdout, config
<1> QED
  BY <1>1, <1>2, <1>6, <1>9 DEF ProgressOf, config

LEMMA ProgressStep ==
  ASSUME ~AddLive, IInv, [Next]_vars
  PROVE  Progress'
<1>1. SUFFICES ASSUME NEW u \in Threads PROVE ProgressOf(u)'
  BY DEF Progress
<1>2. ProgressOf(u)
  BY DEF IInv, Progress
<1>3. CASE UNCHANGED vars
  BY <1>2, <1>3 DEF vars, config, ProgressOf, Sees, OnStdout
<1>4. ASSUME NEW t \in Threads, LogStep(t) PROVE ProgressOf(u)'
  <2>1. UNCHANGED <<level, min_level, wanted>>
    BY <1>4, LogStepFrame DEF IInv, Base, config
  <2>2. CASE u # t
    <3>1. /\ pc'[u] = pc[u] /\ at'[u] = at[u] /\ ev'[u] = ev[u]
          /\ shown'[u] = shown[u] /\ stamped'[u] = stamped[u]
      BY <1>4, <2>2, LogStepFrame DEF IInv, Base
    <3> QED
      BY <1>2, <2>1, <3>1 DEF ProgressOf, Sees, OnStdout
  <2>3. CASE u = t
    <3>1. CASE (\E l \in Levels : Log(t, l)) \/ AddRefused(t) \/ Lock(t)
      BY <1>2, <2>1, <2>3, <3>1 DEF Log, AddRefused, Lock, Go, ProgressOf, IInv, Base, TypeOK, Adding
    <3>2. CASE Count(t)
      BY <1>2, <2>1, <2>3, <3>2 DEF Count, Go, ProgressOf, IInv, Base, TypeOK, Adding
    <3>3. CASE Counted(t)
      BY <1>2, <2>1, <2>3, <3>3 DEF Counted, Go, ProgressOf, IInv, Base, TypeOK, Adding
    <3>4. CASE Stamp(t)
      <4>1. stamped'[t] = (ev[t] >= min_level)
        BY <3>4 DEF Stamp, IInv, Base, TypeOK
      <4>2. /\ pc[t] = "stamp" /\ pc'[t] = "stdout"
            /\ UNCHANGED <<at, shown, ev, seen>>
        BY <3>4 DEF Stamp, Go, IInv, Base, TypeOK
      <4> QED
        BY <1>2, <2>1, <2>3, <4>1, <4>2 DEF ProgressOf, Adding
    <3>5. CASE Stdout(t)
      <4>1. /\ pc[t] = "stdout" /\ pc'[t] = "callbacks" /\ at[t] = 1 /\ shown[t] = <<>>
            /\ UNCHANGED <<at, ev, stamped, seen>> /\ ev[t] \in Levels
            /\ wanted \in Seq(Levels) /\ Len(wanted) \in Nat
        BY <1>2, <2>3, <3>5 DEF Stdout, Go, IInv, Base, TypeOK, ProgressOf, Adding
      <4>2. shown'[t] = OnStdout(ev[t])
        BY <3>5, <4>1 DEF Stdout, IInv, Base, TypeOK, OnStdout
      <4>3. Asked(wanted, ev[t])[0] = <<>> /\ OnStdout(ev[t]) \in Seq(Nat)
        BY <4>1, AskedIs DEF OnStdout
      <4>4. OnStdout(ev[t]) \o <<>> = OnStdout(ev[t])
        BY <4>3
      <4>5. shown'[t] = Sees(t, 0)'
        BY <2>1, <4>1, <4>2, <4>3, <4>4 DEF Sees, OnStdout
      <4> QED
        BY <1>2, <2>1, <2>3, <4>1, <4>5 DEF ProgressOf, Adding
    <3>6. CASE Invoke(t)
      BY <2>3, <3>6, InvokeProgress
    <3>7. CASE Unlock(t)
      BY <2>3, <3>7 DEF Unlock, Go, ProgressOf, IInv, Base, TypeOK, Adding
    <3> QED
      BY <1>4, <3>1, <3>2, <3>3, <3>4, <3>5, <3>6, <3>7 DEF LogStep
  <2> QED
    BY <2>2, <2>3
<1>5. ASSUME NEW t \in Threads, ConfigStep(t) PROVE ProgressOf(u)'
  <2>1. /\ \A v \in Threads : pc[v] \notin Logging /\ (v # t => pc[v] = "idle")
        /\ pc[t] \in {"idle"} \cup Adding
    BY <1>5, ConfigAlone DEF Alone
  <2>2. /\ pc'[u] \in {"idle"} \cup Adding
        /\ pc'[u] = "idle" => at'[u] = 1
    BY <1>2, <1>5, <2>1 DEF ConfigStep, AddCallback, SetLevel, SetLock, Reset, AddContext,
       AddLevel, AddMinimum, Go, IInv, Base, TypeOK, ProgressOf, Adding
  <2>3. shown'[u] = <<>>
    BY <1>2, <1>5, <2>1 DEF ConfigStep, AddCallback, SetLevel, SetLock, Reset, AddContext,
       AddLevel, AddMinimum, ProgressOf, Adding
  <2> QED
    BY <2>2, <2>3 DEF ProgressOf, Adding
<1> QED
  BY <1>3, <1>4, <1>5, Steps

-----------------------------------------------------------------------------
(* The theorems. *)

LEMMA Inductive == ASSUME ~AddLive PROVE Spec => []IInv
<1>1. Init => IInv
  <2> SUFFICES ASSUME Init PROVE IInv
    OBVIOUS
  <2>1. Exclusive /\ Progress
    BY DEF Init, Exclusive, Progress, ProgressOf
  <2>2. Registered /\ MinimumLow
    BY LoggerAssumption DEF Init, Registered, MinimumLow, Levels
  <2> QED
    BY <2>1, <2>2, BaseInit DEF IInv
<1>2. IInv /\ [Next]_vars => IInv'
  BY TypeStep, SlottedStep, ExclusiveStep, RegisteredStep, MinimumStep, ProgressStep
     DEF IInv, Base
<1> QED
  BY <1>1, <1>2, PTL DEF Spec

(* The logger's fields keep to their types, and no callback slot is used
   before an earlier one: liquid_logger_add_callback.                        *)
THEOREM TypeTheorem == Spec => []TypeOK
BY BaseHolds, PTL DEF Base

(* get_num_events() and liquid_exit() report every event, for any number of
   threads, although liquid_vlog() increments with a load and a store: also
   while callbacks are added, if a refused one is not reported to this logger. *)
THEOREM CountsTheorem == ASSUME NoneRefused PROVE Spec => []CountsExact
BY CountingHolds, PTL DEF Counting

(* liquid_vlog() sends an event to stdout and to exactly the callbacks that
   asked for it, each once, in the order in which they were added.           *)
THEOREM DeliveredTheorem == ASSUME ~AddLive PROVE Spec => []Delivered
<1>1. IInv => Delivered
  <2> SUFFICES ASSUME IInv, NEW t \in Threads, pc[t] = "callbacks", Over(t)
               PROVE  shown[t] = OnStdout(ev[t]) \o Asked(wanted, ev[t])[Len(wanted)]
    BY DEF Delivered
  <2>1. at[t] > Len(wanted) /\ at[t] \in Nat /\ Len(wanted) \in Nat
    BY SlotsLemma, Numbers DEF IInv, Base, SlotsCounted
  <2>2. at[t] \in 1..(Len(wanted) + 1)
    BY DEF IInv, Progress, ProgressOf
  <2>3. at[t] - 1 = Len(wanted)
    BY <2>1, <2>2
  <2> QED
    BY <2>3 DEF IInv, Progress, ProgressOf, Sees
<1> QED
  BY <1>1, Inductive, PTL

(* A callback is invoked with no event below its level, and its number is
   one of those that asked.                                                  *)
LEMMA ShownIsAsked ==
  ASSUME IInv, NEW t \in Threads, NEW j \in 1..Len(shown[t])
  PROVE  /\ pc[t] = "callbacks" /\ ev[t] \in Nat
         /\ \/ shown[t][j] = 0 /\ ev[t] >= level
            \/ shown[t][j] \in 1..Len(wanted) /\ ev[t] >= wanted[shown[t][j]]
<1>1. pc[t] = "callbacks" /\ ev[t] \in Levels /\ wanted \in Seq(Levels) /\ ev[t] \in Nat
  <2>1. shown[t] # <<>>
    OBVIOUS
  <2>2. pc[t] = "callbacks"
    BY <2>1 DEF IInv, Progress, ProgressOf, Sees
  <2> QED
    BY <2>2, LoggerAssumption DEF IInv, Base, TypeOK, Levels
<1> DEFINE a == Asked(wanted, ev[t])[at[t] - 1]
           o == OnStdout(ev[t])
<1>2. at[t] - 1 \in 0..Len(wanted) /\ shown[t] = o \o a
  <2>1. at[t] \in 1..(Len(wanted) + 1) /\ shown[t] = Sees(t, at[t] - 1)
    BY <1>1 DEF IInv, Progress, ProgressOf
  <2> QED
    BY <1>1, <2>1 DEF Sees
<1>3. a \in Seq(Nat) /\ \A i \in 1..Len(a) : a[i] \in 1..(at[t] - 1) /\ ev[t] >= wanted[a[i]]
  BY <1>1, <1>2, AskedIsSeq, AskedListens
<1>4. o \in Seq(Nat) /\ \A i \in 1..Len(o) : o[i] = 0 /\ ev[t] >= level
  BY DEF OnStdout
<1> HIDE DEF a, o
<1>5. CASE j <= Len(o)
  BY <1>1, <1>2, <1>3, <1>4, <1>5
<1>6. CASE j > Len(o)
  <2>1. j - Len(o) \in 1..Len(a) /\ shown[t][j] = a[j - Len(o)]
    BY <1>2, <1>3, <1>4, <1>6
  <2>2. Len(wanted) \in Nat
    BY <1>1
  <2> QED
    BY <1>1, <1>2, <1>3, <2>1, <2>2
<1> QED
  BY <1>4, <1>5, <1>6

(* The comparison with min_level, which liquid_vlog() makes to spare the
   formatting of a timestamp, never spares one that is shown.                *)
THEOREM StampedTheorem == ASSUME ~AddLive PROVE Spec => []Stamped
<1>1. IInv => Stamped
  <2> SUFFICES ASSUME IInv, NEW t \in Threads, shown[t] # <<>> PROVE stamped[t]
    BY DEF Stamped
  <2>1. shown[t] \in Seq(0..MaxCallbacks) /\ pc[t] = "callbacks"
    BY DEF IInv, Base, TypeOK, Progress, ProgressOf
  <2>2. 1 \in 1..Len(shown[t])
    BY <2>1
  <2>3. \/ ev[t] >= level
        \/ \E i \in 1..Len(wanted) : ev[t] >= wanted[i]
    BY <2>2, ShownIsAsked
  <2>4. ~BeingAdded(Adding)
    BY <2>1 DEF IInv, Exclusive, BeingAdded, Adding, Logging
  <2>5. min_level <= level /\ \A i \in 1..Len(wanted) : min_level <= wanted[i]
    BY <2>4 DEF IInv, MinimumLow, Settled
  <2>6. /\ ev[t] \in Nat /\ level \in Nat /\ min_level \in Nat
        /\ \A i \in 1..Len(wanted) : wanted[i] \in Nat
    BY Numbers DEF IInv, Base
  <2>7. ev[t] >= min_level
    BY <2>3, <2>5, <2>6
  <2> QED
    BY <2>1, <2>7 DEF IInv, Progress, ProgressOf, Sees
<1> QED
  BY <1>1, Inductive, PTL

(* What LIQUID_LOGGER's documentation promises of a callback's level, and
   what fails when callbacks are added while others log, holds otherwise.    *)
THEOREM MinimumLevelTheorem == ASSUME ~AddLive PROVE Spec => []MinimumLevel
<1>1. IInv => MinimumLevel
  <2> SUFFICES ASSUME IInv, NEW t \in Threads, NEW j \in 1..Len(shown[t]),
                      shown[t][j] \in 1..MaxCallbacks
               PROVE  ev[t] >= wanted[shown[t][j]]
    BY DEF MinimumLevel
  <2> QED
    BY ShownIsAsked
<1> QED
  BY <1>1, Inductive, PTL
-----------------------------------------------------------------------------
(* What CallsReturn needs beside fairness: a mutex that is not free is held by
   a thread inside, and each step of a thread brings its call nearer the end.  *)

HolderInside == owner # NoThread => owner \in Threads /\ pc[owner] \in Locked

Left(t) ==
  CASE pc[t] = "idle" -> 0
    [] pc[t] = "lock" -> MaxCallbacks + 6
    [] pc[t] = "count" -> MaxCallbacks + 5
    [] pc[t] = "counted" -> MaxCallbacks + 4
    [] pc[t] = "stamp" -> MaxCallbacks + 3
    [] pc[t] = "stdout" -> MaxCallbacks + 2
    [] pc[t] = "callbacks" -> MaxCallbacks + 2 - at[t]
    [] pc[t] = "context" -> 3
    [] pc[t] = "level" -> 2
    [] pc[t] = "minimum" -> 1
Shortens(t) == pc[t] # "idle" => Left(t)' <= Left(t) /\ (Work(t) => Left(t)' < Left(t))
CallsShorten == [][\A t \in Threads : Shortens(t)]_vars

(* No thread leaves the logger with the application's mutex. *)
THEOREM HolderTheorem == Spec => []HolderInside
<1>1. Base /\ Held => HolderInside
  BY DEF Base, TypeOK, Held, HolderInside
<1> QED
  BY <1>1, BaseHolds, HeldHolds, PTL

(* A call of liquid_log() takes at most MaxCallbacks + 6 steps of its own
   thread, one of add_callback() three, and no other thread's step makes it
   longer, also when a callback is added meanwhile.                          *)
THEOREM ShortenTheorem == Spec => CallsShorten
<1>1. Base /\ [Next]_vars => [\A t \in Threads : Shortens(t)]_vars
  <2> SUFFICES ASSUME Base, Next, NEW u \in Threads, pc[u] # "idle"
               PROVE  Left(u)' <= Left(u) /\ (Work(u) => Left(u)' < Left(u))
    BY DEF Shortens
  <2>1. /\ pc \in [Threads -> {"idle"} \cup Logging \cup Adding]
        /\ at \in [Threads -> 1..MaxCallbacks + 1]
        /\ MaxCallbacks \in Nat /\ at[u] \in 1..MaxCallbacks + 1 /\ at[u] \in Nat
    BY LoggerAssumption DEF Base, TypeOK
  <2>2. Left(u) \in Nat
    BY <2>1 DEF Left, Logging, Adding
  <2>3. ASSUME NEW t \in Threads, t # u, LogStep(t) \/ ConfigStep(t)
        PROVE  Left(u)' = Left(u)
    <3>1. pc'[u] = pc[u] /\ at'[u] = at[u]
      <4>1. CASE LogStep(t)
        BY <2>3, <4>1, LogStepFrame DEF Base
      <4>2. CASE ConfigStep(t)
        BY <2>1, <2>3, <4>2, Zenon DEF ConfigStep, AddCallback, SetLevel, SetLock, Reset,
           AddContext, AddLevel, AddMinimum, Go
      <4> QED
        BY <2>3, <4>1, <4>2
    <3> QED
      BY <3>1 DEF Left
  <2>4. ASSUME Work(u) PROVE Left(u)' \in Int /\ Left(u)' < Left(u)
    <3>1. CASE Lock(u)
      BY <2>1, <3>1 DEF Lock, Go, Left
    <3>2. CASE Count(u)
      BY <2>1, <3>2 DEF Count, Go, Left
    <3>3. CASE Counted(u)
      BY <2>1, <3>3 DEF Counted, Go, Left
    <3>4. CASE Stamp(u)
      BY <2>1, <3>4 DEF Stamp, Go, Left
    <3>5. CASE Stdout(u)
      <4>1. pc[u] = "stdout" /\ pc'[u] = "callbacks" /\ at'[u] = at[u]
        BY <2>1, <3>5 DEF Stdout, Go
      <4> QED
        BY <2>1, <4>1 DEF Left
    <3>6. CASE Invoke(u)
      <4>1. /\ pc[u] = "callbacks" /\ pc'[u] = "callbacks" /\ at'[u] = at[u] + 1
        BY <2>1, <3>6 DEF Invoke
      <4> QED
        BY <2>1, <4>1 DEF Left
    <3>7. CASE Unlock(u)
      <4>1. pc[u] = "callbacks" /\ pc'[u] = "idle"
        BY <2>1, <3>7 DEF Unlock, Go
      <4> QED
        BY <2>1, <4>1 DEF Left
    <3>8. CASE AddContext(u)
      <4>1. pc[u] = "context" /\ pc'[u] = "level"
        BY <2>1, <3>8 DEF AddContext, Go
      <4> QED
        BY <2>1, <4>1 DEF Left
    <3>9. CASE AddLevel(u)
      <4>1. pc[u] = "level" /\ pc'[u] = "minimum"
        BY <2>1, <3>9 DEF AddLevel, Go
      <4> QED
        BY <2>1, <4>1 DEF Left
    <3>10. CASE AddMinimum(u)
      <4>1. pc[u] = "minimum" /\ pc'[u] = "idle"
        BY <2>1, <3>10 DEF AddMinimum, Go
      <4> QED
        BY <2>1, <4>1 DEF Left
    <3> QED
      BY <2>4, <3>1, <3>2, <3>3, <3>4, <3>5, <3>6, <3>7, <3>8, <3>9, <3>10 DEF Work
  <2>5. ASSUME LogStep(u) \/ ConfigStep(u) PROVE Work(u)
    BY <2>5 DEF LogStep, ConfigStep, Log, AddRefused, AddCallback, SetLevel, SetLock, Reset,
       Go, Work
  <2>6. ASSUME NEW t \in Threads, LogStep(t) \/ ConfigStep(t)
        PROVE  Left(u)' <= Left(u) /\ (Work(u) => Left(u)' < Left(u))
    <3>1. CASE t = u
      <4>1. Left(u)' \in Int /\ Left(u)' < Left(u)
        BY <2>4, <2>5, <2>6, <3>1
      <4> QED
        BY <2>2, <4>1
    <3>2. CASE t # u
      <4>1. Left(u)' = Left(u)
        BY <2>3, <2>6, <3>2
      <4> QED
        BY <2>2, <2>4, <4>1
    <3> QED
      BY <3>1, <3>2
  <2> QED
    BY <2>6, Steps
<1> QED
  BY <1>1, BaseHolds, PTL DEF Spec, CallsShorten
=============================================================================

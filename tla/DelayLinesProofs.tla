--------------------------- MODULE DelayLinesProofs ---------------------------
(***************************************************************************)
(* For every set of samples, of lengths and of batches: the window, the     *)
(* delay buffer and the fractional delay hold the same line, and the window *)
(* is the delay line that DelayLine promises.                               *)
(***************************************************************************)
EXTENDS DelayLines, SequenceTheorems, WellFoundedInduction, TLAPS

(* Lengths of windows: the owner's, and what a fractional delay needs. *)
WindowLengths == Lengths \cup {MaxDelay + 1}
Depth(len) == Min({len - 1, MaxDelay})

(* The three objects, with every index inside its allocation. *)
Windows(len) ==
  [len : {len}, n : {W!Ring(len)}, read_index : 0..(W!Ring(len) - 1),
   v : [0..(W!Ring(len) + len - 2) -> Values]]
Buffers(delay) == [delay : {delay}, read_index : 0..delay, v : [0..delay -> Values]]
Delays(nmax) ==
  [nmax : {nmax}, delay : 0..(nmax * Grid), w_index : 0..nmax, f_index : 0..(npfb - 1),
   v : Values, w : Windows(nmax + 1)]

(* The delay that the indices make, against the delay that is told. *)
Tuned(q) ==
  LET age == q.nmax - q.w_index
      error == npfb * q.delay - Grid * (npfb * age - q.f_index)
  IN  2 * error \in (-Grid)..Grid

(* The samples the fractional delay holds are the window's newest. *)
Follows(q) ==
  \A j \in 1..(q.nmax + 1) :
    W!read(q.w)[j] = W!read(window)[window.len - (q.nmax + 1) + j]

Whole == window.len \in Lengths /\ window \in Windows(window.len)
Buffered ==
  wdelay \in Buffers(window.len - 1) /\ D!Realigned(wdelay) = W!read(window)
Delayed ==
  /\ window.len = 1 => fdelay = NoDelay /\ choice = "none"
  /\ window.len > 1 =>
       /\ fdelay \in Delays(Depth(window.len)) /\ Follows(fdelay)
       /\ choice # "none" => Tuned(fdelay)
       /\ choice = "used" => fdelay.v = W!read(fdelay.w)[fdelay.w_index + 1]
  /\ choice \in {"none", "chosen", "used"}

IInv == Whole /\ Buffered /\ Delayed

-----------------------------------------------------------------------------
(* Sequences and loops. *)

(* The induction that the loops of the model call for. *)
LEMMA SetInduction ==
  ASSUME NEW S, 0 \in S, \A n \in Nat : n \in S => n + 1 \in S
  PROVE  \A n \in Nat : n \in S
<1> SUFFICES ASSUME NEW k \in Nat, k \notin S PROVE FALSE
  OBVIOUS
<1> DEFINE T == {n \in Nat : n \notin S}
<1>1. PICK m \in T : \A y \in T : ~(<<y, m>> \in OpToRel(<, Nat))
  <2>1. T \subseteq Nat /\ T # {}
    OBVIOUS
  <2> HIDE DEF T
  <2> QED
    BY <2>1, NatLessThanWellFounded, WFMin
<1>2. \A y \in T : ~(y < m)
  BY <1>1 DEF OpToRel
<1>3. m # 0 /\ m - 1 \in Nat
  OBVIOUS
<1>4. m - 1 \in S
  BY <1>2, <1>3
<1> QED
  BY <1>3, <1>4

(* A line of len samples s after the samples b were pushed. *)
Behind(len, s, b) ==
  [j \in 1..len |-> IF j + Len(b) <= len THEN s[j + Len(b)] ELSE b[j + Len(b) - len]]

(* "after" is what a loop over b leaves after each turn of op. *)
Loop(after, S, op, q, b) ==
  /\ q \in S /\ b \in Seq(Values) /\ after[0] = q
  /\ \A i \in 1..Len(b) : after[i - 1] \in S => after[i] = op[<<after[i - 1], b[i]>>]

(* op pushes one sample into an object, which holds len of them. *)
Shifts(S, len, op, held) ==
  /\ len \in Nat \ {0}
  /\ op \in [S \X Values -> S] /\ held \in [S -> [1..len -> Values]]
  /\ \A s \in S, x \in Values : \A j \in 1..len :
       held[op[<<s, x>>]][j] = IF j < len THEN held[s][j + 1] ELSE x

(* A loop that pushes samples into an object has an outcome... *)
LEMMA LoopExists ==
  ASSUME NEW S, NEW op \in [S \X Values -> S], NEW q \in S, NEW b \in Seq(Values)
  PROVE  \E f \in [0..Len(b) -> S] : Loop(f, S, op, q, b)
<1> DEFINE Upto(f, m) == f[0] = q /\ \A i \in 1..m : f[i] = op[<<f[i - 1], b[i]>>]
           P == {m \in Nat : m <= Len(b) => \E f \in [0..m -> S] : Upto(f, m)}
<1>1. 0 \in P
  <2>1. [i \in 0..0 |-> q] \in [0..0 -> S] /\ Upto([i \in 0..0 |-> q], 0)
    OBVIOUS
  <2> QED
    BY <2>1
<1>2. ASSUME NEW m \in Nat, m \in P PROVE m + 1 \in P
  <2> SUFFICES ASSUME m + 1 <= Len(b) PROVE \E f \in [0..(m + 1) -> S] : Upto(f, m + 1)
    OBVIOUS
  <2>1. PICK f \in [0..m -> S] : Upto(f, m)
    BY <1>2
  <2> DEFINE g == [i \in 0..(m + 1) |-> IF i <= m THEN f[i] ELSE op[<<f[m], b[m + 1]>>]]
  <2>2. op[<<f[m], b[m + 1]>>] \in S
    <3>1. f[m] \in S /\ b[m + 1] \in Values
      OBVIOUS
    <3> QED
      BY <3>1
  <2>3. g \in [0..(m + 1) -> S]
    BY <2>2
  <2>4. g[0] = q
    BY <2>1
  <2>5. ASSUME NEW i \in 1..(m + 1) PROVE g[i] = op[<<g[i - 1], b[i]>>]
    <3>1. CASE i <= m
      <4>1. i \in 1..m /\ i - 1 \in 0..m
        BY <3>1
      <4>2. g[i] = f[i] /\ g[i - 1] = f[i - 1]
        BY <4>1
      <4> QED
        BY <2>1, <4>1, <4>2
    <3>2. CASE i = m + 1
      <4>1. m \in 0..(m + 1) /\ m + 1 \in 0..(m + 1) /\ ~(m + 1 <= m) /\ (m + 1) - 1 = m
        OBVIOUS
      <4>2. g[m + 1] = op[<<f[m], b[m + 1]>>] /\ g[m] = f[m]
        BY <4>1
      <4> HIDE DEF g
      <4> QED
        BY <3>2, <4>1, <4>2
    <3> QED
      BY <3>1, <3>2
  <2> HIDE DEF g
  <2> QED
    BY <2>3, <2>4, <2>5
<1>3. Len(b) \in P
  <2> HIDE DEF P
  <2> QED
    BY <1>1, <1>2, SetInduction
<1> QED
  BY <1>3 DEF Loop

(* ... and, when each push moves what the object holds by one, the object
   holds the newest samples afterwards.                                      *)
LEMMA LoopShifts ==
  ASSUME NEW S, NEW len, NEW op, NEW held, NEW q, NEW b, NEW after,
         Shifts(S, len, op, held), Loop(after, S, op, q, b)
  PROVE  /\ after[Len(b)] \in S /\ held[after[Len(b)]] = Behind(len, held[q], b)
         /\ b # <<>> => \E s \in S, x \in Values : after[Len(b)] = op[<<s, x>>]
<1> USE DEF Shifts
<1> b \in Seq(Values) /\ q \in S
  BY DEF Loop
<1> DEFINE At(i) == /\ after[i] \in S
                    /\ \A j \in 1..len : held[after[i]][j] =
                         IF j + i <= len THEN held[q][j + i] ELSE b[j + i - len]
           P == {i \in Nat : i <= Len(b) => At(i)}
<1>1. 0 \in P
  BY DEF Loop
<1>2. ASSUME NEW i \in Nat, i \in P PROVE i + 1 \in P
  <2> SUFFICES ASSUME i + 1 <= Len(b) PROVE At(i + 1)
    OBVIOUS
  <2>1. At(i)
    BY <1>2
  <2>2. after[i + 1] = op[<<after[i], b[i + 1]>>] /\ b[i + 1] \in Values
    <3>1. i + 1 \in 1..Len(b) /\ (i + 1) - 1 = i
      OBVIOUS
    <3> QED
      BY <2>1, <3>1 DEF Loop
  <2>3. after[i + 1] \in S
    BY <2>1, <2>2
  <2>4. ASSUME NEW j \in 1..len
        PROVE  held[after[i + 1]][j] =
                 IF j + (i + 1) <= len THEN held[q][j + (i + 1)] ELSE b[j + (i + 1) - len]
    <3>1. held[after[i + 1]][j] = IF j < len THEN held[after[i]][j + 1] ELSE b[i + 1]
      BY <2>1, <2>2
    <3>2. CASE j < len
      <4>1. j + 1 \in 1..len
        BY <3>2
      <4>2. held[after[i]][j + 1] =
              IF (j + 1) + i <= len THEN held[q][(j + 1) + i] ELSE b[(j + 1) + i - len]
        BY <2>1, <4>1
      <4>3. (j + 1) + i = j + (i + 1)
        OBVIOUS
      <4> QED
        BY <3>1, <3>2, <4>2, <4>3
    <3>3. CASE j = len
      <4>1. ~(j + (i + 1) <= len) /\ j + (i + 1) - len = i + 1
        BY <3>3
      <4> QED
        BY <3>1, <3>3, <4>1
    <3> QED
      BY <3>2, <3>3
  <2> QED
    BY <2>3, <2>4
<1>3. \A i \in Nat : i \in P
  <2> HIDE DEF P
  <2> QED
    BY <1>1, <1>2, SetInduction
<1>4. At(Len(b))
  <2>1. Len(b) \in Nat /\ Len(b) <= Len(b)
    OBVIOUS
  <2>2. Len(b) \in P
    BY <1>3, <2>1
  <2> HIDE DEF At
  <2> QED
    BY <2>1, <2>2
<1>5. held[after[Len(b)]] = Behind(len, held[q], b)
  <2>1. held[after[Len(b)]] \in [1..len -> Values]
    BY <1>4
  <2> QED
    BY <1>4, <2>1 DEF Behind
<1>6. ASSUME b # <<>> PROVE \E s \in S, x \in Values : after[Len(b)] = op[<<s, x>>]
  <2>1. Len(b) \in Nat /\ Len(b) # 0
    BY <1>6
  <2>2. At(Len(b) - 1)
    <3>1. Len(b) - 1 \in Nat /\ Len(b) - 1 <= Len(b)
      BY <2>1
    <3> QED
      BY <1>3, <3>1
  <2>3. Len(b) \in 1..Len(b)
    BY <2>1
  <2>4. after[Len(b)] = op[<<after[Len(b) - 1], b[Len(b)]>>] /\ b[Len(b)] \in Values
    BY <2>2, <2>3 DEF Loop
  <2> QED
    BY <2>2, <2>4
<1> QED
  BY <1>4, <1>5, <1>6

-----------------------------------------------------------------------------
(* The window. *)

LEMMA Sizes ==
  /\ npfb \in Nat \ {0} /\ Grid \in Nat \ {0} /\ MaxDelay \in Nat \ {0}
  /\ Zero \in Values /\ WindowLengths \subseteq Nat \ {0} /\ Lengths \subseteq WindowLengths
<1>1. MaxDelay \in Nat \ {0} /\ MaxDelay + 1 \in Nat \ {0}
  BY LineAssumption
<1> QED
  BY <1>1, LineAssumption DEF WindowLengths

(* The ring is longer than the window. *)
LEMMA RingIs ==
  ASSUME NEW len \in WindowLengths
  PROVE  /\ len \in Nat \ {0}
         /\ W!Ring(len) \in Nat /\ W!Ring(len) > len
<1> DEFINE M == CHOOSE m \in 0..MaxBits : 2 ^ m > len /\ 2 ^ m <= 2 * len
<1>1. len \in Nat \ {0}
  BY Sizes
<1>2. \E m \in 0..MaxBits : 2 ^ m > len /\ 2 ^ m <= 2 * len
  BY LineAssumption DEF WindowLengths
<1>3. M \in 0..MaxBits /\ 2 ^ M > len /\ 2 ^ M <= 2 * len
  BY <1>2
<1>4. M \in Nat
  BY <1>3, LineAssumption
<1>5. W!Ring(len) = 2 ^ M
  BY DEF W!Ring
<1> HIDE DEF M
<1>6. 2 ^ M \in Int
  BY <1>4
<1> QED
  BY <1>1, <1>3, <1>5, <1>6

LEMMA WindowIs ==
  ASSUME NEW len \in WindowLengths, NEW q \in Windows(len)
  PROVE  /\ q.len = len /\ q.n = W!Ring(len) /\ q.read_index \in 0..(W!Ring(len) - 1)
         /\ q.v \in [0..(W!Ring(len) + len - 2) -> Values]
         /\ W!read(q) \in [1..len -> Values]
<1>1. /\ q.len = len /\ q.n = W!Ring(len) /\ q.read_index \in 0..(W!Ring(len) - 1)
      /\ q.v \in [0..(W!Ring(len) + len - 2) -> Values]
  BY DEF Windows
<1>2. len \in Nat \ {0} /\ W!Ring(len) \in Nat
  BY RingIs
<1>3. ASSUME NEW i \in 1..len
      PROVE  q.read_index + i - 1 \in 0..(W!Ring(len) + len - 2)
  BY <1>1, <1>2
<1> QED
  BY <1>1, <1>3 DEF W!read

LEMMA WindowMade ==
  ASSUME NEW len, NEW n, NEW r, NEW v,
         n = W!Ring(len), r \in 0..(W!Ring(len) - 1),
         v \in [0..(W!Ring(len) + len - 2) -> Values]
  PROVE  [len |-> len, n |-> n, read_index |-> r, v |-> v] \in Windows(len)
BY DEF Windows

LEMMA WindowCreate ==
  ASSUME NEW len \in WindowLengths
  PROVE  /\ W!create(len) \in Windows(len)
         /\ W!read(W!create(len)) = [j \in 1..len |-> Zero]
<1>1. len \in Nat \ {0} /\ W!Ring(len) \in Nat /\ W!Ring(len) > len
  BY RingIs
<1>2. W!create(len) \in Windows(len)
  <2>1. 0 \in 0..(W!Ring(len) - 1)
    BY <1>1
  <2>2. [c \in 0..(W!Ring(len) + len - 2) |-> Zero] \in [0..(W!Ring(len) + len - 2) -> Values]
    BY Sizes
  <2> QED
    BY <2>1, <2>2, WindowMade DEF W!create
<1>3. ASSUME NEW j \in 1..len PROVE 0 + j - 1 \in 0..(W!Ring(len) + len - 2)
  BY <1>1
<1>4. W!read(W!create(len)) = [j \in 1..len |-> W!create(len).v[0 + j - 1]]
  BY DEF W!read, W!create
<1>5. ASSUME NEW j \in 1..len PROVE W!create(len).v[0 + j - 1] = Zero
  BY <1>3 DEF W!create
<1> QED
  BY <1>2, <1>4, <1>5

LEMMA WindowReset ==
  ASSUME NEW len \in WindowLengths, NEW q \in Windows(len)
  PROVE  /\ W!reset(q) \in Windows(len)
         /\ W!read(W!reset(q)) = [j \in 1..len |-> Zero]
<1> DEFINE zeros == [c \in 0..(W!Ring(len) + len - 2) |-> Zero]
<1>1. len \in Nat \ {0} /\ W!Ring(len) \in Nat /\ W!Ring(len) > len
  BY RingIs
<1>2. W!reset(q) = [q EXCEPT !.read_index = 0, !.v = zeros]
  <2>1. DOMAIN q.v = 0..(W!Ring(len) + len - 2)
    BY DEF Windows
  <2> QED
    BY <2>1 DEF W!reset
<1>3. 0 \in 0..(W!Ring(len) - 1) /\ zeros \in [0..(W!Ring(len) + len - 2) -> Values]
  BY <1>1, Sizes
<1>4. ASSUME NEW j \in 1..len PROVE zeros[0 + j - 1] = Zero
  BY <1>1
<1> HIDE DEF zeros
<1>5. /\ W!reset(q) \in Windows(len) /\ W!reset(q).len = len
      /\ W!reset(q).read_index = 0 /\ W!reset(q).v = zeros
  BY <1>2, <1>3 DEF Windows
<1> QED
  BY <1>4, <1>5 DEF W!read

(* One sample moves the window by one, also where the ring starts again. *)
LEMMA WindowPush ==
  ASSUME NEW len \in WindowLengths, NEW q \in Windows(len), NEW x \in Values
  PROVE  /\ W!push(q, x) \in Windows(len)
         /\ \A j \in 1..len :
              W!read(W!push(q, x))[j] = IF j < len THEN W!read(q)[j + 1] ELSE x
<1> DEFINE n == W!Ring(len)
           r == W!NextIndex(q)
           u == IF r = 0 THEN W!Carried(q) ELSE q.v
           v == [u EXCEPT ![r + len - 1] = x]
<1>1. /\ q.len = len /\ q.n = n /\ q.read_index \in 0..(n - 1)
      /\ q.v \in [0..(n + len - 2) -> Values]
  BY WindowIs
<1>2. len \in Nat \ {0} /\ n \in Nat /\ n > len
  BY RingIs
<1>4. W!push(q, x) = [q EXCEPT !.read_index = r, !.v = v]
  BY <1>1 DEF W!push
<1>5. \/ q.read_index < n - 1 /\ r = q.read_index + 1
      \/ q.read_index = n - 1 /\ r = 0
  <2>1. r = (q.read_index + 1) % n
    BY <1>1 DEF W!NextIndex
  <2> HIDE DEF r, n
  <2>2. CASE q.read_index < n - 1
    <3>1. (q.read_index + 1) % n = q.read_index + 1
      BY <1>1, <1>2, <2>2
    <3> QED
      BY <2>1, <2>2, <3>1
  <2>3. CASE q.read_index = n - 1
    <3>1. (q.read_index + 1) % n = 0
      BY <1>1, <1>2, <2>3
    <3> QED
      BY <2>1, <2>3, <3>1
  <2> QED
    BY <1>1, <1>2, <2>2, <2>3
<1>6. /\ u \in [0..(n + len - 2) -> Values]
      /\ r = 0 => \A c \in 0..(len - 2) : u[c] = q.v[c + n]
      /\ r # 0 => u = q.v
  <2>1. CASE r = 0
    <3>1. W!Carried(q) = [c \in 0..(n + len - 2) |->
                            IF c < len - 1 THEN q.v[c + n] ELSE q.v[c]]
      BY <1>1 DEF W!Carried
    <3> HIDE DEF r, n
    <3>2. ASSUME NEW c \in 0..(n + len - 2), c < len - 1 PROVE c + n \in 0..(n + len - 2)
      BY <1>2, <3>2
    <3>3. \A c \in 0..(len - 2) : c \in 0..(n + len - 2) /\ c < len - 1
      BY <1>2
    <3>4. W!Carried(q) \in [0..(n + len - 2) -> Values]
      BY <1>1, <3>1, <3>2
    <3> QED
      BY <2>1, <3>1, <3>3, <3>4
  <2>2. CASE r # 0
    BY <1>1, <2>2
  <2> QED
    BY <2>1, <2>2
<1> HIDE DEF n, r, u
<1>7. r \in 0..(n - 1) /\ r + len - 1 \in 0..(n + len - 2)
  BY <1>1, <1>2, <1>5
<1>8. v \in [0..(n + len - 2) -> Values]
  BY <1>6, <1>7
<1>9. /\ W!push(q, x) \in Windows(len) /\ W!push(q, x).len = len
      /\ W!push(q, x).read_index = r /\ W!push(q, x).v = v
  <2> HIDE DEF v
  <2> QED
    BY <1>4, <1>7, <1>8 DEF Windows, n
<1>10. ASSUME NEW j \in 1..len
       PROVE  W!read(W!push(q, x))[j] = IF j < len THEN W!read(q)[j + 1] ELSE x
  <2>1. W!read(W!push(q, x))[j] = v[r + j - 1]
    <3> HIDE DEF v
    <3> QED
      BY <1>9 DEF W!read
  <2>2. CASE j = len
    BY <1>6, <1>7, <2>1, <2>2
  <2>3. CASE j < len
    <3>1. j + 1 \in 1..len /\ r + j - 1 \in 0..(n + len - 2) /\ r + j - 1 # r + len - 1
      BY <1>2, <1>7, <2>3
    <3>2. v[r + j - 1] = u[r + j - 1]
      BY <1>6, <3>1
    <3>3. W!read(q)[j + 1] = q.v[q.read_index + (j + 1) - 1]
      BY <1>1, <3>1 DEF W!read
    <3>4. CASE r = 0
      <4>1. j - 1 \in 0..(len - 2) /\ r + j - 1 = j - 1
            /\ (j - 1) + n = q.read_index + (j + 1) - 1
        BY <1>1, <1>2, <1>5, <2>3, <3>4
      <4> QED
        BY <1>6, <2>1, <2>3, <3>2, <3>3, <3>4, <4>1
    <3>5. CASE r # 0
      <4>1. r + j - 1 = q.read_index + (j + 1) - 1
        BY <1>1, <1>5, <3>5
      <4> QED
        BY <1>6, <2>1, <2>3, <3>2, <3>3, <3>5, <4>1
    <3> QED
      BY <3>4, <3>5
  <2>4. j = len \/ j < len
    BY <1>2
  <2> QED
    BY <2>2, <2>3, <2>4
<1> QED
  BY <1>9, <1>10

(* What write() does to any window. *)
LEMMA WindowWrite ==
  ASSUME NEW len \in WindowLengths, NEW q \in Windows(len), NEW b \in Seq(Values)
  PROVE  /\ W!write(q, b) \in Windows(len)
         /\ W!read(W!write(q, b)) = Behind(len, W!read(q), b)
<1> DEFINE S == Windows(len)
           op == [p \in S \X Values |-> W!push(p[1], p[2])]
           held == [s \in S |-> W!read(s)]
           Turns(f) == [i \in 0..Len(b) |-> IF i = 0 THEN q ELSE W!push(f[i - 1], b[i])]
           after == CHOOSE f : f = Turns(f)
<1>1. \A s \in S, x \in Values :
        W!push(s, x) \in S /\ op[<<s, x>>] = W!push(s, x)
  BY WindowPush
<1>2. op \in [S \X Values -> S]
  BY WindowPush
<1>3. held \in [S -> [1..len -> Values]]
  BY WindowIs
<1>4. \A s \in S, x \in Values : \A j \in 1..len :
        held[op[<<s, x>>]][j] = IF j < len THEN held[s][j + 1] ELSE x
  BY <1>1, WindowPush
<1>5. W!write(q, b) = after[Len(b)]
  BY DEF W!write
<1>6. len \in Nat \ {0}
  BY RingIs
<1>7. held[q] = W!read(q)
  OBVIOUS
<1> HIDE DEF S, op, held
<1>8. PICK f \in [0..Len(b) -> S] : Loop(f, S, op, q, b)
  BY <1>2, LoopExists DEF S
<1>9. ASSUME NEW i \in 1..Len(b)
      PROVE  i - 1 \in 0..Len(b) /\ i \in 0..Len(b) /\ i # 0 /\ b[i] \in Values
  OBVIOUS
<1>10. f = Turns(f)
  <2>1. ASSUME NEW i \in 0..Len(b)
        PROVE  f[i] = IF i = 0 THEN q ELSE W!push(f[i - 1], b[i])
    <3>1. CASE i = 0
      BY <1>8, <3>1 DEF Loop
    <3>2. CASE i \in 1..Len(b)
      BY <1>1, <1>8, <1>9, <3>2 DEF Loop
    <3> QED
      BY <3>1, <3>2
  <2> QED
    BY <2>1
<1>11. after = Turns(after)
  <2>1. \E g : g = Turns(g)
    BY <1>10
  <2> HIDE DEF Turns
  <2> QED
    BY <2>1
<1> HIDE DEF after
<1>12. after[0] = q /\ \A i \in 1..Len(b) : after[i] = W!push(after[i - 1], b[i])
  BY <1>9, <1>11
<1>13. q \in S
  BY DEF S
<1>14. Loop(after, S, op, q, b)
  BY <1>1, <1>9, <1>12, <1>13 DEF Loop
<1>15. Shifts(S, len, op, held)
  BY <1>2, <1>3, <1>4, <1>6 DEF Shifts
<1>16. after[Len(b)] \in S /\ held[after[Len(b)]] = Behind(len, held[q], b)
  BY <1>14, <1>15, LoopShifts
<1> QED
  BY <1>5, <1>7, <1>16 DEF S, held

-----------------------------------------------------------------------------
(* The delay buffer. *)

LEMMA OnceAround ==
  ASSUME NEW n \in Nat \ {0}, NEW a \in 0..(2 * n - 1)
  PROVE  a % n = IF a < n THEN a ELSE a - n
<1>1. CASE a < n
  BY <1>1
<1>2. CASE a >= n
  BY <1>2
<1> QED
  BY <1>1, <1>2

(* Where a cell lies in the ring. *)
Cell(delay, r, j) == IF j - 1 + r <= delay THEN j - 1 + r ELSE j - 1 + r - (delay + 1)

LEMMA BufferIs ==
  ASSUME NEW delay \in Nat, NEW q \in Buffers(delay)
  PROVE  /\ q.delay = delay /\ q.read_index \in 0..delay /\ q.v \in [0..delay -> Values]
         /\ D!Realigned(q) \in [1..(delay + 1) -> Values]
         /\ \A j \in 1..(delay + 1) :
              /\ Cell(delay, q.read_index, j) \in 0..delay
              /\ D!Realigned(q)[j] = q.v[Cell(delay, q.read_index, j)]
<1>1. q.delay = delay /\ q.read_index \in 0..delay /\ q.v \in [0..delay -> Values]
  BY DEF Buffers
<1>2. ASSUME NEW j \in 1..(delay + 1)
      PROVE  /\ (j - 1 + q.read_index) % (delay + 1) \in 0..delay
             /\ (j - 1 + q.read_index) % (delay + 1) = Cell(delay, q.read_index, j)
  <2> DEFINE n == delay + 1
             a == j - 1 + q.read_index
  <2>1. n \in Nat \ {0} /\ a \in 0..(2 * n - 1)
    BY <1>1
  <2>2. n = delay + 1
    OBVIOUS
  <2> HIDE DEF n, a
  <2>3. a % n = IF a < n THEN a ELSE a - n
    BY <2>1, OnceAround
  <2>4. /\ a % n \in 0..delay
        /\ a % n = IF a <= delay THEN a ELSE a - (delay + 1)
    BY <2>1, <2>2, <2>3
  <2> QED
    BY <1>1, <2>4 DEF n, a, Cell
<1>3. D!Realigned(q) = [j \in 1..(delay + 1) |-> q.v[Cell(delay, q.read_index, j)]]
  BY <1>1, <1>2 DEF D!Realigned
<1>4. \A j \in 1..(delay + 1) : Cell(delay, q.read_index, j) \in 0..delay
  BY <1>2
<1> QED
  BY <1>1, <1>3, <1>4

LEMMA BufferCreate ==
  ASSUME NEW delay \in Nat
  PROVE  /\ D!create(delay) \in Buffers(delay)
         /\ D!Realigned(D!create(delay)) = [j \in 1..(delay + 1) |-> Zero]
<1>1. 0 \in 0..delay /\ [c \in 0..delay |-> Zero] \in [0..delay -> Values]
  BY Sizes
<1>2. D!create(delay) \in Buffers(delay)
  BY <1>1 DEF D!create, Buffers
<1>3. ASSUME NEW j \in 1..(delay + 1) PROVE D!Realigned(D!create(delay))[j] = Zero
  <2>1. /\ D!create(delay).read_index = 0
        /\ D!create(delay).v = [c \in 0..delay |-> Zero]
    BY DEF D!create
  <2>2. /\ Cell(delay, 0, j) \in 0..delay
        /\ D!Realigned(D!create(delay))[j] = D!create(delay).v[Cell(delay, 0, j)]
    BY <1>2, <2>1, BufferIs
  <2> QED
    BY <2>1, <2>2
<1> QED
  BY <1>2, <1>3, BufferIs

LEMMA BufferReset ==
  ASSUME NEW delay \in Nat, NEW q \in Buffers(delay)
  PROVE  /\ D!reset(q) \in Buffers(delay)
         /\ D!Realigned(D!reset(q)) = [j \in 1..(delay + 1) |-> Zero]
<1> DEFINE zeros == [c \in 0..delay |-> Zero]
<1>1. 0 \in 0..delay /\ zeros \in [0..delay -> Values]
  BY Sizes
<1>2. D!reset(q) = [q EXCEPT !.read_index = 0, !.v = zeros]
  <2>1. DOMAIN q.v = 0..delay
    BY DEF Buffers
  <2> QED
    BY <2>1 DEF D!reset
<1> HIDE DEF zeros
<1>3. D!reset(q) \in Buffers(delay) /\ D!reset(q).read_index = 0 /\ D!reset(q).v = zeros
  BY <1>1, <1>2 DEF Buffers
<1>4. ASSUME NEW j \in 1..(delay + 1) PROVE D!Realigned(D!reset(q))[j] = Zero
  <2>1. Cell(delay, 0, j) \in 0..delay /\ D!Realigned(D!reset(q))[j] = zeros[Cell(delay, 0, j)]
    BY <1>3, BufferIs
  <2> QED
    BY <2>1 DEF zeros
<1> QED
  BY <1>3, <1>4, BufferIs

(* What is read is the oldest of the cells. *)
LEMMA BufferRead ==
  ASSUME NEW delay \in Nat, NEW q \in Buffers(delay)
  PROVE  D!read(q) = D!Realigned(q)[1]
<1>1. 1 \in 1..(delay + 1) /\ q.read_index \in 0..delay
  BY DEF Buffers
<1>2. 1 - 1 + q.read_index <= delay /\ 1 - 1 + q.read_index = q.read_index
  BY <1>1
<1> QED
  BY <1>1, <1>2, BufferIs DEF D!read, Cell

LEMMA BufferPush ==
  ASSUME NEW delay \in Nat, NEW q \in Buffers(delay), NEW x \in Values
  PROVE  /\ D!push(q, x) \in Buffers(delay)
         /\ \A j \in 1..(delay + 1) :
              D!Realigned(D!push(q, x))[j] =
                IF j < delay + 1 THEN D!Realigned(q)[j + 1] ELSE x
<1> DEFINE v == [q.v EXCEPT ![q.read_index] = x]
           r == (q.read_index + 1) % (delay + 1)
           p == D!push(q, x)
<1>1. q.delay = delay /\ q.read_index \in 0..delay /\ q.v \in [0..delay -> Values]
  BY BufferIs
<1>2. r = IF q.read_index < delay THEN q.read_index + 1 ELSE 0
  <2> DEFINE n == delay + 1
             a == q.read_index + 1
  <2>1. n \in Nat \ {0} /\ a \in 0..(2 * n - 1) /\ r = a % n
    BY <1>1
  <2>2. n = delay + 1 /\ a = q.read_index + 1
    OBVIOUS
  <2> HIDE DEF n, a, r
  <2>3. a % n = IF a < n THEN a ELSE a - n
    BY <2>1, OnceAround
  <2> QED
    BY <1>1, <2>1, <2>2, <2>3
<1>3. v \in [0..delay -> Values]
  BY <1>1
<1>4. p = [q EXCEPT !.v = v, !.read_index = r]
  BY <1>1 DEF D!push
<1> HIDE DEF r
<1>5. r \in 0..delay
  BY <1>1, <1>2
<1>6. p \in Buffers(delay) /\ p.v = v /\ p.read_index = r
  <2> HIDE DEF v, p
  <2> QED
    BY <1>3, <1>4, <1>5 DEF Buffers
<1> HIDE DEF p
<1>7. ASSUME NEW j \in 1..(delay + 1)
      PROVE  D!Realigned(p)[j] = IF j < delay + 1 THEN D!Realigned(q)[j + 1] ELSE x
  <2> DEFINE c == Cell(delay, r, j)
             o == Cell(delay, q.read_index, j + 1)
  <2>1. D!Realigned(p)[j] = v[c] /\ c \in 0..delay
    BY <1>6, BufferIs
  <2>3. CASE j = delay + 1
    <3>1. c = q.read_index
      BY <1>1, <1>2, <2>3 DEF Cell
    <3> QED
      BY <1>1, <2>1, <2>3, <3>1
  <2>4. CASE j < delay + 1
    <3>1. j + 1 \in 1..(delay + 1)
      BY <1>1, <2>4
    <3>2. D!Realigned(q)[j + 1] = q.v[o]
      BY <3>1, BufferIs
    <3>3. c = o /\ c # q.read_index
      BY <1>1, <1>2, <2>4 DEF Cell
    <3> HIDE DEF c, o
    <3>4. v[c] = q.v[c]
      BY <1>1, <2>1, <3>3
    <3> QED
      BY <2>1, <2>4, <3>2, <3>3, <3>4
  <2>5. j = delay + 1 \/ j < delay + 1
    OBVIOUS
  <2> QED
    BY <2>3, <2>4, <2>5
<1> QED
  BY <1>6, <1>7 DEF p

LEMMA BufferPushes ==
  ASSUME NEW delay \in Nat, NEW q \in Buffers(delay), NEW b \in Seq(Values)
  PROVE  /\ D!pushes(q, b) \in Buffers(delay)
         /\ D!Realigned(D!pushes(q, b)) = Behind(delay + 1, D!Realigned(q), b)
<1> DEFINE S == Buffers(delay)
           len == delay + 1
           op == [p \in S \X Values |-> D!push(p[1], p[2])]
           held == [s \in S |-> D!Realigned(s)]
           Turns(f) == [i \in 0..Len(b) |-> IF i = 0 THEN q ELSE D!push(f[i - 1], b[i])]
           after == CHOOSE f : f = Turns(f)
<1>1. \A s \in S, x \in Values :
        D!push(s, x) \in S /\ op[<<s, x>>] = D!push(s, x)
  BY BufferPush
<1>2. Shifts(S, delay + 1, op, held)
  <2>1. op \in [S \X Values -> S]
    BY BufferPush
  <2>2. held \in [S -> [1..(delay + 1) -> Values]]
    BY BufferIs
  <2>3. \A s \in S, x \in Values : \A j \in 1..(delay + 1) :
          held[op[<<s, x>>]][j] = IF j < delay + 1 THEN held[s][j + 1] ELSE x
    BY <1>1, BufferPush
  <2>4. delay + 1 \in Nat \ {0}
    OBVIOUS
  <2> QED
    BY <2>1, <2>2, <2>3, <2>4 DEF Shifts
<1>3. D!pushes(q, b) = after[Len(b)]
  BY DEF D!pushes
<1>4. Shifts(S, len, op, held)
  BY <1>2
<1>5. q \in S
  OBVIOUS
<1>6. held[q] = D!Realigned(q)
  OBVIOUS
<1> HIDE DEF S, op, held, len
<1>7. PICK f \in [0..Len(b) -> S] : Loop(f, S, op, q, b)
  <2>1. op \in [S \X Values -> S]
    BY <1>2 DEF Shifts
  <2> QED
    BY <1>5, <2>1, LoopExists
<1>8. ASSUME NEW i \in 1..Len(b)
      PROVE  i - 1 \in 0..Len(b) /\ i \in 0..Len(b) /\ i # 0 /\ b[i] \in Values
  OBVIOUS
<1>9. f = Turns(f)
  <2>1. ASSUME NEW i \in 0..Len(b)
        PROVE  f[i] = IF i = 0 THEN q ELSE D!push(f[i - 1], b[i])
    <3>1. CASE i = 0
      BY <1>7, <3>1 DEF Loop
    <3>2. CASE i \in 1..Len(b)
      BY <1>1, <1>7, <1>8, <3>2 DEF Loop
    <3> QED
      BY <3>1, <3>2
  <2> QED
    BY <2>1
<1>10. after = Turns(after)
  <2>1. \E g : g = Turns(g)
    BY <1>9
  <2> HIDE DEF Turns
  <2> QED
    BY <2>1
<1> HIDE DEF after
<1>11. after[0] = q /\ \A i \in 1..Len(b) : after[i] = D!push(after[i - 1], b[i])
  BY <1>8, <1>10
<1>12. Loop(after, S, op, q, b)
  BY <1>1, <1>5, <1>8, <1>11 DEF Loop
<1>13. after[Len(b)] \in S /\ held[after[Len(b)]] = Behind(len, held[q], b)
  BY <1>4, <1>12, LoopShifts
<1> QED
  BY <1>3, <1>6, <1>13 DEF S, held, len

-----------------------------------------------------------------------------
(* The fractional delay. *)

(* Its window is a window. *)
LEMMA SameWindow ==
  /\ \A len : F!W!create(len) = W!create(len)
  /\ \A q : F!W!reset(q) = W!reset(q) /\ F!W!read(q) = W!read(q)
  /\ \A q, x : F!W!push(q, x) = W!push(q, x)
BY DEF F!W!create, W!create, F!W!Ring, W!Ring, F!W!reset, W!reset, F!W!read, W!read,
       F!W!push, W!push, F!W!NextIndex, W!NextIndex, F!W!Carried, W!Carried

LEMMA DelayIs ==
  ASSUME NEW nmax \in Nat \ {0}, NEW q \in Delays(nmax)
  PROVE  /\ q.nmax = nmax /\ q.delay \in 0..(nmax * Grid) /\ q.w_index \in 0..nmax
         /\ q.f_index \in 0..(npfb - 1) /\ q.v \in Values /\ q.w \in Windows(nmax + 1)
BY DEF Delays

LEMMA DelayReset ==
  ASSUME NEW nmax \in Nat \ {0}, NEW len \in WindowLengths, len = nmax + 1,
         NEW q \in [nmax : {nmax}, delay : Nat, w_index : Nat, f_index : Nat,
                    v : Values, w : Windows(len)]
  PROVE  /\ F!reset(q) \in Delays(nmax)
         /\ W!read(F!reset(q).w) = [j \in 1..len |-> Zero]
<1>1. q.nmax = nmax /\ q.w \in Windows(len)
  OBVIOUS
<1>2. W!reset(q.w) \in Windows(len) /\ W!read(W!reset(q.w)) = [j \in 1..len |-> Zero]
  BY <1>1, WindowReset
<1> DEFINE w == W!reset(q.w)
<1>3. F!reset(q) = [q EXCEPT !.delay = 0, !.w_index = nmax - 1, !.f_index = 0, !.v = Zero, !.w = w]
  BY <1>1, SameWindow DEF F!reset
<1>4. /\ 0 \in 0..(nmax * Grid) /\ nmax - 1 \in 0..nmax /\ 0 \in 0..(npfb - 1) /\ Zero \in Values
  <2>1. \A m \in Nat : 0 \in 0..m
    OBVIOUS
  <2>2. nmax * Grid \in Nat /\ npfb - 1 \in Nat
    BY Sizes
  <2> QED
    BY <2>1, <2>2, Sizes
<1> HIDE DEF w
<1>5. F!reset(q).w = w
  BY <1>3
<1>6. F!reset(q) \in Delays(nmax)
  BY <1>2, <1>3, <1>4 DEF Delays, w
<1> QED
  BY <1>2, <1>5, <1>6 DEF w

LEMMA DelayCreate ==
  ASSUME NEW nmax \in Nat \ {0}, NEW len \in WindowLengths, len = nmax + 1
  PROVE  /\ F!create(nmax) \in Delays(nmax)
         /\ W!read(F!create(nmax).w) = [j \in 1..len |-> Zero]
<1> DEFINE w == W!create(len)
           q == [nmax |-> nmax, delay |-> 0, w_index |-> 0, f_index |-> 0, v |-> Zero, w |-> w]
<1>1. w \in Windows(len)
  BY WindowCreate
<1>2. F!create(nmax) = F!reset(q)
  BY SameWindow DEF F!create
<1> HIDE DEF w
<1>3. q \in [nmax : {nmax}, delay : Nat, w_index : Nat, f_index : Nat,
             v : Values, w : Windows(len)]
  BY <1>1, Sizes
<1> HIDE DEF q
<1> QED
  BY <1>2, <1>3, DelayReset

(* One sample: what goes into the bank is at w_index, and nothing is retuned. *)
LEMMA DelayPush ==
  ASSUME NEW nmax \in Nat \ {0}, NEW len \in WindowLengths, len = nmax + 1,
         NEW q \in Delays(nmax), NEW x \in Values
  PROVE  LET p == F!push(q, x)
         IN  /\ p \in Delays(nmax) /\ p.delay = q.delay
             /\ p.w_index = q.w_index /\ p.f_index = q.f_index
             /\ p.v = W!read(p.w)[p.w_index + 1]
             /\ \A j \in 1..len :
                  W!read(p.w)[j] = IF j < len THEN W!read(q.w)[j + 1] ELSE x
<1> DEFINE w == W!push(q.w, x)
           v == W!read(w)[q.w_index + 1]
           p == F!push(q, x)
<1>1. q.w \in Windows(len) /\ q.w_index \in 0..nmax
  BY DelayIs
<1>2. /\ w \in Windows(len)
      /\ \A j \in 1..len : W!read(w)[j] = IF j < len THEN W!read(q.w)[j + 1] ELSE x
  BY <1>1, WindowPush
<1>3. v \in Values
  <2>1. W!read(w) \in [1..len -> Values] /\ q.w_index + 1 \in 1..len
    BY <1>1, <1>2, WindowIs
  <2> QED
    BY <2>1
<1>4. p = [q EXCEPT !.w = w, !.v = v]
  BY SameWindow DEF F!push
<1> HIDE DEF w, v, p
<1>5. p \in Delays(nmax) /\ p.delay = q.delay /\ p.w_index = q.w_index /\ p.f_index = q.f_index
      /\ p.w = w /\ p.v = v
  BY <1>2, <1>3, <1>4 DEF Delays
<1> QED
  BY <1>2, <1>5 DEF v, p

(* What write() does to any fractional delay. *)
LEMMA DelayWrite ==
  ASSUME NEW nmax \in Nat \ {0}, NEW len \in WindowLengths, len = nmax + 1,
         NEW q \in Delays(nmax), NEW b \in Seq(Values)
  PROVE  LET p == F!write(q, b)
         IN  /\ p \in Delays(nmax) /\ p.delay = q.delay
             /\ p.w_index = q.w_index /\ p.f_index = q.f_index
             /\ W!read(p.w) = Behind(len, W!read(q.w), b)
             /\ b = <<>> => p = q
             /\ b # <<>> => p.v = W!read(p.w)[p.w_index + 1]
<1> DEFINE S == {s \in Delays(nmax) : /\ s.delay = q.delay
                                      /\ s.w_index = q.w_index /\ s.f_index = q.f_index}
           op == [p \in S \X Values |-> F!push(p[1], p[2])]
           held == [s \in S |-> W!read(s.w)]
           Turns(f) == [i \in 0..Len(b) |-> IF i = 0 THEN q ELSE F!push(f[i - 1], b[i])]
           after == CHOOSE f : f = Turns(f)
<1>1. \A s \in S, x \in Values :
        /\ F!push(s, x) \in S /\ op[<<s, x>>] = F!push(s, x)
        /\ F!push(s, x).v = W!read(F!push(s, x).w)[F!push(s, x).w_index + 1]
  BY DelayPush
<1>2. Shifts(S, len, op, held)
  <2>1. op \in [S \X Values -> S]
    BY DelayPush
  <2>2. held \in [S -> [1..len -> Values]]
    BY DelayIs, WindowIs
  <2>3. \A s \in S, x \in Values : \A j \in 1..len :
          held[op[<<s, x>>]][j] = IF j < len THEN held[s][j + 1] ELSE x
    BY <1>1, DelayPush
  <2> QED
    BY <2>1, <2>2, <2>3 DEF Shifts
<1>3. F!write(q, b) = after[Len(b)]
  BY DEF F!write
<1>4. q \in S
  OBVIOUS
<1>5. held[q] = W!read(q.w)
  OBVIOUS
<1>6. \A s \in S : /\ s \in Delays(nmax) /\ s.delay = q.delay /\ s.w_index = q.w_index
                   /\ s.f_index = q.f_index /\ held[s] = W!read(s.w)
  OBVIOUS
<1> HIDE DEF S, op, held
<1>7. PICK f \in [0..Len(b) -> S] : Loop(f, S, op, q, b)
  <2>1. op \in [S \X Values -> S]
    BY <1>2 DEF Shifts
  <2> QED
    BY <1>4, <2>1, LoopExists
<1>8. ASSUME NEW i \in 1..Len(b)
      PROVE  i - 1 \in 0..Len(b) /\ i \in 0..Len(b) /\ i # 0 /\ b[i] \in Values
  OBVIOUS
<1>9. f = Turns(f)
  <2>1. ASSUME NEW i \in 0..Len(b)
        PROVE  f[i] = IF i = 0 THEN q ELSE F!push(f[i - 1], b[i])
    <3>1. CASE i = 0
      BY <1>7, <3>1 DEF Loop
    <3>2. CASE i \in 1..Len(b)
      BY <1>1, <1>7, <1>8, <3>2 DEF Loop
    <3> QED
      BY <3>1, <3>2
  <2> QED
    BY <2>1
<1>10. after = Turns(after)
  <2>1. \E g : g = Turns(g)
    BY <1>9
  <2> HIDE DEF Turns
  <2> QED
    BY <2>1
<1> HIDE DEF after
<1>11. after[0] = q /\ \A i \in 1..Len(b) : after[i] = F!push(after[i - 1], b[i])
  BY <1>8, <1>10
<1>12. Loop(after, S, op, q, b)
  BY <1>1, <1>4, <1>8, <1>11 DEF Loop
<1>13. /\ after[Len(b)] \in S /\ held[after[Len(b)]] = Behind(len, held[q], b)
       /\ b # <<>> => \E s \in S, x \in Values : after[Len(b)] = op[<<s, x>>]
  BY <1>2, <1>12, LoopShifts
<1> DEFINE p == F!write(q, b)
<1>14. p \in S /\ held[p] = Behind(len, W!read(q.w), b)
  BY <1>3, <1>5, <1>13
<1>15. ASSUME b # <<>> PROVE p.v = W!read(p.w)[p.w_index + 1]
  <2>1. PICK s \in S, x \in Values : p = op[<<s, x>>]
    BY <1>3, <1>13, <1>15
  <2> QED
    BY <1>1, <2>1
<1>16. b = <<>> => p = q
  BY <1>3, <1>11
<1> QED
  BY <1>6, <1>14, <1>15, <1>16

LEMMA Rounds ==
  ASSUME NEW f \in 0..(Grid - 1)
  PROVE  /\ F!Nearest(f) \in 0..npfb
         /\ f = 0 => F!Nearest(f) = 0
         /\ 2 * (Grid * F!Nearest(f) - npfb * f) \in (-Grid)..Grid
<1> DEFINE g == 2 * Grid
           a == 2 * (npfb * f) + Grid
           n == a \div g
<1>1. npfb \in Nat \ {0} /\ Grid \in Nat \ {0} /\ g \in Nat \ {0} /\ g = 2 * Grid
  BY Sizes
<1>2. npfb * f \in Nat /\ npfb * f <= npfb * Grid - npfb /\ npfb * Grid \in Nat
  <2>1. f <= Grid - 1 => npfb * f <= npfb * (Grid - 1)
    BY <1>1
  <2>2. npfb * (Grid - 1) = npfb * Grid - npfb
    BY <1>1
  <2> QED
    BY <1>1, <2>1, <2>2
<1>3. F!Nearest(f) = n
  <2>1. 2 * npfb * f = 2 * (npfb * f)
    BY <1>1
  <2> QED
    BY <2>1 DEF F!Nearest
<1>4. a \in Nat /\ a = 2 * (npfb * f) + Grid
  BY <1>1, <1>2
<1> HIDE DEF a, g
<1>5. n \in Nat /\ g * n <= a /\ a < g * n + g
  <2>1. g \in Nat \ {0} /\ a \in Nat
    BY <1>1, <1>4
  <2> QED
    BY <2>1
<1> HIDE DEF n
<1>6. g * n = 2 * (Grid * n) /\ Grid * n \in Nat
  BY <1>1, <1>5
<1>7. 2 * (Grid * n - npfb * f) \in (-Grid)..Grid
  <2> DEFINE y == Grid * n
             z == npfb * f
  <2> HIDE DEF y, z
  <2>1. y \in Nat /\ z \in Nat /\ 2 * y <= 2 * z + Grid /\ 2 * z + Grid < 2 * y + 2 * Grid
    BY <1>1, <1>2, <1>4, <1>5, <1>6 DEF y, z
  <2>2. 2 * (y - z) \in (-Grid)..Grid
    BY <1>1, <2>1
  <2> QED
    BY <2>2 DEF y, z
<1>8. n <= npfb
  <2> SUFFICES ASSUME n >= npfb + 1 PROVE FALSE
    BY <1>1, <1>5
  <2>1. Grid * n >= Grid * (npfb + 1)
    BY <1>1, <1>5
  <2>2. Grid * (npfb + 1) = npfb * Grid + Grid
    BY <1>1
  <2> DEFINE y == Grid * n
             z == npfb * f
             m == npfb * Grid
  <2>3. y \in Nat /\ z \in Nat /\ m \in Nat /\ y >= m + Grid /\ z <= m - npfb
        /\ 2 * y <= 2 * z + Grid
    BY <1>1, <1>2, <1>4, <1>5, <1>6, <2>1, <2>2
  <2> HIDE DEF y, z, m
  <2> QED
    BY <1>1, <2>3
<1>9. ASSUME f = 0 PROVE n = 0
  <2>1. a = Grid
    BY <1>1, <1>4, <1>9
  <2> SUFFICES ASSUME n >= 1 PROVE FALSE
    BY <1>5
  <2>2. g * n >= g
    BY <1>1, <1>5
  <2> QED
    BY <1>1, <1>5, <2>1, <2>2
<1> QED
  BY <1>1, <1>3, <1>5, <1>7, <1>8, <1>9

(* The delay chosen is the delay made, within half a filter. *)
LEMMA SetDelay ==
  ASSUME NEW nmax \in Nat \ {0}, NEW q \in Delays(nmax), NEW delay \in 0..(nmax * Grid)
  PROVE  LET p == F!set_delay(q, delay)
         IN  p \in Delays(nmax) /\ Tuned(p) /\ p.w = q.w
<1> DEFINE o == nmax * Grid - delay
           d == o \div Grid
           f == o % Grid
           n == F!Nearest(f)
           c == n \div npfb
           r == n % npfb
           p == F!set_delay(q, delay)
<1>1. npfb \in Nat \ {0} /\ Grid \in Nat \ {0} /\ nmax * Grid \in Nat
  BY Sizes
<1>2. o \in Nat /\ o = nmax * Grid - delay /\ o <= nmax * Grid
  BY <1>1
<1>3. p = [q EXCEPT !.w_index = d + c, !.f_index = r, !.delay = delay]
  <2>1. q.nmax = nmax
    BY DelayIs
  <2> QED
    BY <2>1 DEF F!set_delay, F!WithOffset
<1> HIDE DEF o, p
<1>4. d \in Nat /\ f \in 0..(Grid - 1) /\ o = Grid * d + f
  BY <1>1, <1>2
<1> HIDE DEF d, f
<1>5. n \in 0..npfb /\ (f = 0 => n = 0) /\ 2 * (Grid * n - npfb * f) \in (-Grid)..Grid
  BY <1>4, Rounds
<1> HIDE DEF n
<1>6. c \in 0..1 /\ r \in 0..(npfb - 1) /\ n = npfb * c + r /\ (n = 0 => c = 0)
  <2>1. CASE n < npfb
    BY <1>1, <1>5, <2>1
  <2>2. CASE n = npfb
    BY <1>1, <1>5, <2>2
  <2> QED
    BY <1>1, <1>5, <2>1, <2>2
<1> HIDE DEF c, r
<1>7. d + c \in 0..nmax
  <2>1. d <= nmax /\ (d = nmax => f = 0)
    <3>1. ASSUME d >= nmax + 1 PROVE FALSE
      <4>1. Grid * d >= Grid * (nmax + 1)
        BY <1>1, <1>4, <3>1
      <4>2. Grid * (nmax + 1) = nmax * Grid + Grid
        BY <1>1
      <4> QED
        BY <1>1, <1>2, <1>4, <4>1, <4>2
    <3>2. d = nmax => Grid * d = nmax * Grid
      BY <1>1, <1>4
    <3> QED
      BY <1>1, <1>2, <1>4, <3>1, <3>2
  <2> QED
    BY <1>4, <1>5, <1>6, <2>1
<1>8. /\ p \in Delays(nmax) /\ p.nmax = nmax /\ p.w_index = d + c /\ p.f_index = r
      /\ p.delay = delay /\ p.w = q.w
  <2> DEFINE i == d + c
  <2>1. i \in 0..nmax /\ p = [q EXCEPT !.w_index = i, !.f_index = r, !.delay = delay]
    BY <1>3, <1>7
  <2> HIDE DEF i
  <2>2. /\ p \in Delays(nmax) /\ p.nmax = nmax /\ p.w_index = i /\ p.f_index = r
        /\ p.delay = delay /\ p.w = q.w
    BY <1>6, <2>1 DEF Delays
  <2> QED
    BY <2>2 DEF i
<1>9. npfb * delay - Grid * (npfb * (nmax - (d + c)) - r) = Grid * n - npfb * f
  <2>1. delay = nmax * Grid - (Grid * d + f)
    BY <1>1, <1>2, <1>4
  <2>2. npfb * delay = npfb * (nmax * Grid) - npfb * (Grid * d) - npfb * f
    BY <1>1, <1>4, <2>1
  <2>3. Grid * (npfb * (nmax - (d + c)) - r)
          = npfb * (nmax * Grid) - npfb * (Grid * d) - Grid * (npfb * c) - Grid * r
    BY <1>1, <1>4, <1>6
  <2>4. Grid * n = Grid * (npfb * c) + Grid * r
    BY <1>1, <1>5, <1>6
  <2> QED
    BY <1>1, <1>4, <1>5, <1>6, <2>2, <2>3, <2>4
<1> QED
  BY <1>5, <1>8, <1>9 DEF Tuned, p

-----------------------------------------------------------------------------
(* The line that the three hold. *)

LEMMA DepthIs ==
  ASSUME NEW len \in Lengths, len > 1
  PROVE  /\ Depth(len) \in Nat \ {0} /\ Depth(len) + 1 \in WindowLengths
         /\ Depth(len) + 1 <= len
<1>1. len \in Nat \ {0} /\ MaxDelay \in Nat \ {0}
  BY Sizes DEF WindowLengths
<1>2. Depth(len) \in {len - 1, MaxDelay} /\ Depth(len) <= len - 1
  <2>1. \E x \in {len - 1, MaxDelay} : \A y \in {len - 1, MaxDelay} : x <= y
    <3>1. CASE len - 1 <= MaxDelay
      BY <1>1, <3>1
    <3>2. CASE MaxDelay <= len - 1
      BY <1>1, <3>2
    <3> QED
      BY <1>1, <3>1, <3>2
  <2> QED
    BY <2>1 DEF Depth, Min
<1>3. CASE Depth(len) = len - 1
  BY <1>1, <1>3, (len - 1) + 1 = len DEF WindowLengths
<1>4. CASE Depth(len) = MaxDelay
  BY <1>1, <1>2, <1>4 DEF WindowLengths
<1> QED
  BY <1>2, <1>3, <1>4

(* The promise's "newest samples" are what a loop of pushes leaves. *)
LEMMA NewestIs ==
  ASSUME NEW len \in Nat \ {0}, NEW s \in [1..len -> Values], NEW b \in Seq(Values)
  PROVE  Line!Newest(len, s \o b) = Behind(len, s, b)
<1>1. s \in Seq(Values) /\ Len(s) = len
  OBVIOUS
<1>2. s \o b \in Seq(Values) /\ Len(s \o b) = len + Len(b)
  BY <1>1
<1>3. Len(b) \in Nat /\ len + Len(b) - len + 1 = Len(b) + 1
  OBVIOUS
<1>4. Line!Newest(len, s \o b) = SubSeq(s \o b, Len(b) + 1, len + Len(b))
  BY <1>2, <1>3 DEF Line!Newest
<1> DEFINE t == s \o b
           k == Len(b)
<1>5. \A j \in 1..(len + k) : t[j] = IF j <= len THEN s[j] ELSE b[j - len]
  BY <1>1
<1> HIDE DEF t, k
<1>6. t \in Seq(Values) /\ Len(t) = len + k /\ k \in Nat
  BY <1>2, <1>3 DEF t, k
<1>7. SubSeq(t, k + 1, len + k) = [j \in 1..len |-> t[j + k]]
  <2>1. SubSeq(t, k + 1, len + k) = [j \in 1..(len + k - (k + 1) + 1) |-> t[(k + 1) + j - 1]]
    BY <1>6
  <2>2. len + k - (k + 1) + 1 = len
    BY <1>6
  <2>3. \A j \in 1..len : (k + 1) + j - 1 = j + k
    BY <1>6
  <2> QED
    BY <2>1, <2>2, <2>3
<1>8. \A j \in 1..len : t[j + k] = IF j + k <= len THEN s[j + k] ELSE b[j + k - len]
  BY <1>5, <1>6
<1> QED
  BY <1>4, <1>7, <1>8 DEF Behind, t, k

Silence(len) == [j \in 1..len |-> Zero]

(* A window re-created longer or shorter holds what the promise says. *)
LEMMA WindowRecreate ==
  ASSUME NEW old \in WindowLengths, NEW q \in Windows(old), NEW len \in WindowLengths
  PROVE  /\ W!recreate(q, len) \in Windows(len)
         /\ W!read(W!recreate(q, len)) = Behind(len, Silence(len), W!read(q))
<1> DEFINE s == W!read(q)
<1>1. q.len = old /\ s \in [1..old -> Values]
  BY WindowIs
<1>2. old \in Nat \ {0} /\ len \in Nat \ {0}
  BY RingIs
<1>3. s \in Seq(Values) /\ Len(s) = old
  BY <1>1, <1>2
<1>4. /\ W!create(len) \in Windows(len)
      /\ W!read(W!create(len)) = Silence(len)
  BY WindowCreate DEF Silence
<1>5. ASSUME NEW b \in Seq(Values)
      PROVE  /\ W!write(W!create(len), b) \in Windows(len)
             /\ W!read(W!write(W!create(len), b)) = Behind(len, Silence(len), b)
  BY <1>4, WindowWrite
<1>6. CASE len = old
  <2>1. W!recreate(q, len) = q
    BY <1>1, <1>6 DEF W!recreate
  <2> HIDE DEF s
  <2>2. \A j \in 1..len : ~(j + old <= len) /\ j + old - len = j
    BY <1>2, <1>6
  <2>3. Behind(len, Silence(len), s) = [j \in 1..len |-> s[j]]
    BY <1>3, <2>2 DEF Behind
  <2>4. Behind(len, Silence(len), s) = s
    BY <1>1, <1>6, <2>3
  <2> QED
    BY <1>6, <2>1, <2>4 DEF s
<1>7. CASE len > old
  <2> DEFINE z == [i \in 1..(len - old) |-> Zero]
             b == z \o s
  <2>1. W!recreate(q, len) = W!write(W!create(len), b)
    BY <1>1, <1>2, <1>7 DEF W!recreate
  <2>2. z \in Seq(Values) /\ Len(z) = len - old /\ \A i \in 1..(len - old) : z[i] = Zero
    <3>1. len - old \in Nat
      BY <1>2, <1>7
    <3> QED
      BY <3>1, Sizes
  <2> HIDE DEF s, z
  <2>3. b \in Seq(Values) /\ Len(b) = len
    BY <1>2, <1>3, <2>2
  <2>4. ASSUME NEW j \in 1..len
        PROVE  b[j] = IF j + old <= len THEN Zero ELSE s[j + old - len]
    <3>1. b[j] = IF j <= len - old THEN z[j] ELSE s[j - (len - old)]
      BY <1>2, <1>3, <2>2
    <3>2. CASE j + old <= len
      <4>1. j \in 1..(len - old) /\ j <= len - old
        BY <1>2, <3>2
      <4> QED
        BY <2>2, <3>1, <3>2, <4>1
    <3>3. CASE ~(j + old <= len)
      <4>1. ~(j <= len - old) /\ j - (len - old) = j + old - len
        BY <1>2, <3>3
      <4> QED
        BY <3>1, <3>3, <4>1
    <3> QED
      BY <3>2, <3>3
  <2> HIDE DEF b
  <2>5. ASSUME NEW j \in 1..len
        PROVE  /\ Behind(len, Silence(len), b)[j] = b[j]
               /\ Behind(len, Silence(len), s)[j] = b[j]
    <3>1. ~(j + len <= len) /\ j + len - len = j
      BY <1>2
    <3>2. Behind(len, Silence(len), b)[j] = b[j]
      BY <2>3, <3>1 DEF Behind
    <3>3. j + old <= len => j + old \in 1..len
      BY <1>2
    <3>4. Behind(len, Silence(len), s)[j] =
            IF j + old <= len THEN Zero ELSE s[j + old - len]
      BY <1>3, <3>3 DEF Behind, Silence
    <3> QED
      BY <2>4, <3>2, <3>4
  <2>6. Behind(len, Silence(len), b) = Behind(len, Silence(len), s)
    BY <2>5 DEF Behind
  <2> QED
    BY <1>5, <2>1, <2>3, <2>6 DEF s
<1>8. CASE len < old
  <2> DEFINE b == SubSeq(s, old - len + 1, old)
  <2>1. W!recreate(q, len) = W!write(W!create(len), b)
    BY <1>1, <1>2, <1>8 DEF W!recreate
  <2> HIDE DEF s
  <2>2. b \in Seq(Values) /\ Len(b) = len /\ \A j \in 1..len : b[j] = s[j + old - len]
    <3>1. old - len + 1 \in 1..(old + 1) /\ old <= Len(s)
      BY <1>2, <1>3, <1>8
    <3>2. b = [j \in 1..(old - (old - len + 1) + 1) |-> s[(old - len + 1) + j - 1]]
      BY <1>2, <1>3, <1>8
    <3>3. old - (old - len + 1) + 1 = len
      BY <1>2
    <3>4. \A j \in 1..len : (old - len + 1) + j - 1 = j + old - len /\ j + old - len \in 1..old
      BY <1>2, <1>8
    <3>5. b = [j \in 1..len |-> s[j + old - len]]
      BY <3>2, <3>3, <3>4
    <3>6. \A j \in 1..len : s[j + old - len] \in Values
      BY <1>1, <3>4
    <3> HIDE DEF b
    <3> QED
      BY <1>2, <3>5, <3>6
  <2> HIDE DEF b
  <2>3. ASSUME NEW j \in 1..len
        PROVE  /\ Behind(len, Silence(len), b)[j] = b[j]
               /\ Behind(len, Silence(len), s)[j] = b[j]
    <3>1. ~(j + len <= len) /\ j + len - len = j /\ ~(j + old <= len)
      BY <1>2, <1>8
    <3> QED
      BY <1>3, <2>2, <3>1 DEF Behind
  <2>4. Behind(len, Silence(len), b) = Behind(len, Silence(len), s)
    BY <2>3 DEF Behind
  <2> QED
    BY <1>5, <2>1, <2>2, <2>4 DEF s
<1> QED
  BY <1>2, <1>6, <1>7, <1>8

(* So does a re-created delay buffer. *)
LEMMA BufferRecreate ==
  ASSUME NEW old \in Nat, NEW q \in Buffers(old), NEW len \in Nat \ {0}
  PROVE  /\ D!recreate(q, len - 1) \in Buffers(len - 1)
         /\ D!Realigned(D!recreate(q, len - 1)) =
              Behind(len, Silence(len), D!Realigned(q))
<1> DEFINE delay == len - 1
<1>1. delay \in Nat /\ delay + 1 = len
  OBVIOUS
<1>2. D!Realigned(q) \in Seq(Values)
  <2>1. D!Realigned(q) \in [1..(old + 1) -> Values] /\ old + 1 \in Nat
    BY BufferIs
  <2> HIDE DEF delay
  <2> QED
    BY <2>1
<1> HIDE DEF delay
<1>3. /\ D!create(delay) \in Buffers(delay)
      /\ D!Realigned(D!create(delay)) = Silence(len)
  BY <1>1, BufferCreate DEF Silence
<1>4. D!recreate(q, delay) = D!pushes(D!create(delay), D!Realigned(q))
  BY DEF D!recreate
<1>5. /\ D!recreate(q, delay) \in Buffers(delay)
      /\ D!Realigned(D!recreate(q, delay)) = Behind(len, Silence(len), D!Realigned(q))
  BY <1>1, <1>2, <1>3, <1>4, BufferPushes
<1> QED
  BY <1>5 DEF delay

-----------------------------------------------------------------------------
(* The invariant. *)

(* What the invariant says of the window and its line. *)
LEMMA LineIs ==
  ASSUME Whole
  PROVE  /\ window.len \in Lengths /\ window.len \in WindowLengths
         /\ window.len \in Nat \ {0} /\ window \in Windows(window.len)
         /\ W!read(window) \in [1..window.len -> Values]
         /\ W!read(window) \in Seq(Values) /\ Len(W!read(window)) = window.len
<1>1. /\ window.len \in Lengths /\ window.len \in WindowLengths
      /\ window \in Windows(window.len)
  BY Sizes DEF Whole
<1>2. W!read(window) \in [1..window.len -> Values] /\ window.len \in Nat \ {0}
  BY <1>1, WindowIs, RingIs
<1> QED
  BY <1>1, <1>2

(* A fractional delay made for a window of len samples, silent. *)
LEMMA NewDelayIs ==
  ASSUME NEW len \in Lengths
  PROVE  /\ len = 1 => NewDelay(len) = NoDelay
         /\ len > 1 => /\ NewDelay(len) \in Delays(Depth(len))
                       /\ NewDelay(len) # NoDelay
                       /\ W!read(NewDelay(len).w) = Silence(Depth(len) + 1)
<1>1. len \in Nat \ {0}
  BY Sizes DEF WindowLengths
<1>2. CASE len > 1
  <2> DEFINE nmax == Depth(len)
             size == nmax + 1
  <2>1. nmax \in Nat \ {0} /\ size \in WindowLengths /\ size = nmax + 1
    BY <1>2, DepthIs
  <2>2. NewDelay(len) = F!create(nmax)
    BY <1>2 DEF NewDelay, Depth
  <2> HIDE DEF nmax, size
  <2>3. /\ F!create(nmax) \in Delays(nmax)
        /\ W!read(F!create(nmax).w) = Silence(size)
    BY <2>1, DelayCreate DEF Silence
  <2>4. F!create(nmax).nmax = nmax
    BY <2>1, <2>3, DelayIs
  <2>5. F!create(nmax) # NoDelay
    BY <2>1, <2>4 DEF NoDelay
  <2> QED
    BY <1>2, <2>2, <2>3, <2>5 DEF nmax, size
<1>3. CASE len = 1
  BY <1>3 DEF NewDelay
<1> QED
  BY <1>1, <1>2, <1>3

(* A fractional delay that is there follows the line. *)
Fits(q, len, s) ==
  \A j \in 1..(q.nmax + 1) : W!read(q.w)[j] = s[len - (q.nmax + 1) + j]

LEMMA DelayedIs ==
  ASSUME Whole, Delayed, window.len > 1
  PROVE  /\ Depth(window.len) \in Nat \ {0} /\ Depth(window.len) + 1 \in WindowLengths
         /\ Depth(window.len) + 1 <= window.len
         /\ fdelay \in Delays(Depth(window.len)) /\ fdelay # NoDelay
         /\ fdelay.nmax = Depth(window.len)
         /\ Fits(fdelay, window.len, W!read(window))
<1>1. /\ Depth(window.len) \in Nat \ {0} /\ Depth(window.len) + 1 \in WindowLengths
      /\ Depth(window.len) + 1 <= window.len
  BY LineIs, DepthIs
<1>2. fdelay \in Delays(Depth(window.len)) /\ Follows(fdelay)
  BY DEF Delayed
<1>3. fdelay.nmax = Depth(window.len)
  BY <1>1, <1>2, DelayIs
<1>4. fdelay # NoDelay
  BY <1>1, <1>3 DEF NoDelay
<1> QED
  BY <1>1, <1>2, <1>3, <1>4 DEF Follows, Fits

(* The same samples pushed into both keep it so. *)
LEMMA FitsBehind ==
  ASSUME NEW len \in Nat \ {0}, NEW size \in 1..len,
         NEW s, NEW u, NEW b \in Seq(Values),
         \A j \in 1..size : u[j] = s[len - size + j] \/ Len(b) >= size,
         NEW j \in 1..size
  PROVE  Behind(size, u, b)[j] = Behind(len, s, b)[len - size + j]
<1> DEFINE k == Len(b)
           i == len - size + j
<1>1. k \in Nat /\ i \in 1..len /\ i = len - size + j
  OBVIOUS
<1>2. Behind(size, u, b)[j] = IF j + k <= size THEN u[j + k] ELSE b[j + k - size]
  BY DEF Behind
<1>3. Behind(len, s, b)[i] = IF i + k <= len THEN s[i + k] ELSE b[i + k - len]
  BY <1>1 DEF Behind
<1> HIDE DEF k, i
<1>4. CASE j + k <= size
  <2>1. j + k \in 1..size /\ i + k <= len /\ len - size + (j + k) = i + k /\ ~(k >= size)
    BY <1>1, <1>4
  <2>2. u[j + k] = s[len - size + (j + k)]
    BY <2>1 DEF k
  <2> QED
    BY <1>2, <1>3, <1>4, <2>1, <2>2 DEF i
<1>5. CASE ~(j + k <= size)
  <2>1. ~(i + k <= len) /\ i + k - len = j + k - size
    BY <1>1, <1>5
  <2> QED
    BY <1>2, <1>3, <1>5, <2>1 DEF i
<1> QED
  BY <1>4, <1>5

LEMMA BatchIs ==
  ASSUME NEW b \in Line!Batches
  PROVE  b \in Seq(Values)
BY DEF Line!Batches

(* Before anything was given all three are silent. *)
LEMMA InitIs ==
  ASSUME Init
  PROVE  IInv /\ W!read(window) = Silence(window.len)
<1>1. PICK len \in Lengths : /\ window = W!create(len) /\ wdelay = D!create(len - 1)
                             /\ fdelay = NewDelay(len) /\ choice = "none"
  BY DEF Init
<1>2. len \in WindowLengths /\ len \in Nat \ {0}
  BY Sizes
<1>3. window \in Windows(len) /\ W!read(window) = Silence(len)
  BY <1>1, <1>2, WindowCreate DEF Silence
<1>4. window.len = len
  BY <1>2, <1>3, WindowIs
<1>5. Whole
  BY <1>3, <1>4 DEF Whole
<1>6. Buffered
  <2> DEFINE delay == len - 1
  <2>1. delay \in Nat /\ delay + 1 = len
    BY <1>2
  <2>2. wdelay = D!create(delay)
    BY <1>1
  <2> HIDE DEF delay
  <2>3. wdelay \in Buffers(delay) /\ D!Realigned(wdelay) = Silence(len)
    BY <2>1, <2>2, BufferCreate DEF Silence
  <2> QED
    BY <1>3, <1>4, <2>3 DEF Buffered, delay
<1>7. Delayed
  <2>1. CASE len = 1
    BY <1>1, <1>4, <2>1, NewDelayIs DEF Delayed
  <2>2. CASE len > 1
    <3>1. fdelay \in Delays(Depth(len)) /\ W!read(fdelay.w) = Silence(Depth(len) + 1)
      BY <1>1, <2>2, NewDelayIs
    <3>2. Depth(len) \in Nat \ {0} /\ Depth(len) + 1 <= len
      BY <2>2, DepthIs
    <3>3. fdelay.nmax = Depth(len)
      BY <3>1, <3>2, DelayIs
    <3>4. Follows(fdelay)
      <4> DEFINE n == Depth(len) + 1
      <4>1. n \in 1..len /\ fdelay.nmax + 1 = n
        BY <3>2, <3>3
      <4>2. W!read(fdelay.w) = Silence(n)
        BY <3>1
      <4> HIDE DEF n
      <4>3. \A j \in 1..n : len - n + j \in 1..len
        BY <1>2, <4>1
      <4>4. \A j \in 1..n : Silence(n)[j] = Silence(len)[len - n + j]
        BY <4>3 DEF Silence
      <4> QED
        BY <1>3, <1>4, <4>1, <4>2, <4>4 DEF Follows
    <3> QED
      BY <1>1, <1>2, <1>4, <2>2, <3>1, <3>4 DEF Delayed
  <2> QED
    BY <1>2, <2>1, <2>2
<1> QED
  BY <1>3, <1>4, <1>5, <1>6, <1>7 DEF IInv

LEMMA WriteStep ==
  ASSUME IInv, NEW b \in Line!Batches, Write(b)
  PROVE  IInv' /\ window'.len = window.len
         /\ W!read(window') = Behind(window.len, W!read(window), b)
<1> DEFINE len == window.len
           s == W!read(window)
<1>1. Whole /\ Buffered /\ Delayed
  BY DEF IInv
<1>2. /\ len \in Lengths /\ len \in WindowLengths /\ len \in Nat \ {0}
      /\ window \in Windows(len) /\ b \in Seq(Values)
  BY <1>1, LineIs, BatchIs
<1>3. /\ window' = W!write(window, b) /\ wdelay' = D!pushes(wdelay, b)
      /\ fdelay' = Fed(fdelay, b)
      /\ choice' = IF choice = "chosen" /\ b # <<>> THEN "used" ELSE choice
  BY DEF Write
<1>4. window' \in Windows(len) /\ W!read(window') = Behind(len, s, b)
  BY <1>2, <1>3, WindowWrite
<1>5. window'.len = len
  BY <1>2, <1>4, WindowIs
<1>6. Whole'
  BY <1>2, <1>4, <1>5 DEF Whole
<1>7. Buffered'
  <2> DEFINE delay == len - 1
  <2>1. delay \in Nat /\ delay + 1 = len
    BY <1>2
  <2>2. wdelay \in Buffers(delay) /\ D!Realigned(wdelay) = s
    BY <1>1 DEF Buffered
  <2> HIDE DEF delay
  <2>3. wdelay' \in Buffers(delay) /\ D!Realigned(wdelay') = Behind(len, s, b)
    BY <1>2, <1>3, <2>1, <2>2, BufferPushes
  <2> QED
    BY <1>4, <1>5, <2>3 DEF Buffered, delay
<1>8. Delayed'
  <2>0. choice' \in {"none", "chosen", "used"}
    BY <1>1, <1>3 DEF Delayed
  <2>1. CASE len = 1
    <3>1. fdelay = NoDelay /\ choice = "none"
      BY <1>1, <2>1 DEF Delayed
    <3>2. fdelay' = NoDelay /\ choice' = "none"
      BY <1>3, <3>1 DEF Fed
    <3> QED
      BY <1>5, <2>1, <3>2 DEF Delayed
  <2>2. CASE len > 1
    <3> DEFINE nmax == Depth(len)
               size == nmax + 1
    <3>1. /\ nmax \in Nat \ {0} /\ size \in WindowLengths /\ size <= len /\ size = nmax + 1
          /\ fdelay \in Delays(nmax) /\ fdelay # NoDelay /\ fdelay.nmax = nmax
          /\ Fits(fdelay, len, s)
      BY <1>1, <2>2, DelayedIs
    <3> HIDE DEF nmax, size
    <3>2. fdelay' = F!write(fdelay, b)
      BY <1>3, <3>1 DEF Fed
    <3>3. /\ fdelay' \in Delays(nmax) /\ fdelay'.delay = fdelay.delay
          /\ fdelay'.w_index = fdelay.w_index /\ fdelay'.f_index = fdelay.f_index
          /\ W!read(fdelay'.w) = Behind(size, W!read(fdelay.w), b)
          /\ b = <<>> => fdelay' = fdelay
          /\ b # <<>> => fdelay'.v = W!read(fdelay'.w)[fdelay'.w_index + 1]
      BY <1>2, <3>1, <3>2, DelayWrite
    <3>4. fdelay'.nmax = nmax
      BY <3>1, <3>3, DelayIs
    <3>5. Follows(fdelay)'
      <4>1. size \in 1..len
        BY <1>2, <3>1
      <4>2. \A j \in 1..size : W!read(fdelay.w)[j] = s[len - size + j]
        BY <3>1 DEF Fits
      <4> DEFINE u == W!read(fdelay.w)
      <4> HIDE DEF u, s, len
      <4>3. \A j \in 1..size : Behind(size, u, b)[j] = Behind(len, s, b)[len - size + j]
        <5>1. \A j \in 1..size : u[j] = s[len - size + j] \/ Len(b) >= size
          BY <4>2 DEF u
        <5> QED
          BY <1>2, <4>1, <5>1, FitsBehind
      <4> QED
        BY <1>4, <1>5, <3>1, <3>3, <3>4, <4>3 DEF Follows, u
    <3>6. choice' # "none" => Tuned(fdelay)'
      <4>1. choice' # "none" => choice # "none"
        BY <1>3
      <4>2. choice # "none" => Tuned(fdelay)
        BY <1>1, <2>2 DEF Delayed
      <4>3. Tuned(fdelay) => Tuned(fdelay)'
        BY <3>1, <3>3, <3>4 DEF Tuned
      <4> QED
        BY <4>1, <4>2, <4>3
    <3>7. choice' = "used" => fdelay'.v = W!read(fdelay'.w)[fdelay'.w_index + 1]
      <4>1. CASE b = <<>>
        <5>1. choice' = choice /\ fdelay' = fdelay
          BY <1>3, <3>3, <4>1
        <5> QED
          BY <1>1, <2>2, <5>1 DEF Delayed
      <4>2. CASE b # <<>>
        BY <3>3, <4>2
      <4> QED
        BY <4>1, <4>2
    <3> QED
      BY <1>5, <2>0, <2>2, <3>3, <3>5, <3>6, <3>7 DEF Delayed, nmax
  <2> QED
    BY <1>2, <2>1, <2>2
<1> QED
  BY <1>4, <1>5, <1>6, <1>7, <1>8 DEF IInv

LEMMA RecreateStep ==
  ASSUME IInv, NEW len \in Lengths, Recreate(len)
  PROVE  IInv' /\ window'.len = len
         /\ W!read(window') = Behind(len, Silence(len), W!read(window))
<1> DEFINE old == window.len
           s == W!read(window)
           t == W!read(window')
<1>1. Whole /\ Buffered /\ Delayed
  BY DEF IInv
<1>2. /\ old \in WindowLengths /\ old \in Nat \ {0} /\ window \in Windows(old)
      /\ len \in WindowLengths /\ len \in Nat \ {0}
  BY <1>1, LineIs, Sizes
<1>3. /\ window' = W!recreate(window, len) /\ wdelay' = D!recreate(wdelay, len - 1)
      /\ fdelay' = Fed(NewDelay(len), t) /\ choice' = "none"
  BY DEF Recreate
<1>4. window' \in Windows(len) /\ t = Behind(len, Silence(len), s)
  BY <1>2, <1>3, WindowRecreate
<1>5. window'.len = len
  BY <1>2, <1>4, WindowIs
<1>6. Whole'
  BY <1>2, <1>4, <1>5 DEF Whole
<1>7. Buffered'
  <2> DEFINE delay == old - 1
  <2>1. delay \in Nat
    BY <1>2
  <2>2. wdelay \in Buffers(delay) /\ D!Realigned(wdelay) = s
    BY <1>1 DEF Buffered
  <2> HIDE DEF delay
  <2>3. wdelay' \in Buffers(len - 1) /\ D!Realigned(wdelay') = Behind(len, Silence(len), s)
    BY <1>2, <1>3, <2>1, <2>2, BufferRecreate
  <2> QED
    BY <1>4, <1>5, <2>3 DEF Buffered
<1>8. Delayed'
  <2>1. CASE len = 1
    <3>1. fdelay' = NoDelay
      BY <1>3, <2>1, NewDelayIs DEF Fed
    <3> QED
      BY <1>3, <1>5, <2>1, <3>1 DEF Delayed
  <2>2. CASE len > 1
    <3> DEFINE nmax == Depth(len)
               size == nmax + 1
               q == NewDelay(len)
    <3>1. /\ nmax \in Nat \ {0} /\ size \in WindowLengths /\ size <= len /\ size = nmax + 1
      BY <2>2, DepthIs
    <3>2. q \in Delays(nmax) /\ q # NoDelay
      BY <2>2, NewDelayIs
    <3>3. t \in [1..len -> Values] /\ t \in Seq(Values) /\ Len(t) = len
      <4>1. t \in [1..len -> Values]
        BY <1>2, <1>4, WindowIs
      <4> HIDE DEF t
      <4> QED
        BY <1>2, <4>1
    <3>4. fdelay' = F!write(q, t)
      BY <1>3, <3>2 DEF Fed
    <3> HIDE DEF nmax, size, q, t
    <3>5. fdelay' \in Delays(nmax) /\ W!read(fdelay'.w) = Behind(size, W!read(q.w), t)
      BY <3>1, <3>2, <3>3, <3>4, DelayWrite
    <3>6. fdelay'.nmax = nmax
      BY <3>1, <3>5, DelayIs
    <3>7. Follows(fdelay)'
      <4>1. \A j \in 1..size : ~(j + len <= size) /\ j + len - size = len - size + j
        BY <1>2, <3>1
      <4>2. \A j \in 1..size : W!read(fdelay'.w)[j] = t[len - size + j]
        BY <3>3, <3>5, <4>1 DEF Behind
      <4> QED
        BY <1>5, <3>1, <3>6, <4>2 DEF Follows, t
    <3> QED
      BY <1>3, <1>5, <2>2, <3>5, <3>7 DEF Delayed, nmax
  <2> QED
    BY <1>2, <2>1, <2>2
<1> QED
  BY <1>4, <1>5, <1>6, <1>7, <1>8 DEF IInv

LEMMA ResetStep ==
  ASSUME IInv, Reset
  PROVE  IInv' /\ window'.len = window.len /\ W!read(window') = Silence(window.len)
<1> DEFINE len == window.len
<1>1. Whole /\ Buffered /\ Delayed
  BY DEF IInv
<1>2. /\ len \in Lengths /\ len \in WindowLengths /\ len \in Nat \ {0} /\ window \in Windows(len)
  BY <1>1, LineIs
<1>3. /\ window' = W!reset(window) /\ wdelay' = D!reset(wdelay) /\ choice' = "none"
      /\ fdelay' = (IF fdelay = NoDelay THEN fdelay ELSE F!reset(fdelay))
  BY DEF Reset
<1>4. window' \in Windows(len) /\ W!read(window') = Silence(len)
  BY <1>2, <1>3, WindowReset DEF Silence
<1>5. window'.len = len
  BY <1>2, <1>4, WindowIs
<1>6. Whole'
  BY <1>2, <1>4, <1>5 DEF Whole
<1>7. Buffered'
  <2> DEFINE delay == len - 1
  <2>1. delay \in Nat /\ delay + 1 = len
    BY <1>2
  <2>2. wdelay \in Buffers(delay)
    BY <1>1 DEF Buffered
  <2> HIDE DEF delay
  <2>3. wdelay' \in Buffers(delay) /\ D!Realigned(wdelay') = Silence(len)
    BY <1>3, <2>1, <2>2, BufferReset DEF Silence
  <2> QED
    BY <1>4, <1>5, <2>3 DEF Buffered, delay
<1>8. Delayed'
  <2>1. CASE len = 1
    <3>1. fdelay' = NoDelay
      BY <1>1, <1>3, <2>1 DEF Delayed
    <3> QED
      BY <1>3, <1>5, <2>1, <3>1 DEF Delayed
  <2>2. CASE len > 1
    <3> DEFINE nmax == Depth(len)
               size == nmax + 1
    <3>1. /\ nmax \in Nat \ {0} /\ size \in WindowLengths /\ size <= len /\ size = nmax + 1
          /\ fdelay \in Delays(nmax) /\ fdelay # NoDelay
      BY <1>1, <2>2, DelayedIs
    <3>2. fdelay' = F!reset(fdelay)
      BY <1>3, <3>1
    <3> HIDE DEF nmax, size
    <3>3. fdelay' \in Delays(nmax) /\ W!read(fdelay'.w) = Silence(size)
      <4>1. fdelay \in [nmax : {nmax}, delay : Nat, w_index : Nat, f_index : Nat,
                        v : Values, w : Windows(size)]
        <5>1. /\ (0..(nmax * Grid)) \subseteq Nat /\ (0..nmax) \subseteq Nat
              /\ (0..(npfb - 1)) \subseteq Nat
          OBVIOUS
        <5> QED
          BY <3>1, <5>1 DEF Delays
      <4> QED
        BY <3>1, <3>2, <4>1, DelayReset DEF Silence
    <3>4. fdelay'.nmax = nmax
      BY <3>1, <3>3, DelayIs
    <3>5. Follows(fdelay)'
      <4>1. \A j \in 1..size : len - size + j \in 1..len
        BY <1>2, <3>1
      <4>2. \A j \in 1..size : Silence(size)[j] = Silence(len)[len - size + j]
        BY <4>1 DEF Silence
      <4> QED
        BY <1>4, <1>5, <3>1, <3>3, <3>4, <4>2 DEF Follows
    <3> QED
      BY <1>3, <1>5, <2>2, <3>3, <3>5 DEF Delayed, nmax
  <2> QED
    BY <1>2, <2>1, <2>2
<1> QED
  BY <1>4, <1>5, <1>6, <1>7, <1>8 DEF IInv

LEMMA AdjustStep ==
  ASSUME IInv, NEW delta \in Int, AdjustDelay(delta)
  PROVE  IInv' /\ UNCHANGED window
<1> DEFINE len == window.len
           nmax == Depth(len)
           delay == fdelay.delay + delta
<1>1. Whole /\ Buffered /\ Delayed
  BY DEF IInv
<1>2. /\ fdelay # NoDelay /\ fdelay' = F!set_delay(fdelay, delay)
      /\ choice' = IF fdelay' = fdelay THEN choice ELSE "chosen"
      /\ UNCHANGED <<window, wdelay>>
  BY DEF AdjustDelay, F!adjust_delay
<1>3. len > 1
  <2>1. len \in Nat \ {0} /\ len # 1
    BY <1>1, <1>2, LineIs DEF Delayed
  <2> QED
    BY <2>1
<1>4. nmax \in Nat \ {0} /\ fdelay \in Delays(nmax) /\ fdelay.nmax = nmax
  BY <1>1, <1>3, DelayedIs
<1>5. Whole' /\ Buffered'
  BY <1>1, <1>2 DEF Whole, Buffered
<1>6. Delayed'
  <2>1. CASE fdelay' = fdelay
    <3>1. Delayed <=> Delayed'
      BY <1>2, <2>1 DEF Delayed, Follows, Tuned
    <3> QED
      BY <1>1, <3>1
  <2>2. CASE fdelay' # fdelay
    <3> HIDE DEF delay, nmax
    <3>1. delay \in 0..(nmax * Grid)
      BY <1>2, <1>4, <2>2 DEF F!set_delay
    <3>2. fdelay' \in Delays(nmax) /\ Tuned(fdelay') /\ fdelay'.w = fdelay.w
      BY <1>2, <1>4, <3>1, SetDelay
    <3>3. fdelay'.nmax = nmax
      BY <1>4, <3>2, DelayIs
    <3>4. Follows(fdelay)'
      <4>1. Follows(fdelay)
        BY <1>1, <1>3 DEF Delayed
      <4> QED
        BY <1>2, <1>4, <3>2, <3>3, <4>1 DEF Follows
    <3>5. Tuned(fdelay)'
      BY <3>2 DEF Tuned
    <3>6. choice' = "chosen" /\ window' = window
      BY <1>2, <2>2
    <3> QED
      BY <1>3, <3>2, <3>4, <3>5, <3>6 DEF Delayed, nmax
  <2> QED
    BY <2>1, <2>2
<1> QED
  BY <1>2, <1>5, <1>6 DEF IInv

LEMMA Inductive == IInv /\ [Next]_vars => IInv'
<1> SUFFICES ASSUME IInv, [Next]_vars PROVE IInv'
  OBVIOUS
<1>1. ASSUME NEW b \in Line!Batches, Write(b) PROVE IInv'
  BY <1>1, WriteStep
<1>2. ASSUME NEW len \in Lengths, Recreate(len) PROVE IInv'
  BY <1>2, RecreateStep
<1>3. CASE Reset
  BY <1>3, ResetStep
<1>4. ASSUME NEW delta \in Deltas, AdjustDelay(delta) \/ AdjustDelay(-delta) PROVE IInv'
  <2>1. delta \in Int /\ -delta \in Int
    BY LineAssumption
  <2> QED
    BY <1>4, <2>1, AdjustStep
<1>5. CASE UNCHANGED vars
  <2>1. IInv <=> IInv'
    BY <1>5 DEF vars, IInv, Whole, Buffered, Delayed, Follows, Tuned
  <2> QED
    BY <2>1
<1> QED
  BY <1>1, <1>2, <1>3, <1>4, <1>5 DEF Next

LEMMA Invariance == Spec => []IInv
<1>1. Init => IInv
  BY InitIs
<1> QED
  BY <1>1, Inductive, PTL DEF Spec

-----------------------------------------------------------------------------
(* The theorems. *)

(* Every access of the three objects stays inside its allocation, for every
   set of lengths and any order of pushes, re-creations, resets and retunings. *)
THEOREM TypeTheorem == Spec => []TypeOK
<1>1. IInv => TypeOK
  <2> SUFFICES ASSUME IInv PROVE TypeOK
    OBVIOUS
  <2>1. Whole /\ Buffered /\ Delayed
    BY DEF IInv
  <2>2. /\ window.len \in Lengths /\ window.len \in Nat \ {0}
        /\ window.n = W!Ring(window.len) /\ window.read_index \in 0..(window.n - 1)
        /\ window.v \in [0..(window.n + window.len - 2) -> Values]
    BY <2>1, LineIs, WindowIs
  <2>3. /\ wdelay.delay + 1 \in Lengths /\ wdelay.read_index \in 0..wdelay.delay
        /\ wdelay.v \in [0..wdelay.delay -> Values]
    <3> DEFINE delay == window.len - 1
    <3>1. delay \in Nat /\ delay + 1 = window.len /\ wdelay \in Buffers(delay)
      BY <2>1, <2>2 DEF Buffered
    <3> HIDE DEF delay
    <3> QED
      BY <2>2, <3>1, BufferIs
  <2>4. ASSUME fdelay # NoDelay
        PROVE  /\ fdelay.delay \in 0..(fdelay.nmax * Grid)
               /\ fdelay.w_index \in 0..fdelay.nmax /\ fdelay.f_index \in 0..(npfb - 1)
               /\ fdelay.v \in Values
    <3>1. window.len > 1
      BY <2>1, <2>2, <2>4 DEF Delayed
    <3> QED
      BY <2>1, <3>1, DelayedIs, DelayIs
  <2> QED
    BY <2>1, <2>2, <2>3, <2>4 DEF TypeOK, Delayed
<1> QED
  BY <1>1, Invariance, PTL

(* The delay buffer gives out the oldest sample of the window, whatever the
   two were re-created to and wherever their rings had turned to.            *)
THEOREM SameOldestTheorem == Spec => []SameOldest
<1>1. IInv => SameOldest
  <2> SUFFICES ASSUME IInv PROVE SameOldest
    OBVIOUS
  <2>1. Whole /\ Buffered
    BY DEF IInv
  <2> DEFINE delay == window.len - 1
  <2>2. delay \in Nat /\ wdelay \in Buffers(delay) /\ D!Realigned(wdelay) = W!read(window)
    BY <2>1, LineIs DEF Buffered
  <2> HIDE DEF delay
  <2>3. D!read(wdelay) = W!read(window)[1]
    BY <2>2, BufferRead
  <2> QED
    BY <2>3 DEF SameOldest
<1> QED
  BY <1>1, Invariance, PTL

(* What the fractional delay feeds its filters is as old as the delay that was
   chosen says, to within half a filter, for every number of filters.        *)
THEOREM ReadsItsDelayTheorem == Spec => []ReadsItsDelay
<1>1. IInv => ReadsItsDelay
  <2> SUFFICES ASSUME IInv, choice = "used" PROVE ReadsItsDelay
    BY DEF ReadsItsDelay
  <2>1. Whole /\ Delayed
    BY DEF IInv
  <2> DEFINE len == window.len
             nmax == Depth(len)
  <2>2. len > 1
    <3>1. len \in Nat \ {0} /\ len # 1
      BY <2>1, LineIs DEF Delayed
    <3> QED
      BY <3>1
  <2>3. /\ nmax \in Nat \ {0} /\ nmax + 1 <= len /\ fdelay \in Delays(nmax)
        /\ fdelay.nmax = nmax /\ Fits(fdelay, len, W!read(window)) /\ len \in Nat
    BY <2>1, <2>2, DelayedIs, LineIs
  <2>4. Tuned(fdelay) /\ fdelay.v = W!read(fdelay.w)[fdelay.w_index + 1]
    BY <2>1, <2>2 DEF Delayed
  <2> HIDE DEF len, nmax
  <2>5. fdelay.w_index \in 0..nmax
    BY <2>3, DelayIs
  <2>6. fdelay.v = W!read(window)[len - (fdelay.nmax - fdelay.w_index)]
    <3>1. /\ fdelay.w_index + 1 \in 1..(nmax + 1)
          /\ len - (nmax + 1) + (fdelay.w_index + 1) = len - (nmax - fdelay.w_index)
      BY <2>3, <2>5
    <3>2. W!read(fdelay.w)[fdelay.w_index + 1] =
            W!read(window)[len - (nmax + 1) + (fdelay.w_index + 1)]
      BY <2>3, <3>1 DEF Fits
    <3> QED
      BY <2>3, <2>4, <3>1, <3>2
  <2> QED
    BY <2>4, <2>6 DEF ReadsItsDelay, Tuned, len
<1> QED
  BY <1>1, Invariance, PTL

(* The window is the delay line that DelayLine promises: every operation of
   the owner is one of the promise's, or leaves the line as it was.          *)
THEOREM DelayLineTheorem == Spec => ImplementsDelayLine
<1> DEFINE s == W!read(window)
<1>1. Init => Line!Init
  <2> SUFFICES ASSUME Init PROVE Line!Init
    OBVIOUS
  <2>1. Whole /\ s = Silence(window.len)
    BY InitIs DEF IInv
  <2>2. window.len \in Lengths
    BY <2>1, LineIs
  <2> QED
    BY <2>1, <2>2 DEF Line!Init, Line!Zeros, Silence
<1>2. IInv /\ [Next]_vars => [Line!Next]_s
  <2> SUFFICES ASSUME IInv, [Next]_vars PROVE Line!Next \/ s' = s
    OBVIOUS
  <2> DEFINE len == window.len
  <2>1. len \in Nat \ {0} /\ s \in [1..len -> Values] /\ s \in Seq(Values) /\ Len(s) = len
    BY LineIs DEF IInv
  <2>2. ASSUME NEW b \in Line!Batches, Write(b) PROVE Line!Next
    <3>1. s' = Behind(len, s, b) /\ b \in Seq(Values)
      BY <2>2, WriteStep, BatchIs
    <3>2. s' = Line!Newest(len, s \o b)
      <4> HIDE DEF s, len
      <4> QED
        BY <2>1, <3>1, NewestIs
    <3>3. Line!Put(b)
      BY <2>1, <3>2 DEF Line!Put
    <3> QED
      BY <3>3 DEF Line!Next
  <2>3. ASSUME NEW n \in Lengths, Recreate(n) PROVE Line!Next
    <3>1. s' = Behind(n, Silence(n), s)
      BY <2>3, RecreateStep
    <3>2. n \in Nat \ {0} /\ Silence(n) \in [1..n -> Values]
      BY Sizes DEF WindowLengths, Silence
    <3>3. s' = Line!Newest(n, Silence(n) \o s)
      <4> HIDE DEF s
      <4> QED
        BY <2>1, <3>1, <3>2, NewestIs
    <3>4. Line!Zeros(n) = Silence(n)
      BY DEF Line!Zeros, Silence
    <3>5. Line!Resize(n)
      BY <3>3, <3>4 DEF Line!Resize
    <3> QED
      BY <3>5 DEF Line!Next
  <2>4. CASE Reset
    <3>1. s' = Silence(len)
      BY <2>4, ResetStep
    <3>2. Line!Clear
      BY <2>1, <3>1 DEF Line!Clear, Line!Zeros, Silence
    <3> QED
      BY <3>2 DEF Line!Next
  <2>5. ASSUME NEW delta \in Deltas, AdjustDelay(delta) \/ AdjustDelay(-delta) PROVE s' = s
    BY <2>5 DEF AdjustDelay
  <2>6. CASE UNCHANGED vars
    BY <2>6 DEF vars
  <2> QED
    BY <2>2, <2>3, <2>4, <2>5, <2>6 DEF Next
<1> QED
  BY <1>1, <1>2, Invariance, PTL DEF Spec, ImplementsDelayLine, Line!Spec
=============================================================================

---------------------------- MODULE OfdmFrameSync ----------------------------
(***************************************************************************)
(* Acquisition of an OFDM frame, src/src/multichannel/src/ofdmframesync.c.  *)
(* Handlers are given p, the number of samples of the frame in the window   *)
(* so far; what the metrics make of a window follows from where it lies,    *)
(* and is the noise's choice where it holds too little of a sequence.       *)
(***************************************************************************)
EXTENDS OfdmFrame

CONSTANTS
  Weak,      \* samples of S0 a transform may detect
  Strong,    \* samples of S0 a transform does detect
  Tries,     \* transforms that look for S1 (16 in the code)
  Alarms     \* may noise pass for S0?

ASSUME SyncAssumption ==
  /\ Weak \in 1..Strong /\ Strong \in 1..M
  /\ Tries \in Nat \ {0} /\ Alarms \in BOOLEAN

VARIABLES state, timer, num_symbols, ms_pilot
fs_vars == <<state, timer, num_symbols, ms_pilot>>

backoff == IF cp_len < 2 THEN cp_len ELSE 2

(* mutant: the pilot sequence runs on. *)
ofdmframesync_resetPilots ==
  /\ state' = "SEEKPLCP" /\ num_symbols' = 0 /\ UNCHANGED ms_pilot
(* ofdmframesync_reset, but for the timer, which two of its callers set to
   something else on their way out.                                          *)
ofdmframesync_reset ==
  /\ state' = "SEEKPLCP" /\ num_symbols' = 0 /\ ms_pilot' = 0

(* The transform covers samples p - M .. p - 1 of the frame. *)
Overlap(p) ==
  LET first == IF p > M THEN p - M ELSE 0
      last  == IF p < S0Len THEN p ELSE S0Len
  IN IF last > first THEN last - first ELSE 0

(* tau_hat: how far behind a repetition of the sequence the window starts. *)
AllTaus == -(M2 \div 2)..(M2 \div 2)
Taus(p) ==
  IF Overlap(p) >= Weak
  THEN {t \in AllTaus : (p - (M + 2 * cp_len + t)) % M2 = 0}
  ELSE AllTaus

Wait == timer' = timer + 1 /\ UNCHANGED <<state, num_symbols, ms_pilot>>

execute_seekplcp(p) ==
  /\ state = "SEEKPLCP"
  /\ IF timer + 1 < M
     THEN Wait
     ELSE /\ UNCHANGED <<num_symbols, ms_pilot>>
          /\ \/ /\ Overlap(p) < Strong
                /\ timer' = 0 /\ UNCHANGED state
             \/ /\ Overlap(p) >= Weak \/ Alarms
                /\ \E dt \in Taus(p) : timer' = ((M + dt) % M2) + M
                /\ state' = "PLCPSHORT0"

(* The timer counts up to M2 and has been set to M or more. *)
execute_S0a ==
  /\ state = "PLCPSHORT0"
  /\ IF timer + 1 < M2
     THEN Wait
     ELSE timer' = 0 /\ state' = "PLCPSHORT1" /\ UNCHANGED <<num_symbols, ms_pilot>>

(* mutant: the offset is added. *)
S1DelayLate(tau) == M + cp_len - backoff + tau
S1Delay(tau) == M + cp_len - backoff - tau
execute_S0b(p) ==
  /\ state = "PLCPSHORT1"
  /\ IF timer + 1 < M2
     THEN Wait
     ELSE /\ \E tau \in Taus(p) : timer' = S1Delay(tau)
          /\ state' = "PLCPLONG"
          /\ UNCHANGED <<num_symbols, ms_pilot>>

(* Of the positions M2 apart that are tried, the phase of g_hat is near zero
   in one; noise may put it there too.                                       *)
Aligned(p) == p - M = S1Start - backoff
Accepts(p) == IF Aligned(p) THEN {TRUE} ELSE {FALSE, Alarms}

Bails == num_symbols + 1 = Tries

(* mutant: the backoff is taken off again. *)
FirstSymbolDelayEarly == M + cp_len - backoff
FirstSymbolDelay == M + cp_len + backoff

execute_S1(p) ==
  /\ state = "PLCPLONG"
  /\ IF timer - 1 > 0
     THEN timer' = timer - 1 /\ UNCHANGED <<state, num_symbols, ms_pilot>>
     ELSE \E acquired \in Accepts(p) :
          IF acquired
          THEN /\ state' = "RXSYMBOLS" /\ timer' = FirstSymbolDelay
               /\ num_symbols' = 0 /\ UNCHANGED ms_pilot
          ELSE /\ timer' = M2
               /\ IF Bails
                  THEN ofdmframesync_reset
                  ELSE num_symbols' = num_symbols + 1 /\ UNCHANGED <<state, ms_pilot>>

(* execute_rxsymbols until its timer is down; then rxsymbol() and the owner's
   callback, after which the timer is set whatever the callback did.         *)
rxwait ==
  /\ state = "RXSYMBOLS" /\ timer > 1
  /\ timer' = timer - 1
  /\ UNCHANGED <<state, num_symbols, ms_pilot>>
rxdue == state = "RXSYMBOLS" /\ timer = 1
SymbolDelay == M + cp_len
rxsymbol == num_symbols' = num_symbols + 1 /\ ms_pilot' = ms_pilot + 1

(* First sample of the transform of a symbol. *)
WindowStart(p) == p - M - backoff
=============================================================================

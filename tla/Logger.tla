------------------------------- MODULE Logger -------------------------------
(***************************************************************************)
(* The run-time logger, src/src/core/src/logging.c: the one object of the   *)
(* library that several threads use at once.  liquid_vlog() runs between    *)
(* two calls of a lock callback that the application supplies; the calls    *)
(* that configure the logger take no lock.  One step is one access to the   *)
(* shared object that another thread could tell apart; the lock behind the  *)
(* callback is the application's and is modelled as a plain mutex.          *)
(***************************************************************************)
EXTENDS Integers, Sequences, SequencesExt

CONSTANTS
  Threads,
  MaxCallbacks,  \* LIQUID_LOGGER_MAX_CALLBACKS, 32 in the code
  MaxLevel,      \* highest level of an event
  Info, Warn, Error,
  MaxEvents,     \* bound on the events logged between two resets
  Global,        \* is this qlog, the logger that liquid_error() reports to?
  AddLive        \* may a callback be added while other threads log?

ASSUME LoggerAssumption ==
  /\ MaxCallbacks \in Nat \ {0} /\ MaxEvents \in Nat
  /\ MaxLevel \in Nat /\ {Info, Warn, Error} \subseteq 0..MaxLevel
  /\ Global \in BOOLEAN /\ AddLive \in BOOLEAN

Levels == 0..MaxLevel
Slots == 1..MaxCallbacks
NoThread == "no thread"

ASSUME NoThreadAssumption == NoThread \notin Threads

VARIABLES
  level, min_level, cb_function, cb_context, cb_level, count,
  lock_callback,  \* is a lock callback set?
  owner,          \* the thread that holds the application's mutex
  pc,             \* where each thread is
  ev,             \* level of the event a thread logs, or of the callback it adds
  at,             \* slot a thread is at
  seen,           \* count[] as a thread read it
  stamped,        \* did the thread format a timestamp for its event?
  shown,          \* where the thread's event went, in order: 0 is stdout
  wanted,         \* level asked for by each callback added, oldest first
  logged          \* events of each level since the last reset

config == <<level, min_level, cb_function, cb_context, cb_level, lock_callback>>
vars == <<config, count, owner, pc, ev, at, seen, stamped, shown, wanted, logged>>

Logging == {"lock", "count", "counted", "stamp", "stdout", "callbacks"}
Adding == {"context", "level", "minimum"}

MinOf(levels) == CHOOSE m \in levels : \A l \in levels : m <= l
Free(i) == ~cb_function[i]
(* liquid_logger_get_num_callbacks: the slots before the first free one. *)
num_callbacks == Cardinality({i \in Slots : \A k \in 1..i : ~Free(k)})

(* Who may call what when: the lock callback serialises loggers, nothing
   serialises the calls that configure the object but the application.       *)
Alone(t) == \A u \in Threads \ {t} : pc[u] = "idle"
MayLog(t) == IF lock_callback THEN AddLive \/ \A u \in Threads : pc[u] \notin Adding
                              ELSE Alone(t)
MayAdd(t) == IF AddLive THEN \A u \in Threads : pc[u] \notin Adding ELSE Alone(t)

InBound == FoldFunction(+, 0, logged) + Cardinality({t \in Threads : pc[t] \in {"lock", "count"}})
             < MaxEvents

Go(t, from, to) == pc[t] = from /\ pc' = [pc EXCEPT ![t] = to]

Init ==
  /\ level = (IF Global THEN Info ELSE Warn) /\ min_level = level
  /\ cb_function = [i \in Slots |-> FALSE]
  /\ cb_context = [i \in Slots |-> 0]
  /\ cb_level = [i \in Slots |-> 0]
  /\ count = [l \in Levels |-> 0]
  /\ lock_callback = FALSE
  /\ owner = NoThread
  /\ pc = [t \in Threads |-> "idle"]
  /\ ev = [t \in Threads |-> 0]
  /\ at = [t \in Threads |-> 1]
  /\ seen = [t \in Threads |-> 0]
  /\ stamped = [t \in Threads |-> FALSE]
  /\ shown = [t \in Threads |-> <<>>]
  /\ wanted = <<>>
  /\ logged = [l \in Levels |-> 0]

-----------------------------------------------------------------------------
(* liquid_vlog.  An invalid level is reported by liquid_error(): to this
   logger if it is the global one, and then an event of level Error.         *)
Log(t, l) ==
  /\ Go(t, "idle", "lock")
  /\ MayLog(t) /\ InBound
  /\ ev' = [ev EXCEPT ![t] = l]
  /\ UNCHANGED <<config, count, owner, at, seen, stamped, shown, wanted, logged>>

(* mutant: the lock callback is not called before the count. *)
LockForgotten(t) ==
  /\ Go(t, "lock", "count")
  /\ UNCHANGED <<config, count, owner, ev, at, seen, stamped, shown, wanted, logged>>

Lock(t) ==
  /\ Go(t, "lock", "count")
  /\ IF lock_callback THEN owner = NoThread /\ owner' = t ELSE UNCHANGED owner
  /\ UNCHANGED <<config, count, ev, at, seen, stamped, shown, wanted, logged>>

(* count[level]++, a load and a store. *)
Count(t) ==
  /\ Go(t, "count", "counted")
  /\ seen' = [seen EXCEPT ![t] = count[ev[t]]]
  /\ logged' = [logged EXCEPT ![ev[t]] = @ + 1]
  /\ UNCHANGED <<config, count, owner, ev, at, stamped, shown, wanted>>

Counted(t) ==
  /\ Go(t, "counted", "stamp")
  /\ count' = [count EXCEPT ![ev[t]] = seen[t] + 1]
  /\ seen' = [seen EXCEPT ![t] = 0]
  /\ UNCHANGED <<config, owner, ev, at, stamped, shown, wanted, logged>>

(* A timestamp is costly: it is formatted only if someone will show it. *)
Stamp(t) ==
  /\ Go(t, "stamp", "stdout")
  /\ stamped' = [stamped EXCEPT ![t] = ev[t] >= min_level]
  /\ UNCHANGED <<config, count, owner, ev, at, seen, shown, wanted, logged>>

Stdout(t) ==
  /\ Go(t, "stdout", "callbacks")
  /\ shown' = IF ev[t] >= level THEN [shown EXCEPT ![t] = Append(@, 0)] ELSE shown
  /\ UNCHANGED <<config, count, owner, ev, at, seen, stamped, wanted, logged>>

Over(t) == at[t] \notin {i \in Slots : ~Free(i)}
(* mutant: an event at the very level asked for is kept back. *)
ListensAbove(i, l) == l > cb_level[i]
Listens(i, l) == l >= cb_level[i]

Invoke(t) ==
  /\ pc[t] = "callbacks" /\ ~Over(t)
  /\ shown' = IF Listens(at[t], ev[t])
              THEN [shown EXCEPT ![t] = Append(@, cb_context[at[t]])] ELSE shown
  /\ at' = [at EXCEPT ![t] = @ + 1]
  /\ UNCHANGED <<config, count, owner, pc, ev, seen, stamped, wanted, logged>>

(* mutant: a call whose event nobody sees returns without unlocking. *)
ReleaseIfShown(t) == IF lock_callback /\ shown[t] # <<>> THEN NoThread ELSE owner
Release(t) == IF lock_callback THEN NoThread ELSE owner

Unlock(t) ==
  /\ Over(t) /\ Go(t, "callbacks", "idle")
  /\ owner' = Release(t)
  /\ at' = [at EXCEPT ![t] = 1]
  /\ stamped' = [stamped EXCEPT ![t] = FALSE]
  /\ shown' = [shown EXCEPT ![t] = <<>>]
  /\ ev' = [ev EXCEPT ![t] = 0]
  /\ UNCHANGED <<config, count, seen, wanted, logged>>

-----------------------------------------------------------------------------
(* liquid_logger_add_callback, also the end of add_file and add_filename. *)
AddCallback(t, l) ==
  /\ MayAdd(t) /\ num_callbacks < MaxCallbacks
  /\ Go(t, "idle", "context")
  /\ at' = [at EXCEPT ![t] = num_callbacks + 1]
  /\ cb_function' = [cb_function EXCEPT ![num_callbacks + 1] = TRUE]
  /\ ev' = [ev EXCEPT ![t] = l]
  /\ wanted' = Append(wanted, l)
  /\ UNCHANGED <<level, min_level, cb_context, cb_level, lock_callback,
                 count, owner, seen, stamped, shown, logged>>

(* Every slot is taken: liquid_error(), which logs to the global logger. *)
AddRefused(t) ==
  /\ MayAdd(t) /\ num_callbacks = MaxCallbacks
  /\ Global /\ InBound
  /\ Go(t, "idle", "lock")
  /\ ev' = [ev EXCEPT ![t] = Error]
  /\ UNCHANGED <<config, count, owner, at, seen, stamped, shown, wanted, logged>>

AddContext(t) ==
  /\ Go(t, "context", "level")
  /\ cb_context' = [cb_context EXCEPT ![at[t]] = Len(wanted)]
  /\ UNCHANGED <<level, min_level, cb_function, cb_level, lock_callback,
                 count, owner, ev, at, seen, stamped, shown, wanted, logged>>

AddLevel(t) ==
  /\ Go(t, "level", "minimum")
  /\ cb_level' = [cb_level EXCEPT ![at[t]] = ev[t]]
  /\ UNCHANGED <<level, min_level, cb_function, cb_context, lock_callback,
                 count, owner, ev, at, seen, stamped, shown, wanted, logged>>

(* mutant: a new callback does not lower the minimum. *)
LowerNever(l) == min_level
Lower(l) == MinOf({l, min_level})
(* mutant: the slot just filled is marked free. *)
TerminatorHere(t) == at[t]
Terminator(t) == at[t] + 1

(* The next slot is marked free, and min_level follows. *)
AddMinimum(t) ==
  /\ Go(t, "minimum", "idle")
  /\ cb_function' = [i \in Slots |-> i # Terminator(t) /\ cb_function[i]]
  /\ min_level' = Lower(ev[t])
  /\ at' = [at EXCEPT ![t] = 1]
  /\ ev' = [ev EXCEPT ![t] = 0]
  /\ UNCHANGED <<level, cb_context, cb_level, lock_callback,
                 count, owner, seen, stamped, shown, wanted, logged>>

SetLevel(t, l) ==
  /\ pc[t] = "idle" /\ Alone(t)
  /\ level' = l
  /\ min_level' = MinOf({l} \cup {cb_level[i] : i \in 1..num_callbacks})
  /\ UNCHANGED <<cb_function, cb_context, cb_level, lock_callback,
                 count, owner, pc, ev, at, seen, stamped, shown, wanted, logged>>

SetLock(t, given) ==
  /\ pc[t] = "idle" /\ Alone(t)
  /\ lock_callback' = given
  /\ UNCHANGED <<level, min_level, cb_function, cb_context, cb_level,
                 count, owner, pc, ev, at, seen, stamped, shown, wanted, logged>>

Reset(t) ==
  /\ pc[t] = "idle" /\ Alone(t)
  /\ level' = Warn /\ min_level' = Warn
  /\ lock_callback' = FALSE
  /\ cb_function' = [i \in Slots |-> FALSE]
  /\ cb_context' = [i \in Slots |-> 0]
  /\ cb_level' = [i \in Slots |-> 0]
  /\ count' = [l \in Levels |-> 0]
  /\ wanted' = <<>>
  /\ logged' = [l \in Levels |-> 0]
  /\ UNCHANGED <<owner, pc, ev, at, seen, stamped, shown>>

Work(t) == Lock(t) \/ Count(t) \/ Counted(t) \/ Stamp(t) \/ Stdout(t) \/ Invoke(t)
             \/ Unlock(t) \/ AddContext(t) \/ AddLevel(t) \/ AddMinimum(t)

Next == \E t \in Threads :
  \/ \E l \in Levels : Log(t, l) \/ AddCallback(t, l) \/ SetLevel(t, l)
  \/ AddRefused(t)
  \/ \E given \in BOOLEAN : SetLock(t, given)
  \/ Reset(t)
  \/ Work(t)

Spec == Init /\ [][Next]_vars

(* A call that has begun is run to its end, and the application's mutex does
   not starve a thread that keeps asking for it.                             *)
FairSpec == Spec /\ \A t \in Threads : WF_vars(Work(t)) /\ SF_vars(Lock(t))

-----------------------------------------------------------------------------
(* The variables keep to their types, and no slot is used before an earlier. *)
TypeOK ==
  /\ {level, min_level} \subseteq Levels
  /\ cb_function \in [Slots -> BOOLEAN] /\ cb_level \in [Slots -> Levels]
  /\ cb_context \in [Slots -> 0..MaxCallbacks]
  /\ \A i, k \in Slots : i < k /\ ~Free(k) => ~Free(i)
  /\ lock_callback \in BOOLEAN /\ owner \in Threads \cup {NoThread}
  /\ count \in [Levels -> Nat] /\ logged \in [Levels -> Nat]
  /\ pc \in [Threads -> {"idle"} \cup Logging \cup Adding]
  /\ ev \in [Threads -> Levels] /\ seen \in [Threads -> Nat]
  /\ at \in [Threads -> 1..MaxCallbacks + 1] /\ stamped \in [Threads -> BOOLEAN]
  /\ shown \in [Threads -> Seq(0..MaxCallbacks)]
  /\ wanted \in Seq(Levels) /\ Len(wanted) = num_callbacks

(* A callback is never invoked with an event below the level it was added
   with ("minimum log level for which callback will be invoked").            *)
MinimumLevel ==
  \A t \in Threads, i \in 1..MaxCallbacks :
    i \in {shown[t][k] : k \in 1..Len(shown[t])} => ev[t] >= wanted[i]

(* Of the first k callbacks those that asked for events of level l, in the
   order in which they were added: w holds the level that each asked for.    *)
Asked(w, l) ==
  LET asked[k \in 0..Len(w)] ==
        IF k = 0 THEN <<>>
        ELSE IF l >= w[k] THEN Append(asked[k - 1], k) ELSE asked[k - 1]
  IN  asked
OnStdout(l) == IF l >= level THEN <<0>> ELSE <<>>

(* When a call is about to end its event has gone to stdout if its level
   allows, then to exactly the callbacks that asked for it, each once, in the
   order in which they were added, whatever other threads logged meanwhile.  *)
Delivered ==
  \A t \in Threads : pc[t] = "callbacks" /\ Over(t) =>
    shown[t] = OnStdout(ev[t]) \o Asked(wanted, ev[t])[Len(wanted)]

(* No event is shown without its timestamp: min_level, maintained apart by
   three functions, is never above a level at which somebody listens.        *)
Stamped == \A t \in Threads : shown[t] # <<>> => stamped[t]

(* The counters that get_num_events and liquid_exit report lose no event:
   they differ from the events logged only by those between the load and the
   store of an increment.                                                    *)
CountsExact ==
  \A l \in Levels :
    logged[l] = count[l] + Cardinality({t \in Threads : pc[t] = "counted" /\ ev[t] = l})

(* Every call of liquid_log() or add_callback() returns. *)
CallsReturn == \A t \in Threads : pc[t] # "idle" ~> pc[t] = "idle"
=============================================================================

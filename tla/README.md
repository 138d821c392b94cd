# TLA+ models of liquid-dsp

liquid-dsp is a C library for digital signal processing in software radios. Most
of its source computes numbers; this project is about the part that keeps *state
across calls*: buffers that wrap around, framing state machines that are fed one
sample at a time, objects that several threads share. Sample values, filter
coefficients and what a demodulator makes of noise are abstracted to what the
properties tell apart (which sample or symbol this is, where it came from, whether
a header turned out valid); the control around them is kept in full.

`src/` stands for a checkout of the liquid-dsp repository, so its own source directory is `src/src`.

## 1. The system and its parts

The library is a set of objects with a `create / reset / execute / destroy`
interface. An object belongs to its caller and is used by one thread at a time, with
the logger as the one exception. Objects contain other objects and call them; they
talk back to the application through callbacks run inside `execute()`.

    application
      | assemble, write_samples            execute(x[], n) |   ^ callback(header, payload, ...)
      v                                                    v   |
    flexframegen --> firinterp ===== samples =====> flexframesync --> qdetector (512-sample buffers)
      |  qpilotgen, qpacketmodem                           |  mixer, firpfb, qpilotsync, qpacketmodem
      v                                                    v
    packetizer (crc, fec, interleaver)  <----  same  ----> packetizer

    ofdmflexframegen --> ofdmframegen == samples ==> ofdmframesync --(a symbol)--> ofdmflexframesync
    bpacketgen ============== bits ==============> bpacketsync --> bsequence, packetizer
    cbuffer / window / wdelay: storage under filters, resamplers, agc, spwaterfall
    logging: liquid_error() and every warning of every object end here

| part (source under `src/src`) | state | operations | hard behaviour | what makes it correct |
|---|---|---|---|---|
| **cbuffer** `buffer/src/cbuffer.proto.c` | ring with an extension, `read_index`, `write_index`, `num_elements` | push, write, pop, read, release, reset | wrap-around, split copies, a pointer into the ring held by the caller across writes | it is a FIFO queue; a slice that was read stays readable |
| **window, wdelay** `buffer/src/window.proto.c`, `wdelay.proto.c` | ring with a mirrored tail; ring of `delay+1` cells | push, write, read, index, recreate, reset | re-creation with another length while in use | the newest *n* samples in order |
| **flexframegen** `framing/src/flexframegen.c` | section, symbol and sample counters, flags, the interpolator's memory | assemble, setprops, set_header_len, write_samples, reset | buffers that split a symbol; memory of the filter across frames; configuration between frames | each frame exactly once, then zeros |
| **qdetector** `framing/src/qdetector.proto.c` | two 512-sample buffers, a counter, seek/align | execute, reset | overlap of transforms; moving samples between buffers in place | no sample lost when a peak is aligned |
| **flexframesync** `framing/src/flexframesync.c` | receive state, symbol clock, counters, detector, filters | execute, reset, set_header_len | `execute()` calls itself on the detector's memory; frames that end in the middle of that | samples reach the demodulator in order; every frame that opens closes |
| **logging** `core/src/logging.c` | levels, callback slots, counters, a lock callback | log, add_callback, set_level, set_lock, reset | threads; cached minimum level; a table that fills | each event to exactly those that asked for it |
| **bpacketgen, bpacketsync** `framing/src/bpacketgen.c`, `bpacketsync.c`, with packetizer, msequence, bsequence | bit and byte counters, the correlator, polarity, lengths and schemes read from the header, buffers sized by them | encode, recreate; execute by bit, byte and symbol, reset | state overwritten by a header that turns out invalid; inverted streams; bits lost; false alarms inside a packet | a packet sent is a packet received; nothing else is called valid |
| **ofdmflexframegen, ofdmframegen** `framing/src/ofdmflexframegen.c`, `multichannel/src/ofdmframegen.c` | section, symbol and sample counters, flags, pilot sequence | assemble, setprops, set_header_len, write, reset | sections end by counts that configuration changes; the last OFDM symbol of a section is filled up | each section is sent whole, the frame ends where `getframelen()` says |
| **ofdmframesync, ofdmflexframesync** `multichannel/src/ofdmframesync.c`, `framing/src/ofdmflexframesync.c` | S0/S1 detection states, one timer, pilot sequence; section and symbol counters, buffers | execute, reset, set_header_len, decode_*_soft | one timer set by hand in every state, with an estimate taken off it; the upper object resets the lower from inside its callback | every frame heard from its start is cut into its own symbols and delivered; whatever was taken for a frame is left again |
| other frames (dsssframe, dsssframe64, framegen64, gmskframe, fskframe), qdsync | like flexframe, smaller | like flexframe | like flexframe | like flexframe |
| symstream, symstreamr, symtrack, msource, qsource | buffers of symbols, a list of sources | write_samples, add, remove, set rate | sources added and removed while running | block boundaries do not show |
| qpacketmodem, qpilotgen, qpilotsync | lengths | configure, encode, decode | lengths that must agree on both sides | decode after encode is the identity |
| detector_cccf, bsync, presync, bpresync | window, counters | execute | numeric decisions | -- |
| framesyncstats, framedatastats | counters | reset, print | none | -- |
| agc `agc/` | gain, squelch mode and timer | execute, squelch control, lock | an unsigned timer decremented before it is compared; squelch hysteresis | legal mode changes; timeout after exactly the period |
| **fdelay** `filter/src/fdelay.proto.c` | a window, the delay, an index into the window and one into the filter bank | push, write, set_delay, adjust_delay, reset | rounding that carries from one index into the other | the sample its delay names |
| resamp, rresamp, msresamp, symsync `filter/` | fixed-point phase, buffer indices | execute, set rate, reset | outputs per input vary; phase overflow | the promised number of outputs |
| filters and their design `filter/` | coefficients, windows | push, execute | recreation | numeric |
| fft, spgram, spwaterfall, asgram `fft/` | transforms, a waterfall buffer that folds | push, write | fold of a full buffer | numeric, apart from the fold |
| fec `fec/` | tables | encode, decode | none between calls | decode after encode is the identity |
| modem `modem/` | constellations, phase memory of dpsk, cpfsk, gmsk | modulate, demodulate | phase memory | numeric |
| channel, dotprod, equalization, math, matrix, nco, optim, quantization, random, sequence, utility, vector, audio | mostly none | mostly pure functions | none between calls | numeric |

`PROJECT.json` lists the parts with their sources and a status each, and every
hazard at its line.

## 2. The modules

| module | models | role |
|---|---|---|
| `Fifo` | -- | abstract queue: what `cbuffer` promises |
| `CBuffer` | cbuffer | memory, indices, the slice the caller holds; implements `Fifo` |
| `CBufferProofs` | -- | theorems about `CBuffer` for every size |
| `FrameSource` | -- | abstract generator: the symbols of a frame, in order, once |
| `FlexFrameGen` | flexframegen with the memory of firinterp/firpfb | implements `FrameSource` |
| `FlexFrameGenProofs`, `FlexFrameGenSourceProofs` | -- | theorems about `FlexFrameGen` for every rate, filter delay and length |
| `QDetector` | qdetector | operators on the two buffers, called by its owner |
| `FlexFrameSync` | flexframesync, EXTENDS `QDetector` | live input, replay, receive states |
| `FlexFrameSyncProofs` | -- | theorems about it for every size of buffer, template and section |
| `DelayLine` | -- | abstract delay line: what window and wdelay promise |
| `Window`, `WDelay` | window, wdelay | operators on the record of the object's fields |
| `FDelay` | fdelay, over `Window` | operators on the record of the object's fields |
| `DelayLines` | the three, in lockstep | one owner that gives them the same samples; implements `DelayLine` |
| `DelayLinesProofs` | -- | theorems about them for every length |
| `OfdmFrame` | -- | the sizes both ends of an OFDM frame agree on |
| `OfdmFlexFrameGen` | ofdmflexframegen, ofdmframegen | one step for each sample written |
| `OfdmFrameSync` | ofdmframesync | acquisition: operators and the handlers of its states |
| `OfdmFlexFrameSync` | ofdmflexframesync, EXTENDS `OfdmFrameSync` | the symbol callback, header and payload |
| `OfdmLink`, `MCOfdmLink` | both ends, composed | what the generator writes the synchronizer executes |
| `OfdmLinkProofs` | -- | theorems about the link for every number of subcarriers, prefix and section |
| `Packetizer` | packetizer, lengths of fec and crc | operators |
| `BPacketGen` | bpacketgen, msequence | the packet as header, encoding and bits |
| `BPacketSync` | bpacketsync, bsequence, EXTENDS `BPacketGen` | one step for each bit executed |
| `BPacketLink`, `MCBPacketLink` | both ends, composed | the line between them and its troubles |
| `BPacketLinkProofs` | -- | theorems about the link for every polynomial and configuration |
| `Logger` | logging | threads, the lock callback, the callback table |
| `LoggerProofs` | -- | theorems about it for any number of threads, slots and levels |

### CBuffer

`v`, `num_elements`, `read_index` and `write_index` are the fields of the C
structure; `max_size` and `max_read` are constants. Each call is one action with its
guard and its error: a refused call changes nothing and returns `EIRANGE`. `read()`
returns a pointer, so the model remembers the slice it covers (`slice`) until the
caller gives samples back. `call` and `out` record the last call for the refinement.
The mapping to `Fifo` takes `Queue`, the `num_elements` cells from `read_index` on.

*Assumption on the caller.* `write()` leaves `write_index = max_size` when it ends
exactly at the end of the ring, and `push()` then stores behind the ring. `PushAtEnd`
says whether the caller may push in that state. With `FALSE` the buffer is a FIFO
(checked and proved); with `TRUE` it is not (finding 1).

### FlexFrameGen

A symbol is a record of its frame, its section and its place. A sample is the *set of
symbols* that the pulse-shaping filter mixes into it: the interpolator's window holds
`2m+1` symbols and the sub-filter of phase `p` has a tap on symbol `j` if `j*k+p` is
within the prototype. That is all the filter does to the properties, and it shows a
symbol that leaks out of its frame. `write_samples(buf, n)` is `Write(n)` followed by
`n` `Sample` steps, one per turn of the loop; other calls come between calls, never
inside one, as the object belongs to one thread. What header and payload encode to is
abstract; their lengths are any of a given set. The mapping to `FrameSource` takes
the symbols between the current position and the end of the frame.

*Assumption on the caller.* `Abort` says whether the caller may reset or assemble in
the middle of a frame. With `TRUE`, zeros are not written although the interface says
so (finding 2).

### QDetector and FlexFrameSync

Samples are known by number, modulo `Window > NFFT`, so every sample in the detector's
buffers is different from every other and a skipped or repeated one shows. A cell holds
a sample, a zero, or `Noise` (correlator output). Whether a correlation peak clears the
threshold, and at which index, is the signal's choice among the indices the code lets
through; so are the sign of the timing estimate, header and payload validity and the
length a header announces.

When the detector returns its buffer, `execute_seekpn()` calls `execute()` on that
buffer: a recursive call inside the handling of one sample, which reads memory that the
detector owns. `flush` is the stack of those calls; each `Flush` step reads the cell as
it is *then*. A `Live` step is one sample of the application; it can only happen when no
replay runs. The quiet path of the detector (too little energy: no transform) is the
choice in `Miss` that spares `buf_time_1`.

*Assumptions.* `ZeroIndex` says whether a peak may be found at index 0 (finding 3). The
main run takes headers long enough that a replay cannot run into a new transform
(finding 4). The header length is set between frames.

### Window, WDelay, FDelay and DelayLines

The objects are embedded in others and are replaced as a whole by `recreate()`, so a module
holds operators on the record of the object's fields (as `QDetector` does for its variables), and
`DelayLines` owns one of each, the fractional delay covering the newest `MaxDelay` samples. A push, a carry of the ring and a re-creation are the code's own copies,
cell by cell, their loops recursive functions of the number of turns; the mirrored tail and the stale cells are there. The window is mapped to `DelayLine` by what
`read()` points at. The delay buffer shows its caller one sample only, so its property is about that
sample: it is the oldest one of a window one longer, after any history. A fractional delay is counted in
`1/Grid` of a sample and `set_delay()` is translated with its rounding, so the property compares the delay
that `get_delay()` tells with the sample the filter bank was given and the filter that is chosen. It says
nothing of a delay nobody chose: `create()` and `reset()` set `delay = 0` and `w_index = nmax - 1`, the index
of a delay of 1, so a new object tells 0 and delays by 1 until `set_delay()` is called (a variant of the run
without `choice` shows it at once).

### The OFDM link

`sent` counts the samples of the frame on the air, and every handler of the synchronizer is told that place.
What a metric makes of a window then follows from where the window lies: a transform that covers `Strong` samples
of the repeated short sequence detects it, one that covers fewer than `Weak` does so only as a false alarm, in between
either may happen; the estimate of the offset is exact modulo half a symbol where the sequence was heard and
arbitrary otherwise; the long sequence is recognised where the window is aligned and elsewhere only by chance. All
timers are the code's, with what is added, subtracted and overwritten in the order of the code. `rxsymbol()` and the
callback of the upper object are one step with the timer that is set after them. Subcarriers are counted, not
listed: a symbol takes `M_data` entries of a section, and `Advance` stops where the section is full.

*Assumptions.* A header that is not heard in step fails its check (a CRC of 32 bits by default). The callers configure
between frames: neither end refuses otherwise, and lengths of buffers in use would move. A frame is assembled before it
is written: `write()` before the first `assemble()`, or after `reset()`, plays a frame nobody assembled.

*Configurations outside the run.* Two are legal for the interface and do not work, as the model shows when it is
given them. (a) The header's modulation carries 3, 5, 6 or 7 bits and these do not divide the header's bits:
`liquid_repack_bytes()` refuses (`src/src/utility/src/pack_bytes.c:273-283`), `num_written` is read uninitialized
(`src/src/framing/src/ofdmflexframesync.c:573`) and no header is ever valid. `header_bps = 3` with `HeaderBytes = {2}` violates
`DeliversOnTime`, with `{3}` it passes; the default header coding makes even lengths that hide it for some user headers.
(b) Soft decoding of a header of more than one bit a symbol: `header_sym_len` counts bits (line 267) and each symbol
writes several values into a buffer of as many, `header_bps = 2` with `SoftHeader = {TRUE}` violates `BuffersFit`.
A taper longer than the prefix less the backoff puts the window of a symbol into its overlap with the one before; the
code does not refuse it.

### The packet link

The P/N sequence is generated by the shift register of the code, bit by bit, and the correlator counts on 64 real
bits; header and payload are a packet's description, and what the packetizer's decoder may report follows from
whether every bit since the P/N sequence was the next one of the packet (`whole`) and whether one was wrong (`hit`). `brx`
is cleared when a P/N sequence is found, where the code leaves it for `reset()` to clear: nobody reads it between.
The three forms of `execute` are loops of `execute_bit`.

*The line.* One trouble a packet, beside the edge of a byte: a run of inverted bits, a bit lost or repeated, a change of
polarity, or a reset by the user. Bits behind the P/N sequence are zeros in the header and, in the payload, the worst case
for the correlator: the P/N sequence itself, so a synchronizer that lost its packet locks inside the payload. With packets
back to back this can repeat for ever, each false packet eating the next P/N sequence; no property promises otherwise.
A payload that *ends* with most of the P/N sequence alarms the correlator early in the next packet; it is left out.

*Not in the model.* A header may name a scheme that only a build with libfec has. It passes the validation
(`src/src/framing/src/bpacketsync.c:439-444`), its encoded length is 0, `reconfig()`'s return is not looked at (line 358), and the payload
never ends.

### Logger

Each thread walks through `liquid_vlog()` one shared access at a time: lock, load and
store of the counter, the test against `min_level`, the test against `level`, each slot
of the callback table, unlock. The lock behind the callback is the application's, modelled
as a plain mutex. Without a lock callback only one thread logs at a time, which is the
contract of every other object. Configuration calls take no lock in the code, so the
application makes them when no other thread is in a call; `AddLive` lifts that for
`add_callback`, which is split into its stores in the order of the
source. A refused `add_callback` is itself an event of the global logger.

*A configuration outside the run.* With `AddLive = TRUE` and `Global = FALSE` TLC finds `MinimumLevel` violated: `add_callback` takes no lock, not even the
lock callback, and stores the function before the level (`src/src/core/src/logging.c:451`), so a thread inside `liquid_vlog()` calls
the new callback with whatever level the slot held, below the "minimum log level for which callback will be invoked"
(`src/include/liquid.h:434`). No document says whether the call may be made while others log, so the run keeps to callers that do not.

## 3. What is checked

| run | instance | shows |
|---|---|---|
| `cbuffer` | 3 cells, `max_read` 3 (extension of 2), 2 sample values, requests 0..4 | types; `IndicesAgree`; `SliceHolds`; `ImplementsFifo` |
| `cbuffer_push_at_end` | the same, caller may push at the end | finding 1 |
| `flexframegen` | `k=2`, `m=2`, preamble 2, header and payload of 1 or 2 symbols, buffers of 0..3 samples, 3 frames | types with array bounds; `CleanFrames`; `ZerosWhenNotAssembled`; `LengthPromise`; `ImplementsSource`; `FrameFinishes` |
| `flexframegen_abort` | the same, frames may be abandoned | finding 2 |
| `flexframesync` | preamble 1, `m=1`, template 6, buffers of 16, headers of 2 or 3, payloads of 1 or 4 symbols | types with array bounds; `SamplesInOrder`; `FlushIsBuffered`; `OneFlush`; `WithinFrame`; `FrameCloses` |
| `flexframesync_zero_index` | the same, peak at 0 allowed | finding 3 |
| `flexframesync_short_header` | header of 1 symbol | finding 4 |
| `delaylines` | lengths 1..4 (rings of 2, 4, 4 and 8 cells), bursts of 0..2 samples out of 2 values, fractional delays up to 2 in quarters over 2 filters | field ranges; `ImplementsDelayLine`; `SameOldest`; `ReadsItsDelay` |
| `delaylines_longer` | the same | `RetainedAtBeginning`, what the documentation says of a longer window: finding 5 |
| `ofdm` | `M = 8`, prefix 3, taper 1, 6 data subcarriers, headers of 1 or 2 bytes, payloads of 1 and 2 OFDM symbols, hard and soft decoding, false alarms, 5 tries for S1 | types with the ranges of timers and indices; `WindowInSymbol`; `SameSymbol`; `FrameAcquired`; `DeliversOnTime`; `BuffersFit`; `FrameWhole`; `FrameFinishes`; `FrameCloses` |
| `bpacket` | P/N sequence of 64 bits, header of 96, a payload of 15 bytes and two that the header cannot say, both polarities, bursts of 6 and 7, pauses of none and of 64 bits | types with the ranges of counters; `BuffersMatch`; `NoEarlyAlarm`; `PnFound`; `DeliversOnTime`; `ValidIsWhole` |
| `logger` | 2 threads, 2 slots, 3 levels, 3 events between resets, the global logger | types with the shape of the table; `Delivered`; `Stamped`; `CountsExact`; `CallsReturn` |

Every property of a passing run has a mutant in `PROJECT.json`: a plausible slip in the
code under which TLC finds the property violated.

### The bounds and why they are enough

* *cbuffer.* The code distinguishes a read or write by where it lies relative to the end
  of the ring. With three cells and requests up to four, every combination of
  (start index, fill level, length below/at/above the end) occurs, a slice covers none,
  part or all of the extension, and a request larger than `max_read` as well as one larger
  than the buffer is refused or cut. The theorems remove the bound.
* *flexframegen.* All ends of sections are equalities with a length; lengths of one
  (the section ends with its first symbol) and two (a counter runs) show both cases.
  Buffers of 0, 1 and 3 samples split a symbol, 2 does not. Three frames let a frame
  follow a frame that follows a frame, with the filter's five-symbol window reaching over
  a whole short frame. `K` and `M` are 2 and 7 in the code; only `2m` against the filter
  memory matters, and with `M = 2` the window is wider than a section.
* *flexframesync.* Real values: template 156, buffers 512, header about 216 symbols. Kept:
  the template is `2*(preamble + 2m)` samples and fits twice in the buffer, the second half
  of a buffer goes back to the detector, a frame may end inside the replay (header 2 or 3
  and payload 1) or after it (payload 4), and every admissible peak position is tried. `Window` is
  one more than the buffer: the least modulus under which all numbers in a buffer differ.
* *delaylines.* Lengths 1..4 take a length just below, at and above a power of two, and every change
  from each to each, at every place of the rings; two sample values tell a sample from a neighbour over any history. With two
  filters a quarter rounds to either filter and three quarters up to a whole sample; delays reach both ends of the range.
* *ofdm.* The phases between frame and transforms (one in `M` samples) are all reached, as are all answers of the metrics
  at each. Five tries instead of 16 keep the same order: enough for S1 to be tried where it is whatever the first detection was,
  and to give up. Six data subcarriers divide neither a header nor a payload, so the last symbols are partly filled; a payload of
  5 bits a symbol does not fill its last subcarrier. A prefix of 3 with a taper of 1 and a backoff of 2 leaves no sample to spare at either end.
* *bpacket.* Six wrong bits of 64 are the most that the correlator forgives, seven too many. `LengthField = 8` and `MaxPayloadLen = 6`
  give a length that wraps to 0 and one that wraps to a legal one.
* *logger.* Two threads suffice for a lost update or a waiting thread; two slots give an
  empty, a partly filled and a full table (the full one has no terminator); three levels give
  one below, at and above any threshold; three events let two threads be in a call with one
  counted already.

### Fairness

Liveness is checked under weak fairness of the steps *inside* a call (a call runs to its
end: the code has no waiting except in the lock callback) and of the caller's next call of
`write_samples` with a non-empty buffer, or of `execute` with a sample: an application loop such as
those in `src/examples` calls again until the frame is complete. For the logger also strong
fairness of `Lock`: the mutex of the application does not pass over a waiting thread for ever.
For the OFDM link, weak fairness of `Sample`: a receiver's samples never stop, and a transmitter is called for every sample
or sends nothing. The packet link has no liveness property: a line may be in trouble for ever.
No fairness is assumed of configuration calls.

## 4. What the runs found

1. **cbuffer: push after a write that ends at the end of the ring**
   (`src/src/buffer/src/cbuffer.proto.c:222`). `write()` leaves `write_index = max_size`; the next
   `push()` stores at `v[max_size]`, outside the ring (outside the allocation when `max_read` is 1), and the
   queue then yields a stale sample. `write()` after `write()` is not affected.
2. **flexframegen: reset in mid-frame leaves symbols in the interpolator**
   (`src/src/framing/src/flexframegen.c:203`). The following `write_samples()` writes up to `2m` symbols
   of the abandoned frame, where the documentation promises zeros.
3. **qdetector: a peak at index 0** (`src/src/framing/src/qdetector.proto.c:606`). The counter becomes
   `nfft` and the next sample is written one past the buffer and lost. The source carries a TODO for this case.
4. **flexframesync: the replay reads memory the detector writes**
   (`src/src/framing/src/flexframesync.c:472`). With headers of about 50 symbols or less a frame can end so early in
   the replay that the rest of it triggers another transform into the same memory. The default header is much longer.
5. **window: a longer window ends with the old samples** (`src/src/buffer/src/window.proto.c:92`). `recreate()` pushes
   zeros first and every old sample after them. The documentation (`src/include/liquid.h:1001-1003`) says that the newest values
   are "retained at the beginning of the buffer" and the oldest truncated: nothing is truncated, and the longer window begins with zeros.
   `RetainedAtBeginning` asks only that one retained sample or more stand there. The test (`src/src/buffer/tests/buffer_window_autotest.c:122-126`) expects what the code
   does, and so does `DelayLine`; the newest sample stays the newest, so a filter goes on as before.

## 5. What is proved

The theorems hold for every value of the constants that the modules' assumptions allow; hypotheses
beyond those are stated in the theorem and listed here. Every module has the same shape: an inductive invariant
whose parts are named, the lemmas about the operators, one lemma for each action, and the theorems at the end. The
runs checked each invariant on their instances before it was proved.

| module | theorems | hypotheses |
|---|---|---|
| `CBufferProofs` | `TypeTheorem`, `IndicesTheorem`: `IndicesAgree`; `SliceTheorem`: `SliceHolds`; `Invariance` | none |
| | `RefinementTheorem`: `ImplementsFifo` | `~PushAtEnd` |
| `FlexFrameGenProofs` | `BoundsTheorem`: `TypeOK`; `CleanFramesTheorem`, `ZerosTheorem` | none; `~Abort` for the other two |
| `FlexFrameGenSourceProofs` | `LengthTheorem`: `LengthPromise`; `SourceTheorem`: `ImplementsSource` | none |
| | `ProceedTheorem`: `FrameProceeds` | `~Abort` |
| `FlexFrameSyncProofs` | `OneFlushTheorem`, `WithinFrameTheorem`; `FrameBoundTheorem`: `FrameBound`; `FrameAdvancesTheorem`: `FrameAdvances` | none |
| | `TypeTheorem` | `~ZeroIndex` |
| | `FlushTheorem`: `FlushIsBuffered` | `LongHeaders` |
| | `SamplesTheorem`: `SamplesInOrder` | both |
| `DelayLinesProofs` | `TypeTheorem`, `SameOldestTheorem`, `ReadsItsDelayTheorem`; `DelayLineTheorem`: `ImplementsDelayLine` | none |
| `OfdmLinkProofs` | `TypeTheorem`, `FrameWholeTheorem`; `LeftTheorem`: `LeftBound`; `ClosingTheorem`: `FrameClosing`; `ProceedTheorem`: `FrameProceeds` | none |
| | `BuffersFitTheorem`, `SameSymbolTheorem`; `WindowTheorem`: `WindowInSymbol` | `HeaderFits`; the last also `TaperFits` |
| | `AcquiredTheorem`: `FrameAcquired`; `DeliversTheorem`: `DeliversOnTime` | `HeaderFits`, `HeaderRepacks`, `HeardEarly`, `EnoughTries` |
| `BPacketLinkProofs` | `TypeTheorem`, `BuffersTheorem`: `BuffersMatch`; `ValidTheorem`: `ValidIsWhole` | none |
| | `FoundTheorem`: `PnFound`; `DeliversTheorem`: `DeliversOnTime` | `[]NoEarlyAlarm` |
| `LoggerProofs` | `TypeTheorem`; `HolderTheorem`: `HolderInside`; `ShortenTheorem`: `CallsShorten` | none |
| | `CountsTheorem`: `CountsExact` | `NoneRefused` |
| | `DeliveredTheorem`, `StampedTheorem`, `MinimumLevelTheorem` | `~AddLive` |

*The hypotheses* are not there for the proofs' sake: each excludes a case in which the property fails, which a run or a
variant of one shows, with one exception: `FrameAcquired` was never found to need `HeaderFits`, which `AcquiredTheorem` takes over from the
invariant of a synchronizer in step. `~PushAtEnd`, `~Abort`, `~ZeroIndex` and `LongHeaders` are what findings 1 to 4
are about, `~AddLive` the configuration outside the logger's run. `NoneRefused` is `~(AddLive /\ Global)`: a refused
callback is reported to the global logger, and a thread that adds callbacks while others log would count that report
without the lock. `LongHeaders` is `SLen + 2 * h - 2 >= Half` for every header length: with a template of 156 samples and half
a buffer of 256 it holds for headers of 51 symbols or more, and the default header has about 216. `HeaderFits` excludes (b) of the
configurations outside the OFDM run, `TaperFits == taper_len + backoff <= cp_len` the taper that reaches into the next
window. `HeaderRepacks` excludes (a) of those configurations. `HeardEarly` and `EnoughTries` say where the metrics of the received
signal cross their thresholds, which the code cannot choose: `Weak` and `Strong` samples of S0 in a window of `M`, below which S0 is never and above which it is
always detected. `HeardEarly` is `Weak + Strong <= M + M2 + 2 * cp_len` (the second transform, `M2` samples after the first
and up to `Strong` into the frame, still hears S0) and `Strong + M2 \div 2 < M + 2 * cp_len` (S1 is not over before it is looked for); both hold
for every `Weak <= Strong <= M` when the prefix is a quarter of a symbol or longer. `EnoughTries` holds for the code's 16 tries and any prefix up
to `M`. On 144 small instances
the hypotheses hold exactly where TLC finds `FrameAcquired` true. `[]NoEarlyAlarm`, that neither a part of the
P/N sequence after what the correlator held nor its inverse is taken for the whole, is not a constant's property but another invariant of the
same run: it is the merit of the m-sequence of *this* polynomial, and TLC computes it; the theorems are what the synchronizer makes
of it.

**CBuffer.** `IInv == TypeOK /\ IndicesAgree /\ SliceHolds`, whose parts need each other. `SliceHolds` alone is not inductive: that a
write spares the cells of a slice needs the place of the next write relative to the oldest sample, which is
`IndicesAgree`; that `IndicesAgree` survives a wrap needs every sum of an index and a count to be below
twice the ring, which is `TypeOK` (lemma `WrapCases` turns `%` into a case distinction there).
None of this asks how callers behave: after the push of finding 1 `write_index` is past the end, which the range of `TypeOK` allows and
`IndicesAgree` compares modulo the ring, and the sample goes to the cell after it, which no slice handed out by then covers. What breaks is
only the contents: the queue counts a sample that it does not hold, so the refinement needs `~PushAtEnd`.
`Puts` says what a put must do to memory (the batch after the youngest sample, nothing else); `push` and both branches
of `write` satisfy it, and everything about a put follows from `Puts` alone. For the refinement each operation maps to one step of `Fifo`.

**FlexFrameGen.** `TypeOK` needs `CountsOnlyInFrame`: the counter is 0 whenever no frame is assembled, so lengths that change
then cannot leave it beyond the end. `CleanFrames` and `ZerosWhenNotAssembled` speak of the sample written last and say nothing of the
interpolator, so the invariant `FilterInv` follows its window: silent but for the oldest place between frames
(`Drained`), filling with silence in the tail (`Draining`), of one frame only (`OneFrame`). The oldest place is the
point: `2M` symbols of tail do not reach it, and it is not heard because the sub-filters after the first are
one tap shorter (`LaterPhases`) and the first is used only after another push.
For `LengthPromise`, `LengthInv` relates samples, symbols and place: it needs the sections to meet (`SectionsMeet`), and
that a symbol takes `K` samples. For the refinement, the symbols that the mapping shows are a function of the place, so one step of the
generator takes the head of that sequence and nothing else changes it (`EmitsNext`); a caller that abandons a frame is a step of
`FrameSource` too, so these two need no hypothesis.

**FlexFrameSync.** The hazard is the replay, which calls `execute()` inside `execute()`. The invariant has three layers, so that each
property rests on no more than it needs. `Base == Types /\ Clock /\ Position` needs no hypothesis: `Clock` ties the symbol clock to the samples used in the frame, and
`Position` says where a replay stands. In a frame, as many samples were used as the replay has read; once the replay is back at the
detector, it has fewer samples left than a second frame needs to be found, so that no second replay can begin inside it, even where a
transform of the detector falls into it (`Replay`). `Kept == Spare /\ Clean` needs `LongHeaders`: then no transform falls into a replay, and
nothing writes the memory that is replayed. `Ordered == Detecting /\ Flushed`, which also needs `~ZeroIndex`, is about the samples themselves: the detector's
buffer continues with the sample that comes next, the replayed one ends with the last live one. `SamplesInOrder` and `WithinFrame` are
action properties that follow from the layers before the step.

**DelayLines.** Pushes, carries and re-creations are loops, written as recursive functions on an interval. `SetInduction` is induction over
`Nat` for a set instead of a predicate, from the library's theorem that `<` is well founded; it gives `LoopExists` (such a function has the
values its definition says) and `LoopShifts` (a loop of pushes shifts what is read by one sample each turn). `IInv == Whole /\
Buffered /\ Delayed`: the indices of each object are inside its allocation; the delay buffer, realigned, is the
window; the fractional delay's own window holds the newest samples, and its two indices make the delay it tells within half a
filter (`Tuned`), which is where the rounding that carries from one index into the other is. The theorems compare what the objects
*read*, so stale cells and the mirrored tail do not enter them.

**OfdmLink.** `Base` needs nothing of acquisition: `Generated` gives the place on the air, `sent`, as a function of the
generator's counters; `Receiving` keeps the counters of the synchronizer below the lengths it computed from the header. `InStep`
is about a synchronizer that has acquired (`acq`): `timer` and `num_symbols` are a function of `sent`, the numbers of pilots agree, and as many
symbols of a section were received as were played. `HeardRight` states the two properties that follow with the
place of the transform. How a synchronizer comes into step is `Searching`: until then it is `OnTrack`, which says for each state of the search when
its next transform is due. `SearchBegins` is the arithmetic of it: whatever the second transform tells of the
offset, which is known modulo `M2` only, the first test for S1 lies a whole number of `M2`, less than `Tries` of them, before the place of S1,
so that one of the tests is made there; the tests before it fail by what the metrics are assumed to do.

**BPacketLink.** `Heard` counts: while a packet's P/N sequence arrives, the bits of it in the correlator that are wrong, `Misheard`, are
as many as the line made wrong, since each push moves them one place and adds one bit (`PushMisheard`). At its last bit nothing older is left in
the correlator, so at most one wrong bit in ten, either way round, is beyond the threshold of 0.8 with the sign of the
polarity (`FoundTheorem`), for every sequence. `Gathering` has the length that the payload is counted to equal to the one of the header that was
*decoded* (the source keeps two); `Locked` has the place on the line equal to the bits counted while no trouble has happened;
`ValidIsWhole` needs both. The generator polynomial stays uninterpreted, so nothing here depends on what the m-sequence is.
`Following` carries a packet from the end of its P/N sequence to its last bit: in lock, without a wrong bit, and counting to the length of this
packet's payload, since a header says all of a packet that can be delivered (`SaysAll`).

**Logger.** Again in layers. `Base == TypeOK /\ Slotted` (the table is filled from the front, whoever adds) and `Held` (a mutex that is not free is held by a
thread inside) need no hypothesis, `Counting` needs `NoneRefused`, and the whole `IInv` that nobody adds while others log. `Exclusive` says who may be inside together, and it is what makes a load followed by a store of a counter, or of a
table's slot, one step for everybody else. `Registered` (the table is filled from the front, one slot partly stored
at most), `MinimumLow` (nobody listens below `min_level`) and `Progress` (what a call has shown after `k` slots is
`Asked` of the first `k`) then give `Delivered`, `Stamped` and `MinimumLevel`; `CountsExact` needs the number of threads
between load and store, so threads are a finite set.

*Progress.* Each liveness property of the runs has a safety half, a measure that the steps of the code make less, and that half is
proved. In a frame of the flexible synchronizer `used` is below twice `FrameSymbols` (`FrameBound`), and every sample of a replay or a live call counts it up
or closes the frame, and the bound moves only once, when the header is decoded (`FrameAdvances`). For the OFDM synchronizer `Left` is what it still expects: kinds of symbols to come, state
entries of the present one, samples to the next transform; it is a triple of naturals (`LeftBound`, which needs that timers never pass 0 and
searches end), and each sample makes it less, in the lexicographic order, or ends in the search (`FrameClosing`). For both generators a sample makes what
is owed of a frame one less (`FrameProceeds`). In the logger `Left` counts the steps of a call to its end, at most `MaxCallbacks + 6`; no step of
another thread makes it more (`CallsShorten`), and whoever waits for the lock waits for a thread inside (`HolderInside`). What remains to TLC is that
fairness makes those steps happen.

*Only model-checked.* The liveness properties as such (`FrameFinishes`, `FrameCloses`, `CallsReturn`): fairness and `ENABLED` are beyond the proof system used.
`NoEarlyAlarm`: the correlation of one m-sequence of 64 bits with itself, a fact about one constant that TLC computes.

## 6. What is not modelled, and why

* *Allocation failure and null pointers.* Objects are created once; a failed `malloc` is not handled by the code.
* *Numbers.* Coefficients, correlations, soft decisions, phase and timing estimates; the outcomes that control depends
  on are nondeterministic choices.
* *The equalizer in flexframesync*, compiled out by default, and the debug paths.
* *Output format and files of the logger*, `set_config`, `set_config_str`; a callback that itself logs to the same
  logger would wait for the lock its own thread holds, which no property here covers.
* *Other frames* (dsssframe, dsssframe64, framegen64, gmskframe, fskframe, qdsync): variants of the flexible frame; qdsync is next in the plan.
* *What a code corrects*: the packetizer's decoder may repair wrong bits or not where its codes can; a check never accepts
  what was not encoded with it. Interleavers and scramblers are inside that assumption.
* *Pure functions* (fec, modem, math, matrix, most of utility): no state between calls. Some have algorithms worth a
  reference definition; see the plan.

## 7. Plan

In order of importance; a step that models something adds a module, its run, and then its theorems.

1. **Link**: `FlexFrameGen` samples into `FlexFrameSync`, composed with a channel that may
   delay and drop; abstract specification: each frame is delivered at most once, in order, and
   exactly once on a clean channel. Bounds: one short frame followed by another.
2. **Agc**: squelch modes and timer with its unsigned width, lock; action property on the mode graph.
3. **qdsync**, which shares `QDetector`.
4. **Resamplers** (`resamp`, `msresamp`: outputs per input), **msource** (list of sources),
   **spwaterfall** (fold of a full buffer), as far as they carry state of their own.

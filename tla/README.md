# A verification of tiny_nmea

tiny_nmea parses NMEA 0183 sentences (the `$GPRMC,...*hh` lines of a GNSS
receiver) in a callback-driven C library for small devices. This directory
holds TLA+ models of its stateful parts, the TLC configurations that check them
on small instances, and proofs, checked by TLAPS, of what matters most for
instances of every size. Paths below are relative to the repository (`src/...`
for its library code).

## 1. Inventory

| component | state | operations | hard behaviours | what makes it correct |
|---|---|---|---|---|
| ring buffer (`src/ringbuf.c`) | storage, atomic `head` and `tail` | init, clear, push in three modes, pop, discard, peek | two threads without a lock, stale acquire loads, copies in two chunks, full against empty, overwriting pushes | it is a bounded FIFO queue of `size - 1` bytes; the two threads never copy at the same slot |
| observers (same file) | none | len, free, empty, full | two loads that are not one | never promise their caller more than there is |
| context and API (`src/tiny_nmea.c`) | callbacks, statistics, ring, buffers | init, set callbacks, feed | a full ring drops the end of a feed; a second init | nothing of the session before is left |
| sentence state machine (`src/tiny_nmea_work.c`) | working buffer, `parse_pos`, `parser_state`, `waiting_for_data`, kept pointers `data_end` and `line_end`, `zda_century` | work: move bytes from the ring, run one of five states per iteration | sentences cut at any place, faults in any state, a sentence longer than the buffer, pointers kept across calls, termination | indices inside the buffer; only checked sentences reach the parsers, in order; a later sentence is found again; work returns |
| parse dispatch (`src/tiny_nmea_parse.c`) | the caller's result | choose the handler of a sentence type, from the result or the sentence | a NUL inside a sentence, a result used before | the answer is that of this sentence alone |
| sentence handlers (`src/sentences.c`) | the caller's structure | fields to structures | computed field indices (GSV signal id), narrowing casts | values come from their own fields, nothing is left over |
| field parsing (`src/parse_sentence_fields.c`) | none | tokenizer, integers, fixed point, time, date, position | overflow at the widths, sign, empty parts | equal to the number written, or refused |
| fixed point, data formats (`src/fixed_point.c`, `src/data_formats.c`) | none | rescale, add, convert | overflow of intermediate products | within rounding of the exact value |
| satellite tracker (`src/sats_tracking.c`, `src/sats_tracking_handler.c`) | GSV sequence counters and list, GSA bitmask and list, last time and date | update on each parsed sentence; two callbacks | lost, repeated and interleaved GSV messages, burst end by time or by duplicate, midnight | a published list is one complete cycle |
| type names and codes (`src/nmea_0183_*.c`) | none | lookups in tables | none | unknown codes are unknown |

**How they interact.** An interrupt or a thread calls `tiny_nmea_feed`, the
producer of the ring. The application calls `tiny_nmea_work`, its only consumer,
which pops into a linear working buffer of `TINY_NMEA_MAX_SENTENCE_LEN` bytes,
runs the state machine on it, hands each complete sentence to `tiny_nmea_parse`
and calls back the application, which may pass the result to the satellite
tracker. Nothing is locked: the two indices of the ring are C11 atomics, and all
other state belongs to one side.

## 2. Modules

| module | models |
|---|---|
| `ByteQueue` | abstract specification: what `ringbuf.h` promises, a bounded FIFO queue of bytes |
| `RingBuf` | `ringbuf.c`, both threads, at the grain of its loads, copies and stores |
| `RingBuf_proofs` | theorems about `RingBuf` |
| `RingObserver` | the four observer functions, on top of `RingBuf` |
| `RingObserver_proofs` | theorems about `RingObserver` |
| `RingQueue_proofs` | theorems that both implement `ByteQueue` |
| `NmeaWork` | `tiny_nmea.c` and `tiny_nmea_work.c`, over the queue `ByteQueue` that the ring implements |
| `NmeaWork_proofs` | theorems about `NmeaWork`: what any stream cannot break |
| `NmeaStream_proofs` | theorems about `NmeaWork`: what arrives of a good stream, and after a fault |
| `Induction` | induction and recursive functions on the natural numbers, without operator parameters (`UpToN`, `RecursiveFunction`, and `RecursionHolds` for functions on a range of them): the lemmas that the proofs about data rest on |
| `ActiveSets` | abstract specification: what the header promises of the active satellites |
| `SatTracker` | `sats_tracking.c` and `sats_tracking_handler.c` |
| `SatTracker_proofs` | theorems about `SatTracker` |
| `FixedPoint` | `fixed_point.c` and the integer conversions of `data_formats.c` |
| `FieldParse` | `parse_sentence_fields.c`: the tokenizer and the field parsers |
| `Sentences` | `sentences.c`, the structures and tables of `nmea_0183_types.h` and `nmea_0183_defs.h`, and the dispatch of `tiny_nmea_parse.c` |
| `NmeaParse` | who calls `tiny_nmea_parse` with what, and what comes of it: `tiny_nmea_work` with `parse_post_process`, and an application |
| `NmeaParse_proofs` | theorems about `NmeaParse` and the operators under it |
| `MC*` | instances for TLC |

Operators commented *a mistake* are variants of the definition that follows
them, with an error somebody could make. Nothing uses them: replacing the
definition by its variant must violate a property, which shows that the property
depends on that part of the code.

## 3. How the models correspond to the code

**Ring buffer.** `head`, `tail` and `buf` are the fields of `ringbuf_t`. A byte
is the number of its place in the stream of bytes written, so that an order or a
byte lost can be seen; `pushed` and `popped` count them. Each function is cut
where the other thread can come between: the load of the indices (`PushLoad`,
`PopLoad`, `PeekLoad`), the first and the second `memcpy`, and the releasing
store (`PushPublish`, `PopPublish`). Acquire and release order is modelled by
`tailSeen` and `headSeen`: a load of the other thread's index may return any
value that thread has stored since the one last loaded, so a thread can act on an
old index but never goes back (coherence), and bytes written before a store are
there for whoever sees it. `ringbuf_clear` and `RINGBUF_PUSH_WRAP` are documented
as not safe under concurrency, so they happen when no other call is under way.
`ringbuf_discard` is a pop without a destination and `ringbuf_peek_byte` a peek of
one byte. The observers are two loads, one after the other, by the producer or
the consumer; a thread's own index is always exact.

**Context, feed and work.** `ctx` has the fields of `tiny_nmea_ctx_t` by name. The
ring is the sequence that `RingBuf` is shown to implement, used through
`ByteQueue` (`Ring!Put`, `Ring!Take`); the room that `Feed` sees may be that of
an earlier time, as a stale `tail` gives it. Between two calls, `SetParseCallback`,
`SetErrorCallback` and `Reinit` are the application's. A call of `tiny_nmea_work`
is a loop, and one iteration of it is `Loop` (its condition, the first break and
`ringbuf_len`), `Fill` (the pop and the overflow reset), `Check` (the second
break) and one of five state actions; `Feed` may come between any two of them,
because a loop iteration reads the shared ring three times. `data_end` and
`line_end` are pointers in the code and offsets here, and stay set across calls
as they do there. Each `goto`, `break` and reset of the code is a branch here in
the same order.

Bytes are symbols, one for each class of bytes the code tells apart: start, comma,
asterisk, line end, NUL, the last letter of three sentence types, and two
characters of a field. The header is `HdrLen` bytes of which the last letter of
the type and the comma are looked at. The XOR checksum is one bit of it, a parity:
it is equal or not equal to the digits, and changes with any one byte that counts.
`tiny_nmea_parse` is reduced to its result (there are fields before a NUL or not)
and, for ZDA, the century that `parse_post_process` keeps. `log` holds the
sentences that reached it: for the properties only.

**Satellite tracker.** Variables are the fields of
`tiny_nmea_sats_tracker_ctx_t`; the bitmask is the set of the places of its bits,
counted through its rows of whole bytes, so that a number that does not fit in a
row is the next row's. A time is ticks since midnight, and the two constants that
belong to it, the day and the 16 hours of the rollover heuristic, keep their
proportion (6 and 4). `calls` holds the callbacks of the last step with their
arguments. `update_sentence` dispatches as `tiny_nmea_sat_tracking_update_sentence`
does: RMC and ZDA bring a time and a date, five others a time; each can be
invalid. `now` is the receiver's own clock: what it reports is true, or `Lags`
behind. `seen_at` and `active_at` say when, by that clock, the times that the
tracker holds were; `heard` is the GSV sequence as it was sent, and `reported` what
the GSA sentences of the cycle reported, in their order and without a limit. None of the five
is read by an action but to choose what is reported and, for `Tick`, to bound it.
A GSA sentence is compared with those before it and not with itself, as in the
code: a satellite it names twice is in `Prns` twice.

`ActiveSets` promises cycles of reports, as sequences: a sentence adds to the
cycle only satellites that no sentence before it reported, and a cycle that is handed
over is handed over whole, or as much of it as there is room for. When a
cycle ends it leaves open, as the headers do; `PublishedWhenOver` and
`ConflictIsRepetition` (section 7) are about that.

**Parsing.** `FixedPoint`, `FieldParse` and `Sentences` are operators, named for
the functions they model; `NmeaParse` is the system around them. A field is a
sequence of characters. A parser that returns false gives `<<>>`, one that
stores an integer gives the sequence of that integer, so that `Assign` is the
`if (parse_uint(...))` of the handlers: without a number the member keeps what
`memset` left there. Each handler calls `memset` itself, as in the code, on the structure
that it is given: one that does not would fill in what an earlier sentence left. Fields are counted from 0, as in the code. A talker, a
type and a character of an enumeration stand for the values of their enumeration;
a list and its count are one sequence. Arithmetic has the widths of the code:
`INT_MAX` is the largest `int32_t`, from which the largest `uint32_t` follows, and
`INT16_MAX` the largest `int16_t`, while bytes have eight bits; what
the code computes in 64 bits is exact. A conversion to `int32_t` or a narrower
type wraps.

`WorkParses` is the state `TINY_NMEA_SENTENCE_COMPLETE`, with a result that is new
and has the type of the header; `CallerParses` a call by the application, with
a structure that is new, as the last call left it, or with its type reset to
unknown (then `tiny_nmea_parse` takes the type of the sentence, over the data of another). The
sentences that come are the constant `Inputs`. `NmeaWork` keeps of all this
whether a sentence parses and the century, which is all that its state machine
depends on. `dated` is the year the last valid ZDA told, for the properties; `out` is
the last call with its answer.

The properties have readings of their own of what a text says
(`NumberIn`, `UnsignedIn`, `TimeIn`), without bounds and without the order in which the code
works, and compare. Where the code gives another answer for some inputs, the
property names them: `ScaleHolds` (no more decimals than an `int32_t` has zeros) and
`CenturyLimit` (years whose century is a byte). `Fits` and the widths in
`SpeedsAreConverted` name the sums and products that an `int32_t` holds.

## 4. The runs

| run | shows |
|---|---|
| `ring_buf` | In every interleaving of one producer and one consumer, with stale indices, wrapped copies, peeks, discards, clears and overwriting pushes, the ring implements `ByteQueue`; the threads never copy at one slot; a decision on a stale index stays right; a read returns the next bytes; the producer and the consumer may trust what an observer tells them; and the invariant of the proofs holds |
| `nmea_stream` | a stream of good sentences is parsed whole and in order; after each of twelve kinds of fault: indices in the buffer, only sentences parsed, and every good sentence parsed that has a working buffer of good bytes before it; `tiny_nmea_work` returns, everything fed is processed in the end, and the invariant of the proofs (`StreamInv`) holds |
| `nmea_lossy` | with a ring too small for what is fed, callbacks changed and a second init: sentences made of bytes in order, and the century of the last dated ZDA |
| `sat_active` | active satellites: the list is what the sentences of the cycle reported, in order and up to its room, the bitmask all of it; handed over in whole cycles (`ActiveSets`), bursts neither merged nor split, over midnight, with dates and times that come and go, and callbacks and threshold changed at any time; what is published of the view is one unbroken sequence of messages |
| `nmea_parse` | for every type of sentence: the fields are what is between the commas of the text, and it is refused when, and only when, it has too few; numbers, integers, times, satellites, letters and lists are what their fields say, in the type of their member, or refused, and nothing that the structure held before; the year of an RMC is that of the last ZDA; speeds, degrees and sums are exact |

Seven more runs each end in a violation, of something that the repository says of
itself (section 7).

**Bounds, and why they are enough.**
- `ring_buf`: four slots and eight bytes. Three bytes fit, so requests of every
  length from none to more than the ring meet every distance between the indices
  and every place of the wrap, and eight bytes go round the ring twice. One
  observer at a time is in progress, of either thread, between any steps of the other.
- `nmea_*`: a working buffer of 10 bytes and a header of 2, where the code has 82
  and 6. The longest good sentence fills it exactly (`Full`), a fault exceeds it, and two of the shortest (`Short`) just fit, so that bytes of the next sentence are
  buffered behind each one. Streams of up to 29 bytes are
  sequences of pieces: good sentences, or a fault followed by three of them. In
  `nmea_stream` bytes are fed one at a time: as `Feed` may be repeated between any two steps
  of the consumer, this already gives every way to cut the stream (chunks of
  one and four bytes reach the same states). In `nmea_lossy` chunks of four and five
  exceed the ring of five slots.
- `sat_*`: the clock passes midnight once (3 to 8, with a day of 6); the receiver
  reports a valid time at least every two ticks, so that with the threshold it
  stays below the rollover of four. That is what the code assumes too ("this
  assumes that the gps data comes in an interval shorter than MAX_ROLLOVER_HRS").
  Five GSA sentences name the constellation by talker and by system id, have
  overlapping satellites, and numbers that are not used or not valid, and one names a
  satellite twice; the list has room for three satellites while a cycle reports up to five. GSV sequences have one to three
  messages, sent in any order, any number of times. Days have no months: the code
  compares the day of the month only, and says so. The view and the active
  satellites share nothing but the last time, so `sat_active` follows GSV
  sentences only while no satellite is active and in the first two ticks
  (`OneListAtATime`).
- `nmea_parse`: `INT_MAX` is 2^12 - 1 and `INT16_MAX` 2^11 - 1. What matters of the real ones is kept: the largest power of
  ten in an `int32_t` is also the largest in a `uint32_t` (10^9 < 2^31 < 2^32 < 10^10,
  and here 10^3 < 2^12 < 2^13 < 10^4), so that the two range checks of
  `parse_fixedpoint_float` meet as they do there. All texts of up to four of the
  characters `0 1 9 . - + x` are numbers to parse, which passes the
  number of digits that fit, and so are the numbers next to each limit. The
  factors of the conversions are scaled to match (1000 is 10, a knot 51 and 18).
  GSV sentences have up to four blocks, each full, empty, cut off or with a number that is
  none, and three kinds of ends; every type also comes with 0 to 21 empty fields.
  Century: all sequences of two ZDA or a ZDA and an RMC, and an RMC. Structures used before:
  three sentences in a row, the second of any type and bare. The sizes of the
  arrays are the defaults for GSV and GSA, and 3 for modes and payload.

**Fairness.** `WorkRuns` is weak fairness of the steps of a call that has begun: the
thread that runs `tiny_nmea_work` is scheduled. It is enough for `WorkReturns`,
because once the bytes stop coming each iteration consumes, advances or breaks.
`FairSpec` adds weak fairness of `Call` and of `Feed`: the application keeps
calling `tiny_nmea_work`, as `tiny_nmea.h` asks it to, and the
sender keeps sending until its stream ends. No strong fairness is used.
Deadlock is checked in every run but those of
`MCNmeaParse`, which have no more to do when their sentences are parsed.

## 5. What is proved

TLAPS checks, for every value of the constants that satisfies the named
assumptions (sizes, limits and factors are natural numbers or positive ones, the
header is shorter than the working buffer, what comes is a set of sequences):

| theorem | says |
|---|---|
| `RingInvariant` | `IInv` of `RingBuf` is inductive |
| `RingTypes`, `RingReads`, `RingStaleIndices`, `RingNoRace` | `TypeOK`, `ReadsNextBytes`, `StaleIndicesAreSafe`, `NoSlotRace`: ring size, request lengths, offsets and number of bytes are arbitrary |
| `ObserverInvariant` | `IInv` of `RingBuf` with observers running, and `LoadedIsSeen`: an index that an observer loaded is one its thread may still load |
| `ObserversAreConservative` | `OwnSideIsConservative`: ring size, request lengths, offsets and number of bytes are arbitrary |
| `RingImplementsQueue`, `ObservedRingImplementsQueue` | `ImplementsByteQueue`, of `RingBuf` and of `RingObserver`: the refinement, for every size |
| `WorkInvariant` | `IInv` of `NmeaWork` is inductive |
| `WorkTypes`, `WorkIndices`, `WorkInOrder`, `WorkSentences`, `WorkCentury` | `TypeOK`, `IndicesInBuffer`, `CompletedInOrder`, `CompletedAreSentences`, `CenturyIsLastZda`: buffer and ring sizes, header length, chunks and the stream itself are arbitrary |
| `StreamInvariant` | `StreamInv` of `NmeaWork` is inductive |
| `StreamCompletes`, `StreamResynchronises` | `AllSentencesCompleted`, `Resynchronises`: for every stream of pieces, every way to cut it into feeds and to time the calls of work, and buffers and rings of every size |
| `SatInvariant` | `SatInv` of `SatTracker` is inductive |
| `SatTypes`, `SatListIsTheCycle`, `SatNothingDropped` | `TypeOK`, `ListIsTheCycle`, `NothingDropped`: the room in the lists, the thresholds, the sentences, the day and the clock are arbitrary |
| `SatViewIsTheSequence` | `ViewIsTheSequence`: a view is published only when it is one unbroken sequence, for every sequence of messages |
| `SatPublishedWhenOver` | `PublishedWhenOver`, if `Punctual` |
| `SatBurstsAreNotMerged` | `BurstsAreNotMerged`, if `Punctual` and `OftenEnough` |
| `SatKeepsPromises` | `KeepsPromises`: `SatTracker` implements `ActiveSets`, for every `MaxPrn`, the default 255 with its shared bits included |
| `ParseInvariant` | `ParseInv` of `NmeaParse` is inductive |
| `ParseTypes` | `TypeOK`: no member leaves its type and no list its array, for every text and every size of array |
| `ParseTokens`, `ParseIntegers`, `ParseNumbers`, `ParseTimes`, `ParseSatellites` | `FieldsAreTheText`, `IntegersAreExact`, `NumbersAreExact`, `TimesAreExact`, `SatellitesAreOfTheirBlocks`: for texts of every length, in every character, and for every width of integers |
| `ParseLetters`, `ParseLists` | `LettersAreOfTheirFields`, `ListsAreOfTheirFields`: for every sequence of sentences and whatever structures they are parsed into |
| `ParseYears` | `YearIsOfLastZda`: for every sequence of sentences, also of RMC sentences with an invalid date |
| `ParseSpeeds`, `ParseDegrees`, `ParseSums` | `SpeedsAreConverted`, `DegreesAreSexagesimal`, `ArithmeticIsExact`: for every factor of conversion and every number |

**The argument for the ring.** The properties are not inductive: that a read
returns the right bytes depends on what the slots hold. `CountsAgree` ties the two
counters to the indices, `QueueInOrder` says which byte each slot between the
indices holds, `CopiedIn` and `CopiedOut` say the same of copies half done, and
`SeenIndices` that *every* value a thread can still load leaves room for what the
other is doing. The last is the heart of it: the producer writes outside what any
`tail` it can load calls full, so a stale one is on the safe side. The lemmas
that open `RingBuf_proofs` reduce arithmetic modulo the size to differences.

**The argument for the observers.** A load of one makes its thread forget older indices,
which keeps `IInv`; a step of the other thread only adds to what can be loaded, and the
thread itself makes no call meanwhile. So both indices an observer holds are still among
the loadable ones (`LoadedIsSeen`), of which `SeenIndices` says that they are on
the safe side, and its answer with them.

**The argument for the refinement.** By `QueueInOrder` the bytes between the indices are
the numbers after `popped`, up to `pushed` (`QueueIsRun`), so that the operations of
the queue become facts about runs of consecutive numbers: two that meet are one, and a
part of one is one. A publishing store is then `Put`, `Take` or `Discard`, a return
of a peek `Look`, and every other step changes neither counter and so no queue.

**The argument for work.** `Window` says that the working buffer followed by the
ring is the end of the sequence of accepted bytes: that gives order. `FoundSoFar`
says, per state, what the bytes before `parse_pos` are (a header; no asterisk and
no line end since; an asterisk at `data_end`, a line end at `line_end`, two digits
between them that are the checksum): that is what the code relies on when it does
not look again, and it makes the completed sentence one. `CenturyKept` ties
`zda_century` to the sentences completed. `Moved` only says that what was popped is
used once. The proof has a step per action, and under it one per part of the
invariant that the action can disturb. It also shows that the branch of
`WaitForMore` for `parse_pos > TINY_NMEA_MAX_SENTENCE_LEN` is never taken.

**The argument for streams.** That good sentences arrive is about where the state
machine stands in the stream, which nothing in the code records. `NeverOutOfStep` and
`BackInStep` say it: the next start it will find is that of a piece `i` (`InStep`), and
all good pieces before it that are far enough from the fault were parsed.
`WaitsInVain` says that what a state waits for is not in the buffer, and that the
machine rests only when it has to wait; with nothing left to feed this
means that `i` is past the last piece. `InPlace` ties the bytes accepted to those sent, as
long as the ring took all of them (`Lossless`). A good piece whose start was found
is completed: its header is valid, its first asterisk or line end is where `Body` ends, its checksum
holds, and it fits in the buffer, so that the overflow reset cannot meet it. A fault can
do no more than clear what was popped, at most a working buffer, which is where the
distance `MaxLen` in `Resynchronises` comes from. The proof asked for two
exceptions that the first form of the properties lacked: a sentence whose first field is empty up
to its asterisk (`$G,*00`) is completed but has no fields, and a piece
is good only if nothing but line ends follows it.

**The argument for the tracker.** `Collected` ties the bitmask and the list to `reported`:
the list is its start, up to the room, and the bitmask its bits. It holds of empty ones
(`NothingCollected`) and survives a sentence added to all three (`CollectedMore`): what did not fit is not
missed when more is put behind what did (`UpToTwice`). A
sentence with a bit that is set starts from empty ones, which is what the
duplicate detection is for; a sentence with none can have no satellite in common with the
cycle, since equal satellites have equal bits, and that is all `ActiveSets` asks of a
sentence that is added. The converse, that a common bit means a common satellite, is
false when rows overlap: the run `sat_rows` shows what the default of 255 does. Nothing is assumed of the
sentences but types (`GsvAssumption`, and numbers in GSA sentences): a satellite may be named any number of times
in one.

**The argument for the tracker's times.** `TimesOfTheClock` says that what the tracker holds of a
time is the part of the day, and of a date the day, of the moment `seen_at` or `active_at` at which it was
taken, or nothing; `WithinRollover` that the two are closer than the
rollover limit as long as the list is not empty. From these a difference of two times of day is the difference of the
moments, also over midnight. Two hypotheses are named in the module: `Punctual` (`Lags = {0}`: what a
receiver reports is the time it is, the subject of `sat_backwards` when it is not) and `OftenEnough`
(a threshold and the longest gap between two reports stay below the rollover limit). The second is the
code's own assumption, in the comment of `sats_tracking_handler.c` quoted above; the run `sat_active`
checks both properties with constants that satisfy it. `ViewIsTheSequence` needs neither: its lemma shows that what is published is the
list of a sequence whose last message number equals its total, so that only sequences of
one message are published at all, which `sat_sequence` reports.

**The argument for parsing.** Two things are proved. First, by induction over steps, that
every answer is what the handler of its type makes of the fields of its own sentence in
a cleared structure, for which each handler's `memset` is expanded (`HandlerClears`), that it is refused for
too few fields when it has too few, and that the century is that of the last valid ZDA (`ParseInv`). The rest is about what the
parsers compute, by induction over the characters of a text. The induction theorems of the
library take an operator as a parameter, which the provers cannot instantiate, so `Induction` states
them for sets and functions: `UpToN` for a set of numbers that contains 0 and with each number
the next, `RecursiveFunction` for the existence of the function that a recursive definition
names. On them rest the values of digits (`NumeralUnique`, `NumeralOfBoth`,
`NumeralBound`), the exactness of the overflow check before each digit
(`ParseDigits`), the list of the numbers of a set in order (`InOrderIs`) the text that
fields joined by commas give (`JoinedIs`), and that each comma ends one of them, so that none has a
comma in it and there is one more of them than commas (`EndsAreCommas`, `FieldsHaveNoComma`). `LetterIs`, `ModesAre`, `PrnsAre` and `PayloadIs` say what
the letters and lists of a sentence are, for `ParseLetters` and `ParseLists`. `CombinedIs` shows that the two range checks of a fixed-point number
refuse exactly the numbers that do not fit, though the second is of a sum that may
have wrapped: when it wraps, the first has refused it. The proof failed where the
properties said too much: from ten decimals on the scale wraps (`ScaleHolds`, and the run `parse_decimals`),
and a century above 255 does not fit in its byte (`CenturyLimit`).

**Only model-checked.** Liveness (`WorkReturns`, `EverythingProcessed`), which TLAPS
does not do. Every invariant that a passing run checks, and every action property and refinement, is a theorem
as well; of those about the tracker's times, under the hypotheses named in the table.

## 6. What is not modelled

- Conversions to `float` and `double`, which TLC does not have.
- The strings for display (`nmea_0183_type_names.c`, `tiny_nmea_talker_str`), and
  `parse_fix_quality` and `parse_constellation`, which nothing calls: a GGA sentence may
  report any number as its fix quality. `tiny_nmea_reset_stats` and
  `tiny_nmea_fp_div_int` are declared and not defined (the latter is `fp_div_int` in
  `fixed_point.c`, which is what is modelled).
- Fields of 256 characters or more, whose length does not fit in its byte, and
  fractions of 32 digits or more, whose scale is 0 and divides: `tiny_nmea_work`
  buffers no sentence long enough for the first. A text of fewer than seven
  characters given to `tiny_nmea_parse` directly: the code reads behind its end.
- What lies in an array behind the count of its elements.
- The result of `tiny_nmea_work`: it is 0 on every path, and not the "number of
  sentences processed" that `tiny_nmea.h` announces.
- Checks for null arguments: they return before any state is read.
- Two producers or two consumers, which `ringbuf.h` excludes, observers on a third
  thread (their two loads can combine an old head with a new tail into a length
  the ring never had), and calls of a callback back into the library.
- A second `tiny_nmea_sat_tracking_init`: it is the initial state again.

## 7. Where the code and its own words differ

| run | the repository says | the code does |
|---|---|---|
| `nmea_partial` | "second $ causes parser to restart" (`test_system.c:289`) | after the header nothing looks for a `$`, and the sentence is lost |
| `sat_sequence` | "Called when a full sequence of GSV (Satellites in View) messages is complete" (`sats_tracking_types.h:34`) | the total is compared with the last message number (`sats_tracking_handler.c:164`): a view of more than one message is never published |
| `sat_midnight` | a burst is published "if there is a difference greater than the specified max duration" (`sats_tracking_handler.c:119`) | a time without a date keeps yesterday's date, and the next dated sentence sees a difference of a day |
| `sat_backwards` | "return negative value so it is assumed as stale" (`sats_tracking_handler.c:72`) | a negative difference is never greater than the threshold |
| `sat_rows` | "if a PRN is already present in the active mask, it implies the previous cycle has finished" (`sats_tracking_handler.c:271`) | rows of `MAX_PRN / 8` bytes overlap: with 255, numbers from 248 share bits with the next constellation |
| `gsv_signal` | the signal id is "located after the last satellite block" (`sentences.c:399`) | with fewer than four satellites it is taken for the number of one more, and `signal_id` is 0 |
| `parse_decimals` | fixed-point numbers are stored with "no loss of precision" (`fixed_point.h:16`) | from ten decimals on the scale wraps (`parse_sentence_fields.c:154`): `0.0000000001` is stored as 1 / 1410065408 |

A rejected checksum clears the whole working buffer, with what was popped of the
sentences behind it. Nothing in the repository promises otherwise, so it is not in
the table; `Resynchronises` bounds the loss: the third good sentence after the
rejected one is parsed.

The type left in a result structure by an earlier call decides how `tiny_nmea_parse`
reads the next sentence (`tiny_nmea_parse.c:13`). Nothing says that the structure
may be used again, nor that it must be cleared; `CallerParses` does both.

The active bitmask is a "bitmask for deduplication/realising it is stale data"
(`sats_tracking_types.h:63`), but tells only sentences apart: the loop that fills the list does not look at it
(`sats_tracking_handler.c:302-315`). A satellite that one GSA sentence names twice, or two
numbers that are the same byte (300 and 44, `sentences.c:300`), is listed and handed over twice.
`ListIsTheCycle` says where the second entry is; `MixedGsa` has such a sentence.

A burst stamped with no time never ends by time (`sats_tracking_handler.c:37`), only by a
repeated satellite. An RMC sentence with an invalid date gets a year all the same (`tiny_nmea_work.c:35`),
and stays invalid. Nothing in the repository says otherwise of either.

When the ring is full, the end of a feed is dropped and the next feed is put behind what was
taken (`tiny_nmea.c:86`). A splice of two sentences with a checksum is refused by it; one without
is parsed, as a sentence without a checksum always is, and no property says otherwise.

A number without a point is read as the digits behind one: `123` is 0.123.
`fixed_point.h:18` shows only numbers with a point, and a test
(`test_field_parsing.c:276`) calls it intentional, so `NumbersAreExact` says the
same. A number with seven decimals or more is converted to m/s through a product that wraps
(`data_formats.c:75`), and a sum at the larger of two scales wraps if it is no `int32_t`
(`fixed_point.c:41`), unnoticed by the code; `SpeedsAreConverted` and `ArithmeticIsExact` are exact up to these
limits and say nothing beyond them.

`PublishedWhenOver` and `BurstsAreNotMerged` leave out the case of a date kept over
midnight, which the second of the tracker's rows shows; everything else they
say holds.

## 8. Plan

Every component that keeps state is modelled, and parsing with them; what the runs check of
safety is proved. What is left, in order:

1. The composition of ring and work: `NmeaWork` over `RingBuf` itself, on a small
   instance, in the place of `ByteQueue`; its refinement follows from `RingImplementsQueue` step by step.
2. `SatTracker` and `NmeaParse` together: that the sentences the tracker assumes
   (`GsvAssumption`) are those that the handlers give, which
   `ParseTypes` and `ParseSatellites` say of the parser's side.
3. Bounds on termination in place of liveness: that each iteration of `tiny_nmea_work` without new bytes
   makes a measure smaller, as an action property that can be proved.

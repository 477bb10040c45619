# Verification of radio-chatter-scanner

`rcs scan 108.9M wbfm` looks for an RTL-SDR dongle, lets `rtl_fm` tune it,
collects the audio for a few seconds, and says whether there was a voice in it.
This directory holds TLA+ models of that program, the TLC runs that check them
on small instances, and TLAPS proofs about them for every instance.

## 1. Inventory

| part | source | state it keeps | operations | models |
|---|---|---|---|---|
| radio scan | `src/src/radio.c` | the pipe, the child, the sample buffer and its capacity, the clock | `radio_device_check`, `radio_scan_single_freq`, `consume_radio_output` | `Radio`, its abstraction `Capture`, `RadioProofs` |
| voice detection | `src/src/silero.cc`, `src/src/vad.cc` | hysteresis (`triggered`, `temp_end`, `current_sample`), the probabilities, the recurrent state and the context of the model | `SpeechProbs`, `predict`, `GetSpeechTimestamps`/`DoVad`, `has_voice_activity` | `Vad`, `Float`, `VadProofs`, `FloatProofs` |
| command line | `src/src/input.c` | `program_input_s`; through `getopt`, its static variables | `parse_program_input` and its helpers | `Input`, `Float`, `InputProofs`, `FloatProofs` |
| main | `src/src/main.cc` | none of its own | chooses the subcommand | `Rcs`, composed of `Input` and `Radio`; `RcsProofs` |
| database | `src/src/db.c` | the file `rcs_captured.db` | `rcs_open_db`, `load_db_schema`, `store_radio_data`, `rcs_close_db` | `Db`, its abstraction `Store`, `DbProofs` (its calls in `main` are commented out) |
| getopt | `src/src/getopt/` | `optind`, `nextchar`, the permuted `argv` | `getopt` and its permutation of `argv`; vendored GNU code, elided where libc has its own | `Getopt`, `GetoptScan`, as far as `input.c` relies on it; `GetoptProofs`, `GetoptScanProofs` |
| external | `rtl_fm`, librtlsdr, ONNX runtime, SQLite | | | only what the code sees of them |

How they interact: `main` parses the command line, calls the device check, then
the scan. The scan forks; the child turns into `rtl_fm`, whose stdout is a pipe
to the parent. The parent reads the pipe until the hold time is up, hands the
clip to the detector through the C interface of `vad.cc`, prints the answer,
signals the child and returns; `main` then exits with 0. Errors leave through
`exit()` deep inside the components. Shared between the two processes are the
pipe, the dongle, a signal, and the stdio buffer that `fork` copies.

What is hard here: who holds which end of the pipe, and what that means for end
of file and for a broken pipe; deaths of either process at any moment; reads
that block past a time checked before them; what a failed exec does; a buffer
that grows by doubling an `int`; a detector that keeps memory between calls and
uses 0 and uninitialised values as sentinels; padding at the edges of a clip;
a parser that permutes words while it reads them, keeps its place in static
variables and is handed memory that is freed behind its back; a database whose
existence is taken for its being set up; numbers that pass through floats, casts
and a text on their way from the command line to rtl_fm.
`PROJECT.json` lists each of these hazards at its line.

What makes each part correct:

* radio scan: samples arrive whole, once and in order; the buffer is never
  overrun; the capture lasts as long as asked; no child is left behind; the
  dongle is handed over; failures have the documented exit codes.
* voice detection: the segments are a function of the clip alone; they are in
  order, disjoint and complete; no indeterminate value is read.
* command line: valid lines are accepted with the values they denote, invalid
  ones rejected, independently of earlier calls.
* main: rtl_fm runs for an accepted scan only, tuned to the frequency, in the
  mode and for the time that were typed; the exit code tells how the run ended; what
  was asked for is scanned.
* database: after `rcs_open_db` has returned the table exists; what storing a
  clip answered is true and stays true.

## 2. Modules

**Radio** – one scan. The actions named after steps of the parent (`DeviceOpen`
... `CloseAndReturn`) follow `radio.c` in order, `ppc` is where it is. A step
ends where another process could be noticed: the check of the clock, the resize
and the read are separate, so that time passes and the child dies in between.
The child (`cpc`) goes from `forked` over `setup` to `rtl_fm` and `streaming`.
The pipe is a bounded sequence of bytes together with the sets `readers` and
`writers` of the processes that hold its ends, from which end of file and broken
pipe follow as in the kernel. The k-th byte rtl_fm writes is the number k, which
makes loss, repetition and misalignment visible. `late` is a history variable.
`dataCap` becomes 0 when realloc returns NULL, because the capacity has wrapped or
because more than `AmpleMemory` samples are asked for and there may be no memory for
them; what that leads to (a failing read, then a crash of the detector) is kept.
The first allocation, of 2000 bytes, is taken to succeed. After an `rtlsdr_open` that
failed, whose result the code ignores, the device check prints uninitialised strings:
it goes on or dies. The stdio buffer of stdout is a
number of bytes: 0 on a terminal, the length of the announcement otherwise.

**Capture** – the promise of a scan, without processes, pipe, buffer and clock: a
source sends samples, a listener hears a prefix of them, stops, and answers once;
it may fail before it listens or behind the capture, never within. `Radio` implements
it (`ImplementsCapture`): `Stage` summarises `ppc`, `sent` is what rtl_fm has
written, and a failed exec, about which nothing is promised, is `spoiled`.

**Vad** – calls of `has_voice_activity` on one `RcsVad`. `StartCall`, `Predict`
and `PredictDone` are `SpeechProbs`; `Speech`, `Quiet` and `Silence` are the
branches of the loop of `DoVad`, `Finish` what follows it. A probability is one
of three levels, all the code can tell apart; the answer of the model is any
level. The model's memory is represented by the windows it was computed from.
`Interval.end` is `Unset` until it is written. `Reference` is the abstract
specification of a call: the segments defined by quantifiers over the levels,
without a loop and without state. The result is a set, because the caller only
asks whether it is empty; the seconds the bounds are divided into are left out.
Bounds of segments are exact integers; `FloatLongEnough` is the last test as the
code computes it, in floats, and `RoundingHarmless` says when the two differ.

**Float** – rounding to a significand of `FloatBits` bits, used by `Vad` and `Input`.

**Getopt** – one call of `getopt` is one action, named after how it returns
(`ScanEnds`, `FlagFound`, `ArgumentNext`, ...). The variables are the statics of
`getopt.c` and the vector. What a call does before it looks at a character is
`Resumed`: `Rational`, `SkipNonoptions` and `SkipDashes` are the blocks of
`_getopt_internal`, `exchange` is computed by `moved`, a recursive function that
takes one round of the C loop at a time. A word is a sequence of tokens; an
argument such as `128` is one token. `Beyond` says that a call would read behind
the vector. The module has no Spec: **GetoptScan** scans one vector from the
start of a process, and **Input** calls the same actions in its loop. At the end
of `Getopt`, `Reading` is the reference both are compared with: the options and
the other words, found by one pass from left to right over the words as typed.

**Input** – command lines parsed one after the other in one process, as
`src/test/input.cc` does. `pc` goes through the checks of the code; each is an
action that continues or returns. The frequency word is parsed by `Strtof`,
`apply_frequency_suffix` and the cast `ToUint32`, which may give any of the values
builds give where C leaves it undefined. Numerals and products are
rounded as floats. `memory` is what `nextchar` points
into: nothing, a word of the line being parsed, one of a line that a rejection
leaked, or a freed one. Undefined behaviour of other kinds (a freed word is
read, getopt reads behind the vector, a mode without end is lowered) leads to
`pc = "undefined"`, where the model stops. `MaxParses` bounds how many lines a process
parses, and `Again` which of them may share a process with another; in the program it
is one line.

**Rcs** – the program. It extends `Input` and instantiates `Radio`, whose `timeout` is
a definition here: the hold time of the parsed input, made a float (24 bits lose
the seconds of hold times beyond half a year, which `HoldTimeKept` allows for). Its own actions
are the lines of `main` and the conversion of the frequency to text at the start of
`radio_scan_single_freq`: `ParseLine` runs `Input`, `CheckDevice` and `Scanning` run
`Radio`, whose exit codes are those of the program. `freq_str` is a sequence of
digits (`Minus` is the sign that `%d` prints for large numbers), `freq_room` what
was allocated for it, `args` what rtl_fm is started with. Whether a clip has a
voice is left open as in `Radio`, except that a clip of fewer than `MinClip` samples
has none; with `MinClip` the minimal speech and two pads this is what
`ShortNeverHeard` proves of `Vad`.

**Db** – instances of the program in one directory. Every SQLite call that
touches the file is an atomic step; between them the other instance runs, the
instance is killed, or its call fails. Where `stat()` does not work (`statWorks`), it
fails for another reason than that there is no file, and the code takes the file
to be there. `answers` is a history of what
`store_radio_data` has returned; `interrupted` records that a database was left
without its schema.

**Store** – the promise of the database: a call takes effect at one moment between
its start and its end, or never; it is answered truthfully unless its caller dies;
what is stored stays. `Db` implements it (`ImplementsStore`).

Definitions whose names begin with `Mut` are deliberately broken variants of the
definition behind them. Nothing uses them; substituted for the original they
show that a property is sensitive to the mistake they describe.

## 3. Runs

| run | configuration | question |
|---|---|---|
| radio | `MCRadio.cfg` | types, buffer bounds, order of the samples, lateness, length of the capture, hand-over of the dongle; does every scan end, and the child with it, even if rtl_fm is silent? does all of it implement `Capture`? |
| radio_exit | `MCRadioExit.cfg` | *violated*: the exit code when rtl_fm cannot be invoked |
| radio_text | `MCRadioText.cfg` | *violated*: only rtl_fm's output is taken for samples |
| vad | `MCVad.cfg` | segments against `Reference`, memory between calls, termination, long speech heard and short clips not, floats against integers |
| getopt | `MCGetopt.cfg` | a scan against `Reading`: options in order, words permuted and none lost, nothing read behind the vector |
| input | `MCInput.cfg` | the first parse: is a line of the documented form refused for an invalid flag only, and has an accepted one the values of the last flags and the frequency that was typed? two parses: does each end, and are lines without flags judged for themselves? |
| input_help | `MCInputHelp.cfg` | *violated*: the example of the help text is accepted |
| input_unbounded | `MCInputUnbounded.cfg` | *violated*: frequencies that fit no `uint32_t` are rejected |
| rcs | `MCRcs.cfg` | the whole program: exit codes, the text and the mode rtl_fm gets, the hold time, termination |
| rcs_range | `MCRcsRange.cfg` | *violated*: a range that is accepted is scanned |
| db | `MCDb.cfg` | two instances, killed at any step: when may the table be missing, are answers true, do they implement `Store`? |
| db_setup | `MCDbSetup.cfg` | *violated*: an open database has its table |

Bounds of the radio runs: the pipe holds three samples, so rtl_fm blocks on a
full pipe and the parent on an empty one; the first capacity is two and an int
ends at 15, so a capture of eight samples (`MaxSamples`) resizes twice, the second
time with memory for seven samples only (`AmpleMemory`), and then overflows; hold times are negative, one second and three seconds (in `radio_exit` three
seconds only, so that what it finds does not rest on a capture of no length); the
announcement is of even or odd length. `elapsed` stops one second behind the
hold time, which is as late as any later one. Every disjunct of `Next` fires.

Bounds of the vad run: a window is four samples, two silent windows behind the
one where a silence begins end a segment, six samples of speech without the pads
are enough, and pads of half a window reach into the neighbouring windows; clips
have 0, 3, 9, 16, 27 or 32 samples, hence no window, an incomplete one, several
segments, and a tail that is not looked at. Two calls in a row show what one
leaves to the next. A float has four bits: it keeps even numbers up to 32 and
odd ones up to 15. The bounds of a segment that silence has closed are even
here; in the program they are multiples of 32 (windows of 512 samples, pads of
480), which 24 bits keep up to 2^29 samples, nine hours. Only the open segment,
which ends with the clip, can have another bound, and a clip of 27 samples shows
that its verdict may then differ by one rounding.

Bounds of the getopt run: all vectors of up to four words out of nine (a word, the
empty word, `-`, `--`, a flag, an option with its argument in the same and in
the next word, two options in a word, an invalid one), and of five and six words
out of three, so that blocks of unequal length are exchanged in several rounds.
Both orderings are tried.

Bounds of the input runs: 27 shapes of a frequency word (those of
`src/test/input.cc` and of the help text) with six modes, lines of one to three
words, and lines with one or two flag words out of twelve, three out of six and
four out of three.
A `uint32_t` has 24000 values and an `int` 64, the suffixes multiply by 10 and
by 100; so there are frequencies that overflow by themselves, only with their
suffix, or become 0, and flag values that wrap to 0 or to another value.
Frequencies are counted in eighths of a hertz, which shows that the fraction is
cut off, and a float has eight bits, so that a numeral is rounded when it is
read, again when its suffix is applied, or not at all. Thirty of the lines (`Again`)
are parsed in one process with any other of them: the first parse may end in the
middle of a word, with an index behind the end of the second line, or with its
words freed or leaked; what a third parse would start from is of the same kinds.

Bounds of the rcs run: fourteen lines that lead to each end of `main`, both
orderings of getopt, hold times that are negative, one, two, three and five seconds
(the last from a number that wraps); frequencies 0, ordinary, above half the range
of a `uint32_t`, and beyond it. The pipe holds two samples and rtl_fm sends at most
three, as the scan itself is the subject of the radio run; memory is ample for three
samples, so the buffer may be lost.

Bounds of the db runs: two instances started twice each, which store two clips
each; with one setup in between the other's steps, and one left behind by an
earlier start. In some behaviours the schema file is missing throughout, in some
`stat()` does not work.

Deadlock is checked in every run: `Finished` (`Over` in `Rcs`) is the only way to
stop.

### Fairness

`ProgramFairness` says that the scheduler runs both processes and that time
passes: the parent is a sequential program (`RcsNext`), the child before and at
its exec is too, and a pending signal is delivered. It says nothing of the
dongle: rtl_fm may be silent for ever. `KilledChildStops` holds under this alone.
`Termination` and `ChildStops` are implications whose premise `DongleDelivers`
adds that rtl_fm writes while it can, finds a broken pipe when it writes, and ends
after `MaxSamples`. Nothing is assumed of `RtlFmGivesUp` before that. In `Vad` the
loops run on (`WF_vars(Next)`). In `Input` a parse that has begun goes on
(`WF_vars(Parse)`): it is straight-line code of one thread with one loop, and
whether that loop ends is the question. No parse need begin. `Rcs` makes the
assumptions of `Radio`, and that `main` goes on (`Main`), the one parse included;
`ProgramEnds` has the premise `DongleDelivers` too. `Db` has safety properties only.

## 4. Disagreements between the code and what it says

* `radio_exit`: an rtl_fm that cannot be started, for a capture of a positive length, is
  reported as a frequency without a voice and exit code 0; `RTL_FM_FAILED` is used for a failed fork
  only.
* `radio_text`: `exit()` in the child after a failed exec flushes inherited
  stdio text into the pipe when stdout is not a terminal.
* `input_help`: line 221 of `input.c` is a comma expression where a call was meant.
  The suffix of a second frequency is not read, and a line like the example of
  the help text is rejected.
* `input_unbounded`: infinities, NaN and numbers of 2^32 and more pass, against
  what `src/test/input.cc` expects, and are cast to `uint32_t` with undefined
  behaviour.
* `db_setup`: a file that exists is taken for a database that is set up.
* `rcs_range`: the call that would scan a range is commented out (`main.cc:50`). A range
  that is accepted, such as `100-200`, looks for the dongle and ends with exit code 0,
  although the help text (`input.c:116`) and the usage (`input.c:246`) promise a scan.

Disagreements without a run of their own, which the properties decide for the code or
leave open:

* `src/test/input.cc:65-87`, headed "Tests a valid frequency range input", expects the
  well-formed `105`, `105M`, `105k`, `105-106` and `105.1M-105.2` to be rejected. The code accepts
  them, as the usage (`input.c:243-248`) says it should; `FailsForReason` and `FlaglessAlike`
  agree with the code here, and so contradict the test.
* `input.c:131` says that 112.8M "becomes 11280000". The code makes 112800000 of it, and
  `FrequencyNear` asserts that: the comment lacks a zero.
* `radio.c:105-111` allocates one byte too few for frequency 0 (typed as `0.5`), and for
  2147483648 to 3294967296, which `%d` prints with a sign and as many digits. `TextFits`
  says that it is never more than that byte, the zero at the end of the text; `TunedAsAsked`
  leaves out what has a sign.
* A negative hold time is accepted (`input.c:321`), captures nothing and is answered as
  silence. Nothing says what it should mean; the properties hold with it.
* A number that does not fit an `int` is wrapped by `atoi`, silently, unless it becomes 0.
  The properties read the words in the same way.
* A second parse in one process behind a line with flags may read a freed word, or behind
  its vector. `ParseEnds` admits this. Neither the program nor a test does it.

Three more consequences of the code that a reader should know, and that the
properties allow for: the hold time is looked at only between reads that may
block, so a silent rtl_fm prolongs a capture (`AtMostOneLate` counts samples, not
seconds, and `Termination` needs `DongleDelivers`). With `POSIXLY_CORRECT` in the
environment no flag counts, because the word `scan` comes before all of them. And
`optind` is never set back, so a second parse in the same process may accept a
line whose invalid flag the first one rejected: `FlagsHonoured` and
`FailsForReason` speak of the first parse (`parses = 1`), the one the program makes.

## 5. Proofs

`RadioProofs` proves for every capacity of the pipe and of the buffer, width of
an int, hold time and length of capture: `TypeOK`, `BufferSafe`,
`OverflowOnlyWhenHuge`, `AtMostOneLate`, `HandOver`, `FullHoldTime`,
`ClipInOrder`. It uses the assumptions named in `Radio` (a pipe holds a sample,
capacities are positive, times are integers, memory is ample for no more samples than an
int can count). None of the invariants is
inductive. `Inductive` adds which process exists when and holds the write end
(`InvProcess`: end of file means a dead child), who may have the dongle
(`InvDevice`), that at the head of the loop the buffer is at most full
(`InvBuffer`: this is why testing one sample ahead is enough), and that a late
sample can only be the last (`InvLate`). The order of the samples is a second
induction, `InvClip`, on top of it: the pipe always holds `Bytes(d, w)`, the
bytes of the samples behind the d-th up to the w-th; `BytesWritten` and
`BytesRead` are what a write and a read do to it.

`VadProofs` proves `TypeOK`, `OpenEnd` and `SegmentsOrdered` for all rates,
durations and clips. The strengthening relates the two clocks of the code
(`InvClock`), bounds where the open segment started and the silence in it began
(`InvOpen`), and says that closed segments end where the next may start
(`InvClosed`). The one assumption on the durations is `SpacingAssumption`: two
pads fit into a minimal silence and a window (960 of 2112 samples with the
program's values); without it padded segments overlap. From the same invariant
follows `ShortClipSilent`: a segment that is left lies within the clip, and its pads
are taken off twice. `FreshInference` needs no strengthening beyond `TypeOK`
(`FreshStep`): every call clears the memory before its first window.

`DbProofs` proves `TypeOK`, `TableUnlessInterrupted` and `AnswersAreTrue` for any
set of instances, any number of starts and stores, and any choice of who may be
killed. Typing needs `InvCounted` (a call under way has been counted).
`TableUnlessInterrupted` follows from `InvSetup`: what `stat()` found still exists
at `sqlite3_open`, an instance beyond it has a file, and a file without a table
has its reason. `AnswersAreTrue` follows from `InvStored`: rows and answers belong
to calls already counted, and the call under way has no answer yet and a row
exactly if its insert was done; without this an old answer could be made false
by a later row with the same number.

Two refinements are proved for all constants. `CaptureImplemented` shows
`Spec => ImplementsCapture`: a write of rtl_fm, a read, a failed exec, the fork, the
end of the loop, the answer and every exit are the steps of `Capture`, all others
are stutters. A read is the next sample of what was sent because of `InvClip`, and
rtl_fm is never further ahead than the pipe is long. `StoreImplemented` shows
`Spec => ImplementsStore`: a call is pending from `CallStore` until it is answered
or its instance killed, and the commit of SQLite is the moment at which it takes
effect (`InvStored` says that it has not been committed before).

`FloatsHarmless` proves `RoundingHarmless` wherever `FloatsSuffice`: window and pad
are multiples of a power of two, a significand of which is as long as the longest
clip (32 divides 512 and 480, so up to 2^29 samples). Then every bound that is not
the end of the clip is on that grid (`InvGrid`) and kept exactly, and what is rounded
once, the end, is off by less than the spacing of floats there.

`FloatProofs` proves what `Float` computes for every width of the significand. Its
functions, and `moved`, `freq_len`, `Value` and the like, are recursive, so their values
need two inductions: that the recursive equation has a solution (`Recursion`, or
approximations as in `GetoptProofs`), and what it is. Both go through the least
element of a set of counterexamples (`StrongInduction`, from `WFMin`), because the
induction theorems of the library cannot be instantiated. The results: the error
of a rounding is at most n / (2^FloatBits + 1) (`RoundedNear`), and multiples of a
power of two are kept as far as a significand of it reaches (`GridExact`).

`GetoptProofs` and `GetoptScanProofs` prove `TypeOK`, `NeverBeyond`, `ToldInOrder` and
`Arranged` for every vector of words, all option characters and both orderings.
The invariant `ScanInv` says which words `Reading` has read when `getopt` returns: those
in front of `optind`, up to a character of the word it is inside of (`Inside`) or
all of a word (`Between`); what was returned so far is what `Reading` has found in
them; and the vector is `Tidy`: in front the options, then the skipped words, then
what is untouched. `exchange` keeps it tidy because `moved` is a rotation
(`Turned`), by induction over the length of the segment it still has to exchange:
this is the part that no bound on the number of words shows. When the scan has
ended, what was tidy is `Sorted`. It is assumed that no character is an option
with and without an argument, or one of the answers (`FlagAssumption`).

`InputProofs` proves for all lines, numerals and widths of the numbers, with what the
names of the assumptions in `Input` say of them (a line has a word, a name keeps its
length when it is lowered, an int has 8 values at least, the fields are those of
`input.c:310-321`):

* `TypeOK` and `FlaglessAlike` for any number of parses in one process. `Alone` is
  the reason for the latter: as long as lines have no flags, `getopt` is left as if
  it had never been called (`Fresh`).
* `FlagsHonoured` and `FailsForReason`, which speak of the first parse of a process,
  however many follow: only there is it known what the statics of `getopt` are
  (section 4). `First` says so, and its `FirstParse` carries `ScanInv`
  through the loop of the parser, and says that the fields hold the last values of
  the options seen so far (`Kept`); by `ToldInOrder` and `Arranged` these are the
  options of the line. `FailsForReason` reads the line once more, by the forms that the
  usage lists (`Documented`); `DocumentedTaken` shows that the parser takes each of them.
* `FrequencyNear` for any number of parses. `Tuned` says that from the check of the
  mode on the struct has the frequency, for every bound that the number typed keeps
  below: the conversion to a `uint32_t` is defined only if two roundings do not
  carry it to the end of the range.

`RcsProofs` proves `RcsTypeOK`, `ExitCodeTells`, `TextFits`, `TunedAsAsked` and
`HoldTimeKept`. Every behaviour of the program is one of `Input` (`ProgramParses`), so
the results about the parse carry over; the scan's are proved again as far as they
are needed (`InvChild`), as this prover does not see the theorems about `Radio`
through `INSTANCE`. `InvMain` orders what `main` decides and what exists by then;
`InvText` says that the text is the one of the frequency and its room what was
allocated for it; that the digits of a number are as many as it can be divided by
ten, and say the number again, are inductions over it (`LengthOfDigits`,
`DigitsSayNumber`), and so is that a larger number has no fewer digits (`LengthGrows`),
which bounds a text with a sign. `ParseAssumption`: `main` parses one line, so
that every parse is a first one (`OneLine`); `SpanAssumption`: a `uint32_t` has an even
number of values.

Four attempts at a proof failed because the property was false for some constants,
and corrected it: `Flagless` must exclude the frequency `-nan`, which passes the
check of the frequency and is then read as an option; a number at the very end
of the range of a `uint32_t` may be rounded out of it, so `FrequencyNear` and
`TunedAsAsked` speak of numbers that two roundings leave `Below` it, which also made
them cover more of the range; just below half the range `%d` may print a
sign where the number typed had none coming; and the hold time is a float, so
`HoldTimeKept` speaks of the rounded one. The instances have the first of these cases
and exactly half the range (`120M`); the others need the theorem.

Only model-checked: everything about liveness (fairness is outside the prover's
reach), and the action properties `MatchesReference` and `LongSpeechHeard`. Every
invariant that a run checks is proved.

## 6. Not modelled, and plan

Left to prove: that the segments are those of `Reference` (`MatchesReference`), from
which `LongSpeechHeard` would follow; and the invariants of `Radio` that `Rcs` does not
use, within `Rcs`.

Left out for good: the ONNX network and SQLite themselves, wording of messages,
leaks as such, the seconds `GetSpeechTimestamps` divides by (the caller counts
segments), long options and the other orderings of getopt, which `input.c` never
asks for, build files, `scan_range_linear`, which is commented out, and the flags
`-v`, `-t` and `-c`, which are parsed but used by nothing: a scan lasts for the hold
time, whatever timeout is asked for.

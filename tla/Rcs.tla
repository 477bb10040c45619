-------------------------------- MODULE Rcs ---------------------------------
(***************************************************************************)
(* The program: main (src/main.cc) hands the command line to the parser of *)
(* Input, chooses what to do, and scans a frequency the way Radio says. In *)
(* between the frequency becomes the text and the mode the name that       *)
(* rtl_fm is started with (src/radio.c).                                   *)
(*                                                                         *)
(* Input is extended, Radio instantiated: its variables are declared here, *)
(* and its `timeout' is the hold time of the parsed input, which nothing   *)
(* changes once the scan has begun. Voice detection is what Radio says of  *)
(* it, and VadProofs proves of Vad: no voice in fewer than MinClip samples.*)
(***************************************************************************)
EXTENDS Input

CONSTANTS PipeCapacity, InitialCap, AmpleMemory, BannerSizes, MinClip, MaxSamples
                     (* of Radio                                           *)

ASSUME ParseAssumption == MaxParses = 1   \* main parses one command line

ASSUME SpanAssumption == FreqSpan % 2 = 0

VARIABLES ppc, exitCode, elapsed, dataCap, radio_data, late, verdict, stdoutBuf,
          cpc, childFate, signals, written, pipe, readers, writers, device,
                     (* of Radio                                           *)
          freq_str,  (* the text of the frequency, NoText until it exists  *)
          freq_room  (* the bytes allocated for it                         *)

\* Broken: main hands over the other duration.
MutTimeout == Rounded(input.timeout)

\* What main calls radio_scan_single_freq with: an int that becomes a float.
timeout == Rounded(input.hold_time)

Timeouts == {Rounded(n) : n \in IntRange}
IntMax == IntSpan \div 2 - 1

Scan == INSTANCE Radio

scanVars == <<ppc, exitCode, elapsed, dataCap, radio_data, late, verdict, stdoutBuf,
              cpc, childFate, signals, written, pipe, readers, writers, device>>
textVars == <<freq_str, freq_room>>
rcsVars  == <<vars, scanVars, textVars>>

INVALID_PROGRAM_USAGE == 2

NoText == <<>>
Minus  == -1        \* in a text, where the others are digits

\* main returns, or exit() is called in it.
Exits(code) ==
  /\ Scan!Exit(code)
  /\ UNCHANGED <<vars, textVars, elapsed, dataCap, radio_data, late, verdict,
                 stdoutBuf, cpc, childFate, signals, written, pipe, device>>

-----------------------------------------------------------------------------
(* From the command line to the subcommand *)

ParseLine ==
  /\ ppc = "check"
  /\ StartParse \/ Parse
  /\ UNCHANGED <<scanVars, textVars>>

InvalidUsage ==
  /\ ppc = "check"
  /\ result = "rejected"
  /\ Exits(INVALID_PROGRAM_USAGE)

\* The memory was read behind its end: the mode is refused all the same, or the
\* program dies.
UsageUndefined ==
  /\ ppc = "check"
  /\ pc = "undefined"
  /\ \E code \in {INVALID_PROGRAM_USAGE, Scan!SIGSEGV_STATUS} : Exits(code)

Help ==
  /\ ppc = "check"
  /\ Accepted("help")
  /\ Exits(Scan!EXIT_SUCCESS)

-----------------------------------------------------------------------------
(* The scan *)

CheckDevice ==
  /\ Accepted("scan")
  /\ UNCHANGED <<vars, textVars>>
  /\ Scan!DeviceOpen \/ Scan!DeviceAnnounceAndClose

\* Broken: the branches are swapped.
MutOneToScan == input.freq_start # input.freq_end

OneToScan == input.freq_start = input.freq_end

\* A range of frequencies is checked for a dongle and then not scanned.
SkipRange ==
  /\ ppc = "spawn"
  /\ ~OneToScan
  /\ Exits(Scan!EXIT_SUCCESS)

\* How often a number can be divided by ten before it is 0.
freq_len[n \in Nat] == IF n = 0 THEN 0 ELSE 1 + freq_len[n \div 10]

Digits[n \in Nat] == IF n < 10 THEN <<n>> ELSE Append(Digits[n \div 10], n % 10)

\* sprintf("%d") takes the uint32_t for an int.
Formatted(freq) ==
  IF freq < FreqSpan \div 2 THEN Digits[freq] ELSE <<Minus>> \o Digits[FreqSpan - freq]

\* Broken: the byte that ends the text is forgotten.
MutNoEnd(freq) == freq_len[freq]

Allocated(freq) == freq_len[freq] + 1

\* A text that is too long by a byte is written behind the allocation. malloc
\* rounds so small a size up, and the text stays whole.
FormatFrequency ==
  /\ ppc = "spawn"
  /\ OneToScan
  /\ freq_str = NoText
  /\ freq_str' = Formatted(input.freq_start)
  /\ freq_room' = Allocated(input.freq_start)
  /\ UNCHANGED <<vars, scanVars>>

demod_modes == [fm |-> 0, wbfm |-> 1, am |-> 2]

\* Broken: the names are in the order the parser tests them in.
MutModes == <<"am", "fm", "wbfm">>

modes == <<"fm", "wbfm", "am">>

\* What rtl_fm is started with; a sequence begins at 1, an array at 0.
args == [f |-> freq_str, M |-> modes[demod_modes[input.demod_mode] + 1]]

\* radio_scan_single_freq from the pipe to the end of the program.
Scanning(step) ==
  /\ freq_str # NoText
  /\ UNCHANGED <<vars, textVars>>
  /\ step

ScanFrequency == Scanning(Scan!RcsNext)

-----------------------------------------------------------------------------
RcsInit == Init /\ Scan!Init /\ freq_str = NoText /\ freq_room = 0

Main ==
  \/ ParseLine
  \/ InvalidUsage
  \/ UsageUndefined
  \/ Help
  \/ CheckDevice
  \/ SkipRange
  \/ FormatFrequency
  \/ ScanFrequency

Child == Scanning(Scan!ChildNext)

Clock == Scanning(Scan!Tick)

Over ==
  /\ ppc = "exited"
  /\ cpc \in {"none", "dead"}
  /\ UNCHANGED rcsVars

RcsNext == Main \/ Child \/ Clock \/ Over

RcsSpec == RcsInit /\ [][RcsNext]_rcsVars

\* As for Radio: both processes are scheduled and the clock advances.
RcsFairness ==
  /\ WF_rcsVars(Main)
  /\ WF_rcsVars(Clock)
  /\ WF_rcsVars(Scanning(Scan!ChildSetup))
  /\ WF_rcsVars(Scanning(Scan!ExecRtlFm \/ Scan!ExecFails))
  /\ WF_rcsVars(Scanning(Scan!RtlFmOpensDevice))
  /\ WF_rcsVars(Scanning(Scan!ChildTerminated))

DongleDelivers ==
  /\ WF_rcsVars(Scanning(Scan!RtlFmWrites))
  /\ WF_rcsVars(Scanning(Scan!RtlFmBrokenPipe))
  /\ WF_rcsVars(Scanning(Scan!RtlFmGivesUp /\ written = MaxSamples))

FairRcs == RcsSpec /\ RcsFairness

-----------------------------------------------------------------------------
(* Properties *)

\* Every variable stays in its type.
RcsTypeOK ==
  /\ TypeOK
  /\ ppc \in {"check", "announce", "spawn", "forked", "loop", "read", "vad",
              "kill", "close", "exited"}
  /\ exitCode \in Scan!ExitCodes \cup {INVALID_PROGRAM_USAGE, Scan!Running}
  /\ freq_str \in Seq({Minus} \cup 0..9)
  /\ freq_room \in Nat

\* input.h:23, main.cc:34-62: the exit code 2 stands for a line that was refused,
\* and after 0 the line was accepted, a frequency has its verdict, and help has
\* not been taken for a scan. (What 0 means after a range is RangeScanned.)
ExitCodeTells ==
  /\ exitCode = INVALID_PROGRAM_USAGE => result = "rejected" \/ pc = "undefined"
  /\ exitCode = Scan!EXIT_SUCCESS =>
       /\ result = "accepted"
       /\ Accepted("scan") /\ input.freq_start = input.freq_end => verdict # "none"
  /\ cpc # "none" => Accepted("scan")

\* input.c:116, 246, the help text and the usage: a range of frequencies is
\* scanned, so that a run that ends well has started rtl_fm.
RangeScanned ==
  exitCode = Scan!EXIT_SUCCESS /\ Accepted("scan") => cpc # "none"

\* radio.c:105-111: every frequency but 0 and those whose text has a sign gets
\* as many bytes as its text needs with the zero behind it, and for each of the
\* others that zero is all that is written behind the allocation.
TextFits ==
  freq_str # NoText =>
    /\ Len(freq_str) <= freq_room
    /\ input.freq_start \in 1..FreqSpan \div 2 - 1 => Len(freq_str) < freq_room

\* The number that the first k digits of a text stand for.
Value(text) ==
  LET v[k \in 0..Len(text)] == IF k = 0 THEN 0 ELSE 10 * v[k - 1] + text[k]
  IN  v[Len(text)]

\* input.c:237-242: rtl_fm is told the frequency and the mode that were typed,
\* though the parser, an enumeration, two conversions and an array of names are
\* in between; up to half the range of a uint32_t, where %d prints a sign.
TunedAsAsked ==
  cpc \in {"rtl_fm", "streaming"} /\ Ordinary(line[2])
    /\ Below(Typed(line[2]), FreqSpan \div 2) =>
    /\ Near(Value(args.f), Typed(line[2]))
    /\ IsMode(line[3], args.M)

\* input.c:119: the capture ends early only if rtl_fm is gone or the buffer is
\* lost, and else lasts as long as the last -h that counts says, or 3 seconds. A
\* float of 24 bits rounds the number only beyond half a year.
HoldTimeKept ==
  ppc \in {"vad", "kill", "close"} =>
    elapsed >= Rounded(LastValue("h")) \/ cpc = "dead" \/ dataCap = 0

\* Every run of the program ends, whatever is typed, if the dongle delivers.
ProgramEnds == DongleDelivers => <>(ppc = "exited")

=============================================================================

------------------------------- MODULE Radio -------------------------------
(***************************************************************************)
(* One `rcs scan <freq> <mode>' as src/radio.c runs it: the program looks  *)
(* for a dongle, opens a POSIX pipe, forks a child that becomes rtl_fm,    *)
(* collects the 16 bit samples rtl_fm writes into the pipe for `timeout'   *)
(* seconds, asks the voice detector about them and kills the child.        *)
(*                                                                         *)
(* Two processes ("rcs" and "child") and the clock interleave freely.      *)
(* The k-th byte rtl_fm writes is the number k, so sample i is the pair    *)
(* <<2i-1, 2i>>; a byte of text that reaches the pipe is TextByte, and a   *)
(* byte of a sample that no read ever stored is Unset.                     *)
(***************************************************************************)
EXTENDS Integers, Sequences

CONSTANTS
  PipeCapacity, (* bytes the kernel buffers before a write blocks          *)
  InitialCap,   (* dataCap before the first realloc (1000 in the code)     *)
  IntMax,       (* the largest C int                                       *)
  AmpleMemory,  (* samples for which realloc always finds memory           *)
  Timeouts,     (* the hold times, in seconds, a user may ask for          *)
  BannerSizes,  (* possible lengths of the "Found available device" text   *)
  MinClip,      (* fewest samples in which the detector can find voice     *)
  MaxSamples    (* bound: rtl_fm ends by itself after this many samples    *)

ASSUME PipeAssumption   == PipeCapacity \in Nat /\ PipeCapacity >= 2
ASSUME CapAssumption    == InitialCap \in Nat \ {0}
ASSUME IntAssumption    == IntMax \in Nat /\ InitialCap <= IntMax
ASSUME MemoryAssumption == AmpleMemory \in Nat /\ AmpleMemory <= IntMax
ASSUME TimeAssumption   == Timeouts \subseteq Int
ASSUME BannerAssumption == BannerSizes \subseteq 1..PipeCapacity
ASSUME ClipAssumption   == MinClip \in Nat \ {0}
ASSUME BoundAssumption  == MaxSamples \in Nat

VARIABLES
  ppc,         (* where rcs is                                             *)
  exitCode,    (* its exit status, Running until it has ended              *)
  timeout,     (* the hold time it was given                               *)
  elapsed,     (* time(NULL) - start                                       *)
  dataCap,     (* allocated samples; 0 once realloc has returned NULL      *)
  radio_data,  (* the samples stored so far; data_len is its length        *)
  late,        (* history: samples stored when the time was already up     *)
  verdict,     (* what was printed about voice activity                    *)
  stdoutBuf,   (* bytes of text waiting in the stdio buffer of stdout      *)
  cpc,         (* where the child is                                       *)
  childFate,   (* why the child ended                                      *)
  signals,     (* the signals pending for the child                        *)
  written,     (* samples rtl_fm has written                               *)
  pipe,        (* the bytes in the pipe                                    *)
  readers,     (* the processes that hold the read end open                *)
  writers,     (* the processes that hold the write end open               *)
  device       (* who has the dongle open                                  *)

rcsVars   == <<ppc, exitCode, timeout, elapsed, dataCap, radio_data, late,
               verdict, stdoutBuf>>
childVars == <<cpc, childFate, signals, written>>
pipeVars  == <<pipe, readers, writers>>
vars      == <<rcsVars, childVars, pipeVars, device>>

TextByte == 0
Unset    == -1

Running               == -1
EXIT_SUCCESS          == 0
PIPE_FAILED           == 1     \* the bare exit(1) after pipe()
NO_RADIO_DEVICE_FOUND == 4
RTL_FM_FAILED         == 7
SIGABRT_STATUS        == 134   \* an uncaught C++ exception
SIGSEGV_STATUS        == 139
ExitCodes == {EXIT_SUCCESS, PIPE_FAILED, NO_RADIO_DEVICE_FOUND, RTL_FM_FAILED,
              SIGABRT_STATUS, SIGSEGV_STATUS}

data_len == Len(radio_data)

\* A sample in memory: the two bytes read() may fill.
Samples == Nat \X (Nat \cup {Unset})

Sample(i) == <<2 * i - 1, 2 * i>>

\* The process ends: the kernel closes what it still holds.
Exit(code) ==
  /\ ppc' = "exited"
  /\ exitCode' = code
  /\ readers' = readers \ {"rcs"}
  /\ writers' = writers \ {"rcs"}

-----------------------------------------------------------------------------
(* rcs: the device check *)

\* radio_device_check up to rtlsdr_open, whose result is ignored: with the
\* dongle in other hands the check goes on without a device.
DeviceOpen ==
  /\ ppc = "check"
  /\ \/ Exit(NO_RADIO_DEVICE_FOUND) /\ UNCHANGED device
     \/ /\ ppc' = "announce"
        /\ device' = IF device = "free" THEN "rcs" ELSE device
        /\ UNCHANGED <<exitCode, readers, writers>>
  /\ UNCHANGED <<timeout, elapsed, dataCap, radio_data, late, verdict, stdoutBuf,
                 childVars, pipe>>

\* Broken: rtlsdr_close is forgotten.
MutKeepsDevice ==
  /\ ppc = "announce"
  /\ ppc' = "spawn"
  /\ stdoutBuf' \in {0} \cup BannerSizes
  /\ UNCHANGED <<exitCode, timeout, elapsed, dataCap, radio_data, late, verdict,
                 childVars, pipeVars, device>>

\* The device is announced on stdout, then closed. The text leaves the process
\* at once on a terminal; otherwise it stays in the stdio buffer. Of a device
\* that could not be opened uninitialised strings are printed: some text, or a
\* read that runs off the stack.
DeviceAnnounceAndClose ==
  /\ ppc = "announce"
  /\ \/ /\ ppc' = "spawn"
        /\ stdoutBuf' \in {0} \cup BannerSizes
        /\ UNCHANGED <<exitCode, readers, writers>>
     \/ /\ device # "rcs"
        /\ Exit(SIGSEGV_STATUS)
        /\ UNCHANGED stdoutBuf
  /\ device' = IF device = "rcs" THEN "free" ELSE device
  /\ UNCHANGED <<timeout, elapsed, dataCap, radio_data, late, verdict, childVars, pipe>>

-----------------------------------------------------------------------------
(* rcs: radio_scan_single_freq and consume_radio_output *)

\* pipe() and fork(), each of which may fail. The child inherits both ends of
\* the pipe and a copy of the stdio buffer.
Spawn ==
  /\ ppc = "spawn"
  /\ \/ \E code \in {PIPE_FAILED, RTL_FM_FAILED} : Exit(code) /\ UNCHANGED cpc
     \/ /\ ppc' = "forked"
        /\ cpc' = "forked"
        /\ readers' = {"rcs", "child"}
        /\ writers' = {"rcs", "child"}
        /\ UNCHANGED exitCode
  /\ UNCHANGED <<timeout, elapsed, dataCap, radio_data, late, verdict, stdoutBuf,
                 childFate, signals, written, pipe, device>>

\* Broken: the parent keeps the write end open.
MutKeepsWriteEnd ==
  /\ ppc = "forked"
  /\ ppc' = "loop"
  /\ elapsed' = 0
  /\ dataCap' = InitialCap
  /\ UNCHANGED <<exitCode, timeout, radio_data, late, verdict, stdoutBuf, childVars,
                 pipeVars, device>>

\* The parent drops the write end, starts its clock and allocates the buffer.
StartCapture ==
  /\ ppc = "forked"
  /\ ppc' = "loop"
  /\ writers' = writers \ {"rcs"}
  /\ elapsed' = 0
  /\ dataCap' = InitialCap
  /\ UNCHANGED <<exitCode, timeout, radio_data, late, verdict, stdoutBuf, childVars,
                 pipe, readers, device>>

\* The while condition: the time is up.
TimeUp ==
  /\ ppc = "loop"
  /\ elapsed >= timeout
  /\ ppc' = "vad"
  /\ UNCHANGED <<exitCode, timeout, elapsed, dataCap, radio_data, late, verdict,
                 stdoutBuf, childVars, pipeVars, device>>

\* Broken: the array is resized one sample too late, or all the time.
MutResizesLate   == data_len > dataCap
MutResizesAlways == TRUE

NeedsResize == data_len + 1 >= dataCap

\* Broken: the wrapped capacity is kept.
MutWraps == {IF 2 * dataCap > IntMax THEN 2 * dataCap - 2 * (IntMax + 1) ELSE 2 * dataCap}

\* What doubling the capacity may lead to. realloc may run out of memory and
\* return NULL; a capacity that no int holds wraps to a negative number, for
\* which it never has any.
Doubled == {cap \in {2 * dataCap, 0} :
              IF cap = 0 THEN 2 * dataCap > AmpleMemory ELSE cap <= IntMax}

\* Broken: an endless loop, the time is not looked at.
MutIgnoresTime ==
  /\ ppc = "loop"
  /\ dataCap' \in IF NeedsResize THEN Doubled ELSE {dataCap}
  /\ ppc' = "read"
  /\ UNCHANGED <<exitCode, timeout, elapsed, radio_data, late, verdict, stdoutBuf,
                 childVars, pipeVars, device>>

\* The loop body up to the read: resize when the array is about to be full.
PrepareRead ==
  /\ ppc = "loop"
  /\ elapsed < timeout
  /\ dataCap' \in IF NeedsResize THEN Doubled ELSE {dataCap}
  /\ ppc' = "read"
  /\ UNCHANGED <<exitCode, timeout, elapsed, radio_data, late, verdict, stdoutBuf,
                 childVars, pipeVars, device>>

\* Broken: one byte is read as a sample.
MutReadsByte ==
  /\ ppc = "read"
  /\ pipe # <<>>
  /\ dataCap > 0
  /\ radio_data' = Append(radio_data, <<pipe[1], Unset>>)
  /\ pipe' = Tail(pipe)
  /\ late' = IF elapsed >= timeout THEN late + 1 ELSE late
  /\ ppc' = "loop"
  /\ UNCHANGED <<exitCode, timeout, elapsed, dataCap, verdict, stdoutBuf, childVars,
                 readers, writers, device>>

\* read() of two bytes found something: one byte if that is all there is.
ReadSample ==
  /\ ppc = "read"
  /\ pipe # <<>>
  /\ dataCap > 0
  /\ LET n == IF Len(pipe) >= 2 THEN 2 ELSE 1
     IN  /\ radio_data' = Append(radio_data,
                                 IF n = 2 THEN <<pipe[1], pipe[2]>>
                                          ELSE <<pipe[1], Unset>>)
         /\ pipe' = SubSeq(pipe, n + 1, Len(pipe))
  /\ late' = IF elapsed >= timeout THEN late + 1 ELSE late
  /\ ppc' = "loop"
  /\ UNCHANGED <<exitCode, timeout, elapsed, dataCap, verdict, stdoutBuf, childVars,
                 readers, writers, device>>

\* Broken: an empty pipe counts as its end.
MutEmptyIsEnd ==
  /\ ppc = "read"
  /\ pipe = <<>> \/ dataCap = 0
  /\ ppc' = "vad"
  /\ UNCHANGED <<exitCode, timeout, elapsed, dataCap, radio_data, late, verdict,
                 stdoutBuf, childVars, pipeVars, device>>

\* Broken: the program gives up when a read fails.
MutDiesOnError ==
  /\ ppc = "read"
  /\ \/ pipe = <<>> /\ writers = {}
     \/ pipe # <<>> /\ dataCap = 0
  /\ Exit(PIPE_FAILED)
  /\ UNCHANGED <<timeout, elapsed, dataCap, radio_data, late, verdict, stdoutBuf,
                 childVars, pipe, device>>

\* read() returned 0 (no byte left and nobody can write any more) or -1 (there
\* is no buffer to copy to): the capture ends with what it has.
ReadFails ==
  /\ ppc = "read"
  /\ \/ pipe = <<>> /\ writers = {}
     \/ pipe # <<>> /\ dataCap = 0
  /\ ppc' = "vad"
  /\ UNCHANGED <<exitCode, timeout, elapsed, dataCap, radio_data, late, verdict,
                 stdoutBuf, childVars, pipeVars, device>>

\* rcs_vad_create throws when the model file is missing, and nothing catches.
VadThrows ==
  /\ ppc = "vad"
  /\ Exit(SIGABRT_STATUS)
  /\ UNCHANGED <<timeout, elapsed, dataCap, radio_data, late, verdict, stdoutBuf,
                 childVars, pipe, device>>

\* The clip is copied for the detector, which is fatal if realloc lost it;
\* then the answer is printed.
DetectVoice ==
  /\ ppc = "vad"
  /\ IF dataCap = 0
     THEN Exit(SIGSEGV_STATUS) /\ UNCHANGED verdict
     ELSE /\ ppc' = "kill"
          /\ verdict' \in IF data_len >= MinClip THEN {"voice", "no_voice"}
                                                 ELSE {"no_voice"}
          /\ UNCHANGED <<exitCode, readers, writers>>
  /\ UNCHANGED <<timeout, elapsed, dataCap, radio_data, late, stdoutBuf, childVars,
                 pipe, device>>

\* Broken: the child is not signalled.
MutNoKill ==
  /\ ppc = "kill"
  /\ ppc' = "close"
  /\ UNCHANGED <<exitCode, timeout, elapsed, dataCap, radio_data, late, verdict,
                 stdoutBuf, childVars, pipeVars, device>>

\* kill(pid, SIGTERM): without a wait() the pid stays the child's, dead or not.
KillChild ==
  /\ ppc = "kill"
  /\ ppc' = "close"
  /\ signals' = {"SIGTERM"}
  /\ UNCHANGED <<exitCode, timeout, elapsed, dataCap, radio_data, late, verdict,
                 stdoutBuf, cpc, childFate, written, pipeVars, device>>

\* close(radioPipe[0]), the frees, and main returns.
CloseAndReturn ==
  /\ ppc = "close"
  /\ Exit(EXIT_SUCCESS)
  /\ UNCHANGED <<timeout, elapsed, dataCap, radio_data, late, verdict, stdoutBuf,
                 childVars, pipe, device>>

-----------------------------------------------------------------------------
(* The child: the code between fork and exec, then rtl_fm *)

ChildEnds(fate) ==
  /\ cpc' = "dead"
  /\ childFate' = fate
  /\ readers' = readers \ {"child"}
  /\ writers' = writers \ {"child"}
  /\ device' = IF device = "child" THEN "free" ELSE device

\* Broken: the child keeps the read end open.
MutKeepsReadEnd ==
  /\ cpc = "forked"
  /\ cpc' = "setup"
  /\ UNCHANGED <<rcsVars, childFate, signals, written, pipeVars, device>>

\* The child drops the read end; dup2 makes the pipe its stdout.
ChildSetup ==
  /\ cpc = "forked"
  /\ cpc' = "setup"
  /\ readers' = readers \ {"child"}
  /\ UNCHANGED <<rcsVars, childFate, signals, written, pipe, writers, device>>

\* execvp: the memory of rcs is replaced by rtl_fm, stdio buffer included.
ExecRtlFm ==
  /\ cpc = "setup"
  /\ cpc' = "rtl_fm"
  /\ UNCHANGED <<rcsVars, childFate, signals, written, pipeVars, device>>

\* execvp returned: exit() flushes the inherited stdio buffer to stdout, which
\* is the pipe by now.
ExecFails ==
  /\ cpc = "setup"
  /\ pipe' = pipe \o [i \in 1..stdoutBuf |-> TextByte]
  /\ ChildEnds("exec_failed")
  /\ UNCHANGED <<rcsVars, signals, written>>

\* rtl_fm opens the dongle, or gives up because somebody else has it.
RtlFmOpensDevice ==
  /\ cpc = "rtl_fm"
  /\ IF device = "free"
     THEN /\ cpc' = "streaming"
          /\ device' = "child"
          /\ UNCHANGED <<childFate, readers, writers>>
     ELSE ChildEnds("no_device")
  /\ UNCHANGED <<rcsVars, signals, written, pipe>>

\* rtl_fm writes one sample; it blocks while the pipe has no room and somebody
\* could still read.
RtlFmWrites ==
  /\ cpc = "streaming"
  /\ written < MaxSamples
  /\ readers # {}
  /\ Len(pipe) + 2 <= PipeCapacity
  /\ pipe' = pipe \o Sample(written + 1)
  /\ written' = written + 1
  /\ UNCHANGED <<rcsVars, cpc, childFate, signals, readers, writers, device>>

\* The write meets a pipe that nobody reads any more.
RtlFmBrokenPipe ==
  /\ cpc = "streaming"
  /\ readers = {}
  /\ ChildEnds("broken_pipe")
  /\ UNCHANGED <<rcsVars, signals, written, pipe>>

\* rtl_fm stops on its own: the dongle was unplugged, a USB error.
RtlFmGivesUp ==
  /\ cpc = "streaming"
  /\ ChildEnds("gave_up")
  /\ UNCHANGED <<rcsVars, signals, written, pipe>>

\* SIGTERM reaches the child, before or after its exec.
ChildTerminated ==
  /\ "SIGTERM" \in signals
  /\ cpc \in {"forked", "setup", "rtl_fm", "streaming"}
  /\ ChildEnds("terminated")
  /\ UNCHANGED <<rcsVars, signals, written, pipe>>

-----------------------------------------------------------------------------
\* A second passes during the capture; one second beyond the hold time is as
\* late as any later one.
Tick ==
  /\ ppc \in {"loop", "read"}
  /\ elapsed <= timeout
  /\ elapsed' = elapsed + 1
  /\ UNCHANGED <<ppc, exitCode, timeout, dataCap, radio_data, late, verdict,
                 stdoutBuf, childVars, pipeVars, device>>

\* Both processes are gone: nothing is left to happen.
Finished ==
  /\ ppc = "exited"
  /\ cpc \in {"none", "dead"}
  /\ UNCHANGED vars

Init ==
  /\ ppc = "check"
  /\ exitCode = Running
  /\ timeout \in Timeouts
  /\ elapsed = 0
  /\ dataCap = 0
  /\ radio_data = <<>>
  /\ late = 0
  /\ verdict = "none"
  /\ stdoutBuf = 0
  /\ cpc = "none"
  /\ childFate = "none"
  /\ signals = {}
  /\ written = 0
  /\ pipe = <<>>
  /\ readers = {}
  /\ writers = {}
  /\ device \in {"free", "other"}

RcsNext ==
  \/ DeviceOpen
  \/ DeviceAnnounceAndClose
  \/ Spawn
  \/ StartCapture
  \/ TimeUp
  \/ PrepareRead
  \/ ReadSample
  \/ ReadFails
  \/ VadThrows
  \/ DetectVoice
  \/ KillChild
  \/ CloseAndReturn

ChildNext ==
  \/ ChildSetup
  \/ ExecRtlFm
  \/ ExecFails
  \/ RtlFmOpensDevice
  \/ RtlFmWrites
  \/ RtlFmBrokenPipe
  \/ RtlFmGivesUp
  \/ ChildTerminated

Next == RcsNext \/ ChildNext \/ Tick \/ Finished

Spec == Init /\ [][Next]_vars

-----------------------------------------------------------------------------
(* Fairness. The scheduler runs both processes and the clock advances. What *)
(* rtl_fm does once it streams depends on the dongle.                       *)

ProgramFairness ==
  /\ WF_vars(RcsNext)
  /\ WF_vars(Tick)
  /\ WF_vars(ChildSetup)
  /\ WF_vars(ExecRtlFm \/ ExecFails)
  /\ WF_vars(RtlFmOpensDevice)
  /\ WF_vars(ChildTerminated)

\* The dongle delivers: rtl_fm keeps writing until it ends.
DongleDelivers ==
  /\ WF_vars(RtlFmWrites)
  /\ WF_vars(RtlFmBrokenPipe)
  /\ WF_vars(RtlFmGivesUp /\ written = MaxSamples)

\* rtl_fm may fall silent for ever without ending.
StallSpec == Spec /\ ProgramFairness

-----------------------------------------------------------------------------
(* Properties *)

\* Every variable stays in its type.
TypeOK ==
  /\ ppc \in {"check", "announce", "spawn", "forked", "loop", "read", "vad",
              "kill", "close", "exited"}
  /\ exitCode \in ExitCodes \cup {Running}
  /\ timeout \in Timeouts
  /\ elapsed \in Nat
  /\ dataCap \in Nat
  /\ radio_data \in Seq(Samples)
  /\ late \in Nat
  /\ verdict \in {"none", "voice", "no_voice"}
  /\ stdoutBuf \in Nat
  /\ cpc \in {"none", "forked", "setup", "rtl_fm", "streaming", "dead"}
  /\ childFate \in {"none", "exec_failed", "no_device", "broken_pipe", "gave_up",
                    "terminated"}
  /\ signals \subseteq {"SIGTERM"}
  /\ written \in Nat
  /\ pipe \in Seq(Nat)
  /\ readers \subseteq {"rcs", "child"}
  /\ writers \subseteq {"rcs", "child"}
  /\ device \in {"free", "rcs", "child", "other"}

\* read() never stores a sample behind the end of the allocation: the resize of
\* an earlier iteration always left room for the one being read now.
BufferSafe == ppc = "read" /\ dataCap # 0 => data_len < dataCap

\* The clip is lost, for want of memory or because its capacity leaves the range
\* of an int, only in a capture that already holds about half as many samples as
\* there is memory for, or as an int can count.
OverflowOnlyWhenHuge ==
  ppc = "read" /\ dataCap = 0 => 2 * (data_len + 1) > AmpleMemory

\* Unless the exec failed, what rcs has stored followed by what waits in the
\* pipe is exactly what rtl_fm wrote: no byte lost, repeated, reordered or
\* paired with the byte of another sample, whoever died in between.
ClipInOrder ==
  childFate # "exec_failed" =>
    /\ \A i \in 1..data_len : radio_data[i] = Sample(i)
    /\ pipe = [k \in 1..2 * (written - data_len) |-> 2 * data_len + k]

\* The time is looked at before a read that may block and used after it; still
\* at most one sample is stored after the hold time has run out.
AtMostOneLate == late <= 1

\* rtl_fm finds the dongle taken only by another program: the handle the
\* device check opened is always closed before the child needs it.
HandOver == childFate = "no_device" => device = "other"

\* The capture is cut short only by the death of the child or the loss of the
\* buffer: a pause of rtl_fm, long as it may be, is never taken for its end.
FullHoldTime ==
  ppc \in {"vad", "kill", "close"} =>
    elapsed >= timeout \/ cpc = "dead" \/ dataCap = 0

\* With a dongle that delivers, every run ends: by the hold time, at the end of
\* the file when the child dies early, or by failing.
Termination == DongleDelivers => <>(ppc = "exited")

\* However rcs ends, killed child or not, the child ends too and gives the
\* dongle back, be it only because it finds the pipe broken.
ChildStops ==
  DongleDelivers => (ppc = "exited" ~> cpc \in {"none", "dead"} /\ device # "child")

\* After a run that ended normally no child is left behind, even when rtl_fm is
\* silent and would never notice that nobody listens.
KilledChildStops == exitCode = EXIT_SUCCESS ~> cpc = "dead"

\* How far the scan is, seen from outside.
Stage ==
  CASE ppc \in {"check", "announce", "spawn"} -> "waiting"
    [] ppc \in {"forked", "loop", "read"}     -> "listening"
    [] ppc = "vad"                            -> "closed"
    [] ppc \in {"kill", "close"}              -> "answered"
    [] ppc = "exited"                         -> "over"

\* The exec failed, and the clip is not what rtl_fm sent.
Spoiled == childFate = "exec_failed"

Sent  == [k \in 1..written |-> Sample(k)]
Heard == IF Spoiled THEN <<>> ELSE radio_data

Scan == INSTANCE Capture WITH
  Audio   <- {Sample(k) : k \in 1..MaxSamples},
  Lag     <- PipeCapacity \div 2,
  stage   <- Stage,
  sent    <- Sent,
  clip    <- Heard,
  spoiled <- Spoiled,
  answer  <- verdict

\* radio.h:26-31: two processes, a pipe, a growing buffer and a clock together
\* behave like one program that listens and then answers: the clip is a prefix
\* of what rtl_fm sent, final before it is judged, and judged once.
ImplementsCapture == Scan!Spec

\* radio.c:34 calls RTL_FM_FAILED the exit code "for if the underlying rtl_fm
\* program could not be invoked": at the least, a scan that has time to listen
\* does not end as a success then.
RtlFmFailureReported ==
  childFate = "exec_failed" /\ timeout > 0 => exitCode # EXIT_SUCCESS

\* radio.c:62-63: what is read are "the signed 16 bit ints produced by rtl_fm".
OnlyRtlFmSamples ==
  \A i \in 1..data_len : radio_data[i][1] # TextByte /\ radio_data[i][2] # TextByte
=============================================================================
